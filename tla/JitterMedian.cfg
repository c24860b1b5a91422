CONSTANTS
    Bits = 4
    NsPerMs = 11
    MsPerS = 1
    SamplesPerS = 11
    tsc_khz = 5
    thresh_ns = 5
    Gaps = {1, 10}
    Runtimes = {4}
SPECIFICATION JitterSpec
INVARIANT MedianIsCentral
CHECK_DEADLOCK FALSE
