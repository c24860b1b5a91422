CONSTANTS
    cpus = 4
    Online = {0, 1, 3}
    CPU_SETSIZE = 6
    Named = {0, 1, 3, 5, 6}
SPECIFICATION FairSpec
INVARIANTS
    ControlInv
    NoFailureWithoutReason
    ReadBeforeReturn
    ReportIsComplete
PROPERTIES
    Terminates
    ThreadErrorIsReported
CHECK_DEADLOCK FALSE
