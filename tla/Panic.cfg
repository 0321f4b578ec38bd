SPECIFICATION FairSpec
CONSTANTS
    Tasks = {system, init}
    HANDLER = HANDLER
    BOOT = BOOT
    NUL = NUL
    CR = CR
    LF = LF
    MaxBuf = 3
    Lengths = {1}
    Regs = 1
    FifoSize = 3
INVARIANTS
    InsideBuffer
    PortUsable
    PanicIntact
PROPERTIES
    PanicHalts
CHECK_DEADLOCK FALSE
