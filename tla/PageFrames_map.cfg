SPECIFICATION Spec
CONSTANTS
    BootInfos <- MCBootInfos
    PageSize = 2
    BitsPerByte = 2
    BytesPerWord = 2
    ArrayWords = 6
    AddrSpace = 64
    Kernel <- MCKernel
CHECK_DEADLOCK FALSE
INVARIANT
    OnlyAvailableFreed
