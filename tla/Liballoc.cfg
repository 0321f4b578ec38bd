SPECIFICATION Spec
CONSTANTS
    MAJOR = 3
    MINOR = 3
    ALIGNMENT = 2
    ALIGN_INFO = 2
    PageSize = 12
    PageCount = 2
    HeapPages = 7
    Requests = {1, 4, 20}
    MaxMoving = 1
CHECK_DEADLOCK FALSE
INVARIANTS
    BlocksDisjoint
    Accounting
    BestBetLive
