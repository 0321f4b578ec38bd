SPECIFICATION Spec
CONSTANTS
    Frames = 16
    Reserved <- MCReserved
    PTES = 9
    KernelDir = 3
    BootTable = 2
    BootPages = {1, 2}
    VgaStart = 1
    VgaPages = 1
    IOOffset = 63
    Placement = 30
    HeapStart = 45
    HeapMax = 5
    StackPage = 43
    ModStart = 54
    PageBytes = 4
    Mods <- MCMods
    EntryBytes = 4
    MaxBlock = 2
CHECK_DEADLOCK FALSE
INVARIANTS
    OnlyExhaustionPanics
    HeapPrivate
    FramesAccounted
    ModulesInPlace
    TlbCoherent
