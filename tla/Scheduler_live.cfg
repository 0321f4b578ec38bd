SPECIFICATION FairSpec
CONSTANTS
    SYSTEM = SYSTEM
    NULL = NULL
    Workers = {INIT}
    DEFAULT_QUANTUM = 2
    QuantumSpace = 3
    MaxDepth = 1
PROPERTIES
    YieldServed
    NoStarvation
