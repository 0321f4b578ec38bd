SPECIFICATION Spec
CONSTANTS
    SYSTEM = SYSTEM
    NULL = NULL
    Workers = {INIT}
    DEFAULT_QUANTUM = 2
    QuantumSpace = 4
    MaxDepth = 2
INVARIANT
    RegionExclusive
