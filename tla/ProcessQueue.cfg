SPECIFICATION Spec
CONSTANTS
    Procs = {p1, p2, p3, p4}
    NULL = NULL
INVARIANTS
    NoCycle
PROPERTIES
    AddReturns
    ListIsRing
