SPECIFICATION FairSpec
CONSTANTS
    Tasks = {system, init}
    BOOT = BOOT
    TickSpace = 4
    Durations = {0, 2}
INVARIANTS
    HeapExclusive
    InterruptsRestored
    LockAssertionsHold
PROPERTIES
    SleepsInFull
    ClockRuns
