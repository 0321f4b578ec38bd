SPECIFICATION FairSpec
CONSTANTS
    BOOT = BOOT
    SYSTEM = SYSTEM
    INIT_TASK = INIT_TASK
    Irqs = {0, 8}
    Handlers = {timer_callback, scheduler_tick}
    Exceptions = {6, 14}
    NULL = NULL
    MaxHandlers = 2
CHECK_DEADLOCK FALSE
INVARIANTS
    ServiceEnds
    Dispatched
    AllHandlersRun
    ContextFaithful
    ThreadIntact
PROPERTY
    IrqServed
