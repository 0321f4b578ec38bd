----------------------------- MODULE Interrupts -----------------------------
(***************************************************************************)
(* Interrupts from the device to the handler and back: the two 8259 PICs   *)
(* and the kernel's shadow of their masks, the gate and the stub of the    *)
(* vector, the handler table behind them, the list of handlers of each     *)
(* IRQ, and the frame on the stack of the interrupted thread, from which   *)
(* it, or the thread the scheduler prefers, is resumed.  kmain registers   *)
(* handlers with interrupts off and then becomes the system task; a        *)
(* handler runs with interrupts off.  (Which thread is preferred, and what *)
(* an interrupt does to int_mask_irq, is the subject of Scheduler.tla.)    *)
(***************************************************************************)
EXTENDS CpuTables, FiniteSetsExt

CONSTANTS
    BOOT,         \* kmain
    SYSTEM,       \* kernel_tasks[SYSTEM]
    INIT_TASK,         \* kernel_tasks[INIT]
    Irqs,         \* the IRQs with a device, numbered as on the PICs
    Handlers,     \* functions registered with int_register_irq_handler
    Exceptions,   \* vectors of the CPU exceptions that may occur
    NULL,
    MaxHandlers   \* bound on the handlers of one IRQ

CASCADE == 2

Threads == {BOOT, SYSTEM, INIT_TASK}

ASSUME IrqsAssumption == Irqs \subseteq (0 .. 15) \ {CASCADE}

\* The CPU checks alignment (vector 17) in user mode only.
ASSUME ExceptionsAssumption == Exceptions \subseteq (0 .. 31) \ {17}

\* No IRQ of the kernel has more than two handlers.
ASSUME HandlersAssumption == MaxHandlers \in 1 .. 2

ASSUME ThreadsAssumption ==
    /\ BOOT # SYSTEM /\ BOOT # INIT_TASK /\ SYSTEM # INIT_TASK
    /\ NULL \notin Vectors

VARIABLES
    irq_mask,     \* the shadow: the IRQs whose bit is set
    picMask,      \* the mask registers of the PICs, one set for both
    table,        \* g_int_handler_table
    list,         \* irq_handler_list
    registered,   \* history: the handlers registered for each IRQ, in order
    raised,       \* IRQs the devices have raised
    isrMaster,    \* in-service registers of the PICs
    isrSlave,
    cpu,          \* the CPU's registers
    stack,        \* per thread: the words on its stack below its own
    current,      \* g_current_process, BOOT while there is none
    vector,       \* the number for which the stub called a handler, or NULL
    cause,        \* history: what interrupted the thread, or NULL
    node,         \* the part of the list that irq_int_handler has not run
    ran,          \* history: the handlers it ran
    panicked

tableVars == <<irq_mask, picMask, table, list, registered>>
picVars == <<raised, isrMaster, isrSlave>>
cpuVars == <<cpu, stack, current>>
runVars == <<vector, cause, node, ran>>
vars == <<tableVars, picVars, cpuVars, runVars, panicked>>

Slave(s) == {i \in s : i >= 8}

Master(s) == s \ Slave(s)

\* The registers of a thread of the kernel, whatever they are, when it runs.
Live(t) == [r \in Registers |-> CASE r = "cs"          -> Sel(KERN_CODE_SELECTOR)
                                   [] r \in SegmentRegs -> Sel(KERN_DATA_SELECTOR)
                                   [] OTHER             -> <<t, r>>]

\* The struct thread_context that init_system_task and spawn_init fill in for
\* a new thread.
NewContext(t) ==
    [i \in DOMAIN Context |-> IF Context[i] \in Registers THEN Live(t)[Context[i]]
                              ELSE <<t, Context[i]>>]

Default(v) == CASE IsIrqVector(v)             -> "irq_int_handler"
                [] v = INT_SYSCALL_INTERRUPT  -> "syscall_int_handler"
                [] OTHER                      -> "unexpected_int_handler"

\* int_init
Init ==
    /\ irq_mask = (0 .. 15) \ {CASCADE}
    /\ picMask = PicMaster.mask \cup {b + 8 : b \in PicSlave.mask}
    /\ table = [v \in Vectors |-> Default(v)]
    /\ list = [i \in Irqs |-> <<>>]
    /\ registered = [i \in Irqs |-> <<>>]
    /\ raised = {} /\ isrMaster = {} /\ isrSlave = {}
    /\ cpu = Live(BOOT) /\ current = BOOT
    /\ stack = [t \in Threads |-> <<>>]
    /\ vector = NULL /\ cause = NULL /\ node = <<>> /\ ran = <<>>
    /\ panicked = FALSE

InKernel == vector = NULL /\ ~panicked

-----------------------------------------------------------------------------
\* int_register_handler: IRQ and syscall vectors panic, NULL restores the
\* default.
RegisterHandler(v, h) ==
    /\ InKernel /\ current = BOOT
    /\ IF v = INT_SYSCALL_INTERRUPT \/ IsIrqVector(v)
       THEN panicked' = TRUE /\ UNCHANGED table
       ELSE /\ table' = [table EXCEPT ![v] = IF h = NULL
                                             THEN "unexpected_int_handler" ELSE h]
            /\ UNCHANGED panicked
    /\ UNCHANGED <<irq_mask, picMask, list, registered, picVars, cpuVars, runVars>>

\* Mutant: the new handler replaces the ones before it.
AppendedReplaces(l, h) == <<h>>

\* The list after int_register_irq_handler.  Its loop assigns *node, the head
\* of the list, so that the head has moved to the last node when it ends.
Appended(l, h) == IF l = <<>> THEN <<h>> ELSE <<Last(l), h>>

RegisterIrqHandler(i, h) ==
    /\ InKernel /\ current = BOOT
    /\ Len(registered[i]) < MaxHandlers
    /\ list' = [list EXCEPT ![i] = Appended(@, h)]
    /\ registered' = [registered EXCEPT ![i] = Append(@, h)]
    /\ UNCHANGED <<irq_mask, picMask, table, picVars, cpuVars, runVars, panicked>>

\* Mutant: the slave's register is never written.
SetRawMaskMasterOnly(mask) ==
    /\ picMask' = Master(mask) \cup Slave(picMask)
    /\ irq_mask' = mask

\* set_raw_mask: a port is written when its half of the mask changes.
SetRawMask(mask) ==
    /\ picMask' = (IF Master(mask) # Master(irq_mask)
                   THEN Master(mask) ELSE Master(picMask)) \cup
                  (IF Slave(mask) # Slave(irq_mask)
                   THEN Slave(mask) ELSE Slave(picMask))
    /\ irq_mask' = mask

\* int_mask_irq and int_unmask_irq; a mask that is set already is reported
\* and left alone.
MaskIrq(i) ==
    /\ InKernel
    /\ i \notin irq_mask
    /\ SetRawMask(irq_mask \cup {i})
    /\ UNCHANGED <<table, list, registered, picVars, cpuVars, runVars, panicked>>

UnmaskIrq(i) ==
    /\ InKernel
    /\ i \in irq_mask
    /\ SetRawMask(irq_mask \ {i})
    /\ UNCHANGED <<table, list, registered, picVars, cpuVars, runVars, panicked>>

-----------------------------------------------------------------------------
(* Threads.                                                                *)

\* scheduler_bootstrap_thread reads eip and cs from the context by offset,
\* and sets the interrupt flag; other registers are not loaded.
Bootstrapped(c) ==
    [Live(SYSTEM) EXCEPT !["eip"] = WordAt(c, 56), !["cs"] = WordAt(c, 60)]

\* init_system_task: kmain becomes the system task.
InitSystemTask ==
    /\ InKernel /\ current = BOOT
    /\ cpu' = Bootstrapped(NewContext(SYSTEM))
    /\ current' = SYSTEM
    /\ UNCHANGED <<tableVars, picVars, stack, runVars, panicked>>

\* Mutant: the whole struct is copied to the stack.
SpawnedWhole == NewContext(INIT_TASK)

\* spawn_init copies all but the last two words of the context to the new
\* stack.
Spawned == SubSeq(NewContext(INIT_TASK), 1, Len(Context) - 2)

SpawnInit ==
    /\ InKernel /\ current = SYSTEM
    /\ stack[INIT_TASK] = <<>>
    /\ stack' = [stack EXCEPT ![INIT_TASK] = Spawned]
    /\ UNCHANGED <<tableVars, picVars, cpu, current, runVars, panicked>>

-----------------------------------------------------------------------------
(* Interrupts.                                                             *)

\* A device raises its line; the PIC latches it.
Raise(i) ==
    /\ ~panicked
    /\ i \notin raised
    /\ raised' = raised \cup {i}
    /\ UNCHANGED <<tableVars, isrMaster, isrSlave, cpuVars, runVars, panicked>>

\* The line of the master at which an IRQ arrives.
Line(i) == IF i >= 8 THEN CASCADE ELSE i

\* The PICs hold back an IRQ while one of the same or a higher priority is in
\* service.
Deliverable(i) ==
    /\ i \in raised
    /\ i \notin picMask
    /\ Line(i) \notin picMask
    /\ \A j \in isrMaster : Line(i) < j
    /\ i >= 8 => \A j \in isrSlave : i < j

\* The registers after the stub has loaded the kernel's segments.
InHandler == [r \in Registers |-> CASE r = "cs"          -> Sel(KERN_CODE_SELECTOR)
                                     [] r \in SegmentRegs -> Sel(KERN_DATA_SELECTOR)
                                     [] OTHER             -> <<NULL, r>>]

\* The CPU goes through the gate of vector v, and int_handler_stub calls the
\* handler in the table: 48(%esp) is the number that the stub has pushed.
\* unexpected_int_handler and page_fault_int_handler end in panic_r.
Enter(v, why) ==
    LET frame == Entered(v, cpu, stack[current])
        n == WordAt(frame, 48)[2]
    IN
    /\ stack' = [stack EXCEPT ![current] = frame]
    /\ cpu' = InHandler
    /\ vector' = n
    /\ cause' = why
    /\ node' = IF table[n] = "irq_int_handler" THEN list[n - FIRST_IRQ_INT] ELSE <<>>
    /\ ran' = <<>>
    /\ panicked' = (table[n] \in {"unexpected_int_handler", "page_fault_int_handler"})
    /\ UNCHANGED <<tableVars, current>>

\* An IRQ is taken, once kmain has become the system task.
TakeIrq(i) ==
    /\ InKernel /\ current # BOOT
    /\ Deliverable(i)
    /\ raised' = raised \ {i}
    /\ isrMaster' = isrMaster \cup {Line(i)}
    /\ isrSlave' = IF i >= 8 THEN isrSlave \cup {i} ELSE isrSlave
    /\ Enter(VectorOf(i), <<"irq", i>>)

\* int $48: syscall_int_handler prints, and leaves everything else alone.
Syscall ==
    /\ InKernel /\ current # BOOT
    /\ Enter(INT_SYSCALL_INTERRUPT, <<"vector", INT_SYSCALL_INTERRUPT>>)
    /\ UNCHANGED picVars

\* A CPU exception, with interrupts on or off.
Exception(v) ==
    /\ InKernel
    /\ Enter(v, <<"vector", v>>)
    /\ UNCHANGED picVars

\* irq_int_handler: node->handler(context)
RunHandler ==
    /\ vector # NULL
    /\ node # <<>>
    /\ ran' = Append(ran, Head(node))
    /\ node' = Tail(node)
    /\ UNCHANGED <<tableVars, picVars, cpuVars, vector, cause, panicked>>

\* irq_int_handler: the number of the IRQ is found in the context.
Irq == Field(stack[current], "int_num")[2] - FIRST_IRQ_INT

\* Mutant: only the controller that raised the interrupt is told.
EndOfInterruptOne ==
    IF Irq >= 8
    THEN isrSlave' = isrSlave \ {Min(isrSlave)} /\ UNCHANGED isrMaster
    ELSE isrMaster' = isrMaster \ {Min(isrMaster)} /\ UNCHANGED isrSlave

\* The EOIs end the service of the highest priority on each controller.
EndOfInterrupt ==
    /\ isrSlave' = IF Irq >= 8 THEN isrSlave \ {Min(isrSlave)} ELSE isrSlave
    /\ isrMaster' = isrMaster \ {Min(isrMaster)}

\* stage2 takes the stack of the thread that stage1 has made the current one.
Switch(next) == Resumed(stack[next])

\* The handler behind its loop, and the end of int_handler_stub, which
\* resumes the thread that the scheduler prefers.
Return(next) ==
    /\ vector # NULL /\ ~panicked
    /\ node = <<>>
    /\ IF table[vector] = "irq_int_handler"
       THEN EndOfInterrupt ELSE UNCHANGED <<isrMaster, isrSlave>>
    /\ stack[next] # <<>>
    /\ cpu' = Switch(next)
    /\ stack' = [stack EXCEPT ![next] = SubSeq(@, Popped + 1, Len(@))]
    /\ current' = next
    /\ vector' = NULL /\ cause' = NULL /\ ran' = <<>>
    /\ UNCHANGED <<tableVars, raised, node, panicked>>

Handle == RunHandler \/ \E t \in Threads : Return(t)

Next ==
    \/ \E v \in Exceptions \cup {INT_SYSCALL_INTERRUPT} \cup {VectorOf(i) : i \in Irqs},
         h \in {"page_fault_int_handler", NULL} : RegisterHandler(v, h)
    \/ \E i \in Irqs, h \in Handlers : RegisterIrqHandler(i, h)
    \/ \E i \in Irqs : MaskIrq(i) \/ UnmaskIrq(i) \/ Raise(i) \/ TakeIrq(i)
    \/ InitSystemTask \/ SpawnInit \/ Syscall
    \/ \E v \in Exceptions : Exception(v)
    \/ Handle

Spec == Init /\ [][Next]_vars

\* kmain ends, the CPU finishes the handler it runs, and it takes an interrupt
\* that the PICs offer again and again.
FairSpec ==
    /\ Spec
    /\ WF_vars(InitSystemTask)
    /\ WF_vars(Handle)
    /\ \A i \in Irqs : SF_vars(TakeIrq(i))

-----------------------------------------------------------------------------
(* Properties.                                                             *)

\* When irq_int_handler returns, neither PIC has an interrupt left in service
\* that would hold back later ones; an IRQ of the slave needs two EOIs.
ServiceEnds == vector = NULL => isrMaster = {} /\ isrSlave = {}

\* The PICs' vectors, the gates, the stubs and the handler table agree: the
\* handler called is the one for the device or exception that interrupted,
\* and only an exception makes the kernel panic.
Dispatched ==
    vector # NULL =>
        /\ vector = IF cause[1] = "irq" THEN FIRST_IRQ_INT + cause[2] ELSE cause[2]
        /\ panicked => cause \in {<<"vector", v>> : v \in Exceptions}

\* An interrupt runs every handler registered for its IRQ, once and in the
\* order of registration, for as many handlers as an IRQ of this kernel has:
\* two, timer_callback and scheduler_tick.
AllHandlersRun ==
    vector # NULL /\ node = <<>> /\ cause[1] = "irq" => ran = registered[cause[2]]

\* The context passed to a handler describes the thread that was interrupted:
\* every field holds what struct thread_context says, with and without an
\* error code.
ContextFaithful ==
    vector # NULL =>
        /\ \A r \in Registers : Field(stack[current], r) = Live(current)[r]
        /\ Field(stack[current], "int_num") = Number(vector)

\* A thread that is resumed, after any number of switches or for the first
\* time, finds its own registers, its stack as it left it, and segments that
\* are the kernel's flat ones.
ThreadIntact ==
    vector = NULL =>
        /\ cpu = Live(current)
        /\ stack[current] = <<>>
        /\ IsFlat(cpu["cs"][2], TRUE)
        /\ \A r \in SegmentRegs : IsFlat(cpu[r][2], FALSE)

\* An IRQ that is raised and stays unmasked is served, unless the kernel
\* panics.
IrqServed ==
    \A i \in Irqs : (i \in raised) ~> (i \notin raised \/ i \in irq_mask \/ panicked)

=============================================================================
