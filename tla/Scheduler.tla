----------------------------- MODULE Scheduler -----------------------------
(***************************************************************************)
(* The preemptive core of treeos on its one CPU: the system task and the   *)
(* worker tasks it spawns, the round-robin scheduler driven by the timer   *)
(* interrupt, and the critical regions (int_lock_region) that protect both *)
(* by masking IRQ 0 on the 8259 PIC.                                       *)
(*                                                                         *)
(* A task's steps are the individual reads and writes of the two copies of *)
(* the PIT mask bit: the PIC's own (picMask, written by outb) and the      *)
(* kernel's shadow of it (irqMask, the variable irq_mask).  The timer      *)
(* interrupt may be taken between any two of them.  The interrupt handler  *)
(* itself is one action: it runs through interrupt gates with IF = 0 and   *)
(* no other processor exists.                                              *)
(***************************************************************************)
EXTENDS Integers, SequencesExt

CONSTANTS
    SYSTEM,          \* kernel_tasks[SYSTEM]
    Workers,         \* the tasks spawned by the system task: {INIT} in kernel.c
    NULL,
    DEFAULT_QUANTUM,
    QuantumSpace,    \* process.quantum is a uint32_t: 2^32 in the code
    MaxDepth         \* bound on the number of nested critical regions

Tasks == {SYSTEM} \cup Workers

ASSUME TasksAssumption == SYSTEM \notin Workers /\ NULL \notin Tasks

ASSUME BoundsAssumption ==
    /\ QuantumSpace \in Nat
    /\ DEFAULT_QUANTUM \in 1 .. (QuantumSpace - 1)
    /\ MaxDepth \in Nat \ {0}

VARIABLES
    boot,      \* the next step of kmain, "done" once the first thread runs
    iflag,     \* EFLAGS.IF
    preempt,   \* g_preemption_enabled
    current,   \* g_current_process
    queue,     \* process_queue and the next pointers, as the list they form
    yield,     \* yield[p]: PROC_DEBUG_YIELD in p->flags
    quantum,   \* p->quantum
    ctx,       \* ctx[p]: p->thread->context points at a frame stage2 can resume
    picMask,   \* bit 0 of the master PIC's interrupt mask register
    irqMask,   \* bit 0 of irq_mask
    irr,       \* the timer interrupt latched by the PIC
    pc,        \* per task: the next statement
    stack      \* per task: its open critical regions, innermost last

vars == <<boot, iflag, preempt, current, queue, yield, quantum, ctx, picMask,
          irqMask, irr, pc, stack>>

maskVars  == <<picMask, irqMask>>
schedVars == <<current, queue, yield, quantum, ctx, preempt>>
bootVars  == <<boot, iflag>>

-----------------------------------------------------------------------------
(* The statements of a task.                                               *)

\* The calls a task's top level makes, each of them one critical region.
Calls == {"Spawn", "Add", "Print", "PrintEsp", "Yield"}

\* int_lock_region and int_mask_irq / set_raw_mask below it.
LockLabels == {"LockRead", "MaskTest", "MaskRaw", "MaskCmp", "MaskOut",
               "MaskStore"}

\* int_unlock_region and int_unmask_irq / set_raw_mask below it.
UnlockLabels == {"Unlock", "UnmaskTest", "UnmaskRaw", "UnmaskCmp", "UnmaskOut",
                 "UnmaskStore"}

Labels == Calls \cup LockLabels \cup UnlockLabels \cup
          {"Body", "WaitTest", "Hlt", "Halted"}

\* An activation of a function that opens a region: who called it, its local
\* variable lock, and whether the region's own work is done.  "Nested" is a
\* region opened inside another (tty_putchar_color, update_cursor, scroll) or
\* by the message of worry().
Frames == [call : Calls \cup {"Nested"}, lock : BOOLEAN, done : BOOLEAN]

Top(t) == Last(stack[t])

Depth(t) == Len(stack[t])

\* Only the printing functions open regions inside their region.
Prints(c) == c \in {"Print", "PrintEsp", "Nested"}

\* The stack s with f in the place of its innermost activation.
WithTop(s, f) == [s EXCEPT ![Len(s)] = f]

NewFrame(c) == [call |-> c, lock |-> FALSE, done |-> Prints(c)]

TypeOK ==
    /\ boot \in {"int_init", "timer_init", "scheduler_init",
                 "init_system_task", "done"}
    /\ iflag \in BOOLEAN
    /\ preempt \in BOOLEAN
    /\ current \in Tasks \cup {NULL}
    /\ queue \in Seq(Tasks)
    /\ yield \in [Tasks -> BOOLEAN]
    /\ quantum \in [Tasks -> 0 .. (QuantumSpace - 1)]
    /\ ctx \in [Tasks -> BOOLEAN]
    /\ picMask \in BOOLEAN
    /\ irqMask \in BOOLEAN
    /\ irr \in BOOLEAN
    /\ pc \in [Tasks -> Labels]
    /\ stack \in [Tasks -> Seq(Frames)]

Queued == Range(queue)

\* kernel_tasks and kernel_threads are zeroed; every task starts at its entry
\* point: kernel_system_task calls spawn_init, kernel_idle_task prints.
Init ==
    /\ boot = "int_init"
    /\ iflag = FALSE
    /\ preempt = FALSE
    /\ current = NULL
    /\ queue = <<>>
    /\ yield = [t \in Tasks |-> FALSE]
    /\ quantum = [t \in Tasks |-> 0]
    /\ ctx = [t \in Tasks |-> FALSE]
    /\ picMask \in BOOLEAN       \* whatever the firmware left in the PIC
    /\ irqMask = FALSE
    /\ irr = FALSE
    /\ pc = [t \in Tasks |-> IF t = SYSTEM
                             THEN IF Workers = {} THEN "Print" ELSE "Spawn"
                             ELSE "Print"]
    /\ stack = [t \in Tasks |-> <<>>]

\* Mutant: a new process is put in front of the queue.
EnqueueInFront(q, p) ==
    IF p \in Range(q) THEN q ELSE <<p>> \o q

\* scheduler_add_process: a process already on the queue is not added again.
Enqueue(q, p) ==
    IF p \in Range(q) THEN q ELSE Append(q, p)

-----------------------------------------------------------------------------
(* kmain, with IF = 0 until scheduler_bootstrap_thread irets.              *)

\* int_init: remap_pic masks every IRQ but the cascade and sets the shadow.
BootInterrupts ==
    /\ boot = "int_init"
    /\ boot' = "timer_init"
    /\ picMask' = TRUE
    /\ irqMask' = TRUE
    /\ UNCHANGED <<iflag, schedVars, irr, pc, stack>>

\* timer_init: the tick starts arriving at the PIC and is unmasked.
BootTimer ==
    /\ boot = "timer_init"
    /\ boot' = "scheduler_init"
    /\ picMask' = FALSE
    /\ irqMask' = FALSE
    /\ UNCHANGED <<iflag, schedVars, irr, pc, stack>>

BootScheduler ==
    /\ boot = "scheduler_init"
    /\ boot' = "init_system_task"
    /\ queue' = <<>>
    /\ preempt' = TRUE
    /\ UNCHANGED <<iflag, current, yield, quantum, ctx, maskVars, irr, pc, stack>>

\* Mutant: interrupts are on before g_current_process is set.
BootSystemTaskEarlyIF ==
    /\ boot = "init_system_task"
    /\ boot' = "done"
    /\ iflag' = TRUE
    /\ UNCHANGED <<schedVars, maskVars, irr, pc, stack>>

\* scheduler_bootstrap_thread: the task is current before iret sets IF.
BootstrapThread(t) == current' = t /\ iflag' = TRUE

\* init_system_task: the region taken by scheduler_add_process cannot be
\* interrupted here, so it leaves no trace.
BootSystemTask ==
    /\ boot = "init_system_task"
    /\ boot' = "done"
    /\ quantum' = [quantum EXCEPT ![SYSTEM] = DEFAULT_QUANTUM]
    /\ queue' = Enqueue(queue, SYSTEM)
    /\ BootstrapThread(SYSTEM)
    /\ UNCHANGED <<preempt, yield, ctx, maskVars, irr, pc, stack>>

-----------------------------------------------------------------------------
(* Critical regions.                                                       *)

Running(t, label) == iflag /\ current = t /\ pc[t] = label

Goto(t, label) == pc' = [pc EXCEPT ![t] = label]

\* What a task does after the region opened by call c: kernel_system_task and
\* kernel_idle_task.
AfterCall(c) ==
    CASE c = "Spawn"    -> "Add"
      [] c = "Add"      -> IF Workers \subseteq Queued THEN "Print" ELSE "Spawn"
      [] c = "Print"    -> "PrintEsp"
      [] c = "PrintEsp" -> "Yield"
      [] c = "Yield"    -> "WaitTest"
      [] OTHER          -> "Body"

Push(t, c) ==
    /\ stack' = [stack EXCEPT ![t] = Append(@, NewFrame(c))]
    /\ Goto(t, "LockRead")

\* The region's function returns to the function that called it.
Return(t) ==
    /\ stack' = [stack EXCEPT ![t] = Front(@)]
    /\ Goto(t, IF Depth(t) > 1 THEN "Body" ELSE AfterCall(Top(t).call))

\* A task calls spawn_init, scheduler_add_process, printf or process_yield.
Call(t) ==
    /\ \E c \in Calls : Running(t, c) /\ Push(t, c)
    /\ UNCHANGED <<bootVars, schedVars, maskVars, irr>>

\* bool lock = int_irq_enabled(IRQ_PIT)
LockRead(t) ==
    /\ Running(t, "LockRead")
    /\ stack' = [stack EXCEPT ![t] =
                    WithTop(@, [Top(t) EXCEPT !.lock = ~irqMask])]
    /\ Goto(t, IF irqMask THEN "Body" ELSE "MaskTest")
    /\ UNCHANGED <<bootVars, schedVars, maskVars, irr>>

\* int_mask_irq: an IRQ found masked is reported by worry(), which prints in
\* a region of its own; lock stays TRUE whatever int_mask_irq returns.
MaskTest(t) ==
    /\ Running(t, "MaskTest")
    /\ CASE irqMask /\ Depth(t) < MaxDepth -> Push(t, "Nested")
         [] irqMask /\ Depth(t) >= MaxDepth -> Goto(t, "Body") /\ UNCHANGED stack
         [] OTHER -> Goto(t, "MaskRaw") /\ UNCHANGED stack
    /\ UNCHANGED <<bootVars, schedVars, maskVars, irr>>

\* set_raw_mask: if (irq_mask == mask) return
MaskRaw(t) ==
    /\ Running(t, "MaskRaw")
    /\ Goto(t, IF irqMask THEN "Body" ELSE "MaskCmp")
    /\ UNCHANGED <<bootVars, schedVars, maskVars, irr, stack>>

\* set_raw_mask: the port is written only when the shadow's byte differs
MaskCmp(t) ==
    /\ Running(t, "MaskCmp")
    /\ Goto(t, IF irqMask THEN "MaskStore" ELSE "MaskOut")
    /\ UNCHANGED <<bootVars, schedVars, maskVars, irr, stack>>

MaskOut(t) ==
    /\ Running(t, "MaskOut")
    /\ picMask' = TRUE
    /\ Goto(t, "MaskStore")
    /\ UNCHANGED <<bootVars, schedVars, irqMask, irr, stack>>

MaskStore(t) ==
    /\ Running(t, "MaskStore")
    /\ irqMask' = TRUE
    /\ Goto(t, "Body")
    /\ UNCHANGED <<bootVars, schedVars, picMask, irr, stack>>

-----------------------------------------------------------------------------
(* The work inside the regions.                                            *)

Work(t, c) ==
    /\ Running(t, "Body")
    /\ Top(t).call = c
    /\ ~Top(t).done
    /\ stack' = [stack EXCEPT ![t] =
                    WithTop(@, [Top(t) EXCEPT !.done = TRUE])]
    /\ UNCHANGED <<bootVars, current, preempt, maskVars, irr, pc>>

\* The task that spawn_init fills in next (kernel_tasks[INIT]).
NextWorker == CHOOSE w \in Workers : w \notin Queued

\* Mutant: the new task's saved context is left unset.
SpawnBodyNoContext(t) ==
    /\ Work(t, "Spawn")
    /\ \E w \in Workers :
          /\ w = NextWorker
          /\ quantum' = [quantum EXCEPT ![w] = DEFAULT_QUANTUM]
    /\ UNCHANGED <<queue, yield, ctx>>

\* spawn_init: w gets a quantum and a stack holding a context that looks as
\* if the task had been interrupted at its entry point.
SpawnBody(t) ==
    /\ Work(t, "Spawn")
    /\ \E w \in Workers :
          /\ w = NextWorker
          /\ quantum' = [quantum EXCEPT ![w] = DEFAULT_QUANTUM]
          /\ ctx' = [ctx EXCEPT ![w] = TRUE]
    /\ UNCHANGED <<queue, yield>>

\* scheduler_add_process(task), the last statement of spawn_init.
AddBody(t) ==
    /\ Work(t, "Add")
    /\ \E w \in Workers : w = NextWorker /\ queue' = Enqueue(queue, w)
    /\ UNCHANGED <<quantum, ctx, yield>>

\* process_yield: g_current_process->flags |= PROC_DEBUG_YIELD
YieldBody(t) ==
    /\ Work(t, "Yield")
    /\ yield' = [yield EXCEPT ![current] = TRUE]
    /\ UNCHANGED <<queue, quantum, ctx>>

\* The printing functions open further regions inside theirs.
NestedCall(t) ==
    /\ Running(t, "Body")
    /\ Prints(Top(t).call)
    /\ Depth(t) < MaxDepth
    /\ Push(t, "Nested")
    /\ UNCHANGED <<bootVars, schedVars, maskVars, irr>>

Leave(t) ==
    /\ Running(t, "Body")
    /\ Top(t).done
    /\ Goto(t, "Unlock")
    /\ UNCHANGED <<bootVars, schedVars, maskVars, irr, stack>>

-----------------------------------------------------------------------------
(* int_unlock_region.                                                      *)

\* Mutant: the region is left without unmasking the timer.
UnlockForgets(t) ==
    /\ Running(t, "Unlock")
    /\ Return(t)
    /\ UNCHANGED <<bootVars, schedVars, maskVars, irr>>

\* if (lock) int_unmask_irq(IRQ_PIT)
Unlock(t) ==
    /\ Running(t, "Unlock")
    /\ IF Top(t).lock
       THEN Goto(t, "UnmaskTest") /\ UNCHANGED stack
       ELSE Return(t)
    /\ UNCHANGED <<bootVars, schedVars, maskVars, irr>>

\* int_unmask_irq: an IRQ found unmasked is reported by worry() and left as
\* it is; the region's function returns after the message.
UnmaskTest(t) ==
    /\ Running(t, "UnmaskTest")
    /\ CASE irqMask -> Goto(t, "UnmaskRaw") /\ UNCHANGED stack
         [] ~irqMask /\ Depth(t) >= MaxDepth -> Return(t)
         [] OTHER -> /\ stack' = [stack EXCEPT ![t] =
                          Append(WithTop(@, [Top(t) EXCEPT !.lock = FALSE]),
                                 NewFrame("Nested"))]
                     /\ Goto(t, "LockRead")
    /\ UNCHANGED <<bootVars, schedVars, maskVars, irr>>

\* set_raw_mask: if (irq_mask == mask) return
UnmaskRaw(t) ==
    /\ Running(t, "UnmaskRaw")
    /\ IF irqMask THEN Goto(t, "UnmaskCmp") /\ UNCHANGED stack ELSE Return(t)
    /\ UNCHANGED <<bootVars, schedVars, maskVars, irr>>

UnmaskCmp(t) ==
    /\ Running(t, "UnmaskCmp")
    /\ Goto(t, IF irqMask THEN "UnmaskOut" ELSE "UnmaskStore")
    /\ UNCHANGED <<bootVars, schedVars, maskVars, irr, stack>>

UnmaskOut(t) ==
    /\ Running(t, "UnmaskOut")
    /\ picMask' = FALSE
    /\ Goto(t, "UnmaskStore")
    /\ UNCHANGED <<bootVars, schedVars, irqMask, irr, stack>>

\* Mutant: the shadow is not brought up to date after the outb.
UnmaskStoreForgotten(t) ==
    /\ Running(t, "UnmaskStore")
    /\ Return(t)
    /\ UNCHANGED <<bootVars, schedVars, maskVars, irr>>

\* irq_mask = mask comes after the outb: the interrupt may be taken between.
UnmaskStore(t) ==
    /\ Running(t, "UnmaskStore")
    /\ irqMask' = FALSE
    /\ Return(t)
    /\ UNCHANGED <<bootVars, schedVars, picMask, irr>>

-----------------------------------------------------------------------------
(* Waiting for the switch: while (flags & PROC_DEBUG_YIELD) asm_hlt().     *)

WaitTest(t) ==
    /\ Running(t, "WaitTest")
    /\ Goto(t, IF yield[t] THEN "Hlt" ELSE "Print")
    /\ UNCHANGED <<bootVars, schedVars, maskVars, irr, stack>>

\* asm_hlt: a tick between the test and the hlt comes too early to wake the
\* task, which needs another one.
AsmHlt(t) ==
    /\ Running(t, "Hlt")
    /\ Goto(t, "Halted")
    /\ UNCHANGED <<bootVars, schedVars, maskVars, irr, stack>>

-----------------------------------------------------------------------------
(* The timer interrupt.                                                    *)

\* The PIT raises IRQ 0; the PIC latches one edge.
PitFire ==
    /\ ~irr
    /\ boot \in {"scheduler_init", "init_system_task", "done"}
    /\ irr' = TRUE
    /\ UNCHANGED <<bootVars, schedVars, maskVars, pc, stack>>

IndexOf(q, p) == CHOOSE i \in 1 .. Len(q) : q[i] = p

\* Mutant: the task behind the head of the queue is always chosen.
NextBestSecond(q, p) == q[2]

\* scheduler_find_next_best: p->next, or the head at the end of the queue.
NextBest(q, p) ==
    IF IndexOf(q, p) = Len(q) THEN q[1] ELSE q[IndexOf(q, p) + 1]

\* Mutant: the counter runs below zero.
DecrementedNoWrap(n) == n - 1

Decremented(n) == (n + QuantumSpace - 1) % QuantumSpace

\* scheduler_tick sets g_switch_processes.
MustSwitch ==
    /\ yield[current] \/ Decremented(quantum[current]) = 0
    /\ Len(queue) > 1

\* Mutant: stage1 forgets to clear the flag that the yielding task waits for.
SwitchKeepsYield ==
    LET next == NextBest(queue, current) IN
    /\ ctx' = [ctx EXCEPT ![current] = TRUE, ![next] = FALSE]
    /\ current' = next
    /\ UNCHANGED yield

\* scheduler_advance_stage1 and stage2: the running task's frame becomes its
\* saved context, and the next task's saved context is consumed.
Switch ==
    LET next == NextBest(queue, current) IN
    /\ yield' = [yield EXCEPT ![current] = FALSE]
    /\ ctx' = [ctx EXCEPT ![current] = TRUE, ![next] = FALSE]
    /\ current' = next

InterruptPending == iflag /\ irr /\ ~picMask

\* irq_int_handler on IRQ 0 and int_handler_stub around it.  The regions
\* opened by the handlers leave both mask bits as they found them.  A halted
\* task continues behind its hlt.
IRQ0 ==
    /\ InterruptPending
    /\ irr' = FALSE
    /\ quantum' = [quantum EXCEPT ![current] = Decremented(@)]
    /\ IF preempt /\ MustSwitch THEN Switch ELSE UNCHANGED <<yield, ctx, current>>
    /\ pc' = [pc EXCEPT ![current] = IF @ = "Halted" THEN "WaitTest" ELSE @]
    /\ UNCHANGED <<bootVars, queue, preempt, maskVars, stack>>

-----------------------------------------------------------------------------
Boot == BootInterrupts \/ BootTimer \/ BootScheduler \/ BootSystemTask

LockStep(t) == \/ LockRead(t) \/ MaskTest(t) \/ MaskRaw(t)
               \/ MaskCmp(t) \/ MaskOut(t) \/ MaskStore(t)

UnlockStep(t) == \/ Unlock(t) \/ UnmaskTest(t) \/ UnmaskRaw(t)
                 \/ UnmaskCmp(t) \/ UnmaskOut(t) \/ UnmaskStore(t)

BodyStep(t) == \/ SpawnBody(t) \/ AddBody(t) \/ YieldBody(t)
               \/ NestedCall(t) \/ Leave(t)

TaskStep(t) == \/ Call(t) \/ LockStep(t) \/ BodyStep(t) \/ UnlockStep(t)
               \/ WaitTest(t) \/ AsmHlt(t)

Next == Boot \/ PitFire \/ IRQ0 \/ \E t \in Tasks : TaskStep(t)

Spec == Init /\ [][Next]_vars

\* The strings printed are finite: a printing function opens finitely many
\* regions inside its own before it leaves it.
LeaveAt(t, d) == Depth(t) = d /\ Leave(t)

\* The CPU keeps executing the running task between ticks, the PIT keeps
\* ticking, and a tick that is pending and unmasked again and again is taken.
Fairness ==
    /\ WF_vars(Boot)
    /\ WF_vars(PitFire)
    /\ SF_vars(IRQ0)
    /\ \A t \in Tasks : SF_vars(TaskStep(t))
    /\ \A t \in Tasks : \A d \in 1 .. MaxDepth : SF_vars(LeaveAt(t, d))

FairSpec == Spec /\ Fairness

-----------------------------------------------------------------------------
(* Properties.                                                             *)

\* The interrupt handlers dereference g_current_process and process_queue:
\* no tick is taken before both are set (kmain boots with interrupts off).
NoNullTick == InterruptPending => current # NULL /\ queue # <<>>

\* Every process the scheduler may switch to has a context that stage2 can
\* load (spawn_init builds it before scheduler_add_process, stage1 saves it).
QueueResumable == \A p \in Queued : p # current => ctx[p]

HoldsLock(t) == \E i \in 1 .. Depth(t) : stack[t][i].lock

\* The timer is masked at the PIC only while the running task has a region
\* open that it will close with an unmask: no switch, and no halt, can leave
\* the machine with its only interrupt source masked.
PicMaskOwned ==
    boot = "done" /\ picMask =>
        /\ HoldsLock(current)
        /\ pc[current] \notin {"WaitTest", "Hlt", "Halted"}

\* The shadow irq_mask says "masked" only while some task still has a region
\* open that will set it back: after any interleaving of the unsynchronised
\* updates in set_raw_mask, once every region is closed the next
\* int_lock_region masks again.
ShadowRestored ==
    boot = "done" /\ irqMask => \E t \in Tasks : HoldsLock(t)

\* A critical region is never switched out of: what "Functions/macros that
\* disable interrupts for critical regions" (interrupt.h) says.
RegionExclusive ==
    \A t \in Tasks : t # current => pc[t] # "Body"

Ring == INSTANCE RoundRobin WITH Procs <- Tasks, ring <- queue, turn <- current

\* Whatever the interleaving, a context switch hands the CPU to the successor
\* of the running task in the queue, and a task joins the queue once.
RoundRobinOrder == Ring!RRSpec

\* A yielding task is switched away from, so that its wait loop ends.
YieldServed == \A t \in Tasks : yield[t] ~> ~yield[t]

\* Every task gets to print again and again: round robin starves no task.
NoStarvation == \A t \in Tasks : []<>(current = t /\ pc[t] = "PrintEsp")

=============================================================================
