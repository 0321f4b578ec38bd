------------------------------ MODULE HeapLock ------------------------------
(***************************************************************************)
(* The lock of the kernel heap, which turns interrupts off, and what       *)
(* depends on interrupts: the tick counter and the busy waits on it.       *)
(* liballoc_lock remembers in one global, enable_int, whether              *)
(* liballoc_unlock has to turn interrupts on again.  kmain uses the heap   *)
(* with interrupts off; a task may be interrupted, and another one run,    *)
(* between any two steps of the lock until its cli.  Which task a tick     *)
(* switches to is the subject of Scheduler.tla and left open here.         *)
(***************************************************************************)
EXTENDS Integers

CONSTANTS
    Tasks,        \* callers once the scheduler runs
    BOOT,         \* kmain, which uses the heap before that
    TickSpace,    \* system_ticks is a uint32_t: 2^32 in the code
    Durations     \* arguments of timer_sleep

ASSUME HeapLockAssumption ==
    /\ BOOT \notin Tasks
    /\ TickSpace \in Nat \ {0}
    /\ Durations \subseteq 0 .. (TickSpace - 1)

VARIABLES
    iflag,        \* the CPU's interrupt flag
    enable_int,
    current,      \* who runs
    pc,           \* where each caller stands in lock, unlock or sleep
    panicked,     \* a KASSERT of int_enable or int_disable has failed
    system_ticks,
    end_ticks,    \* timer_sleep's local variable
    wanted,       \* history: the argument of timer_sleep
    elapsed,      \* history: ticks since that call, no more than TickSpace
    wrapped       \* history: the counter passes its end during the sleep

lockVars == <<iflag, enable_int, panicked>>
sleepVars == <<system_ticks, end_ticks, wanted, elapsed, wrapped>>
vars == <<lockVars, current, pc, sleepVars>>

Callers == Tasks \cup {BOOT}

\* "set", "cli" and "clear" are inside liballoc_lock, "sti" inside
\* liballoc_unlock, "inside" is the work on the heap between them.
Labels == {"run", "set", "cli", "clear", "inside", "sti", "sleep"}

Init ==
    /\ iflag = FALSE /\ enable_int = FALSE /\ panicked = FALSE
    /\ current = BOOT
    /\ pc = [c \in Callers |-> "run"]
    /\ system_ticks = 0
    /\ end_ticks = [c \in Tasks |-> 0]
    /\ wanted = [c \in Tasks |-> 0]
    /\ elapsed = [c \in Tasks |-> 0]
    /\ wrapped = [c \in Tasks |-> FALSE]

\* The caller that runs goes from one label to another.
Goto(c, from, to) ==
    /\ ~panicked
    /\ current = c
    /\ pc[c] = from
    /\ pc' = [pc EXCEPT ![c] = to]
    /\ UNCHANGED <<current, sleepVars>>

-----------------------------------------------------------------------------
(* liballoc_lock and liballoc_unlock.                                      *)

\* Mutant: the test is the wrong way round.
LockInverted(c) ==
    /\ Goto(c, "run", IF iflag THEN "clear" ELSE "set")
    /\ UNCHANGED lockVars

\* if (int_enabled())
Lock(c) ==
    /\ Goto(c, "run", IF iflag THEN "set" ELSE "clear")
    /\ UNCHANGED lockVars

\* enable_int = true
SetFlag(c) ==
    /\ Goto(c, "set", "cli")
    /\ enable_int' = TRUE
    /\ UNCHANGED <<iflag, panicked>>

\* int_disable(), which asserts that interrupts are on
Cli(c) ==
    /\ Goto(c, "cli", "inside")
    /\ panicked' = ~iflag
    /\ iflag' = FALSE
    /\ UNCHANGED enable_int

\* enable_int = false
ClearFlag(c) ==
    /\ Goto(c, "clear", "inside")
    /\ enable_int' = FALSE
    /\ UNCHANGED <<iflag, panicked>>

\* Mutant: interrupts are turned on whatever lock found.
UnlockAlways(c) == Goto(c, "inside", "sti") /\ UNCHANGED lockVars

\* Mutant: interrupts stay off.
UnlockForgets(c) == Goto(c, "inside", "run") /\ UNCHANGED lockVars

\* Mutant: the lock is released before the work is done.
UnlockEarly(c) ==
    /\ Goto(c, "inside", "inside")
    /\ iflag' = (iflag \/ enable_int)
    /\ UNCHANGED <<enable_int, panicked>>

\* if (enable_int); every path out of malloc, free and realloc comes here.
Unlock(c) ==
    /\ Goto(c, "inside", IF enable_int THEN "sti" ELSE "run")
    /\ UNCHANGED lockVars

\* int_enable(), which asserts that interrupts are off
Sti(c) ==
    /\ Goto(c, "sti", "run")
    /\ panicked' = iflag
    /\ iflag' = TRUE
    /\ UNCHANGED enable_int

-----------------------------------------------------------------------------
(* The timer.                                                              *)

\* timer_sleep: end_ticks = timer_getticks() + ticks
Sleep(t, n) ==
    /\ ~panicked
    /\ current = t
    /\ pc[t] = "run"
    /\ pc' = [pc EXCEPT ![t] = "sleep"]
    /\ end_ticks' = [end_ticks EXCEPT ![t] = (system_ticks + n) % TickSpace]
    /\ wanted' = [wanted EXCEPT ![t] = n]
    /\ elapsed' = [elapsed EXCEPT ![t] = 0]
    /\ wrapped' = [wrapped EXCEPT ![t] = system_ticks + n >= TickSpace]
    /\ UNCHANGED <<lockVars, current, system_ticks>>

\* Mutant: the loop ends one tick early.
WakeEarly(t) ==
    /\ system_ticks + 1 >= end_ticks[t]
    /\ Goto(t, "sleep", "run")
    /\ UNCHANGED lockVars

\* while (timer_getticks() < end_ticks) ends
Wake(t) ==
    /\ system_ticks >= end_ticks[t]
    /\ Goto(t, "sleep", "run")
    /\ UNCHANGED lockVars

\* ... and goes round once more
Spin(t) ==
    /\ system_ticks < end_ticks[t]
    /\ Goto(t, "sleep", "sleep")
    /\ UNCHANGED lockVars

\* IRQ 0: timer_callback, then possibly a switch; the thread that is resumed
\* was interrupted with interrupts on, or never ran, and gets them on.
Tick(next) ==
    /\ ~panicked
    /\ iflag
    /\ system_ticks' = (system_ticks + 1) % TickSpace
    /\ elapsed' = [t \in Tasks |-> IF pc[t] # "sleep" \/ elapsed[t] = TickSpace
                                   THEN elapsed[t] ELSE elapsed[t] + 1]
    /\ wrapped' = [t \in Tasks |-> wrapped[t] \/ (pc[t] = "sleep" /\ system_ticks' = 0)]
    /\ current' = next
    /\ UNCHANGED <<lockVars, pc, end_ticks, wanted>>

\* init_system_task ends in an iret that turns interrupts on.
StartTasks(t) ==
    /\ ~panicked
    /\ current = BOOT
    /\ pc[BOOT] = "run"
    /\ current' = t
    /\ iflag' = TRUE
    /\ UNCHANGED <<enable_int, panicked, pc, sleepVars>>

HeapStep(c) ==
    Lock(c) \/ SetFlag(c) \/ Cli(c) \/ ClearFlag(c) \/ Unlock(c) \/ Sti(c)

Next ==
    \/ \E c \in Callers : HeapStep(c)
    \/ \E t \in Tasks : Wake(t) \/ Spin(t) \/ Tick(t) \/ StartTasks(t)
    \/ \E t \in Tasks, n \in Durations : Sleep(t, n)

Spec == Init /\ [][Next]_vars

\* A caller that has begun to lock or unlock the heap goes on while it runs,
\* and a tick that is held back by the lock again and again is taken between.
FairSpec ==
    /\ Spec
    /\ \A c \in Callers : WF_vars(pc[c] # "run" /\ HeapStep(c))
    /\ SF_vars(\E t \in Tasks : Tick(t))

-----------------------------------------------------------------------------
(* Properties.                                                             *)

TypeOK ==
    /\ iflag \in BOOLEAN /\ enable_int \in BOOLEAN /\ panicked \in BOOLEAN
    /\ current \in Callers
    /\ pc \in [Callers -> Labels]
    /\ system_ticks \in 0 .. (TickSpace - 1)
    /\ end_ticks \in [Tasks -> 0 .. (TickSpace - 1)]
    /\ wanted \in [Tasks -> Durations \cup {0}]
    /\ elapsed \in [Tasks -> 0 .. TickSpace]
    /\ wrapped \in [Tasks -> BOOLEAN]

InHeap(c) == pc[c] \in {"inside", "sti"}

\* Two callers are never both between liballoc_lock and liballoc_unlock,
\* although the lock is taken in three steps that a switch may separate.
HeapExclusive ==
    \A a, b \in Callers : InHeap(a) /\ InHeap(b) => a = b

\* liballoc_unlock puts the interrupt flag back as its caller had it: after
\* boot, interrupts are on whenever the running task is not in the heap, and
\* during boot they are never turned on, although all callers share enable_int.
InterruptsRestored ==
    IF current = BOOT THEN ~iflag ELSE iflag = ~InHeap(current)

\* The assertions in int_enable and int_disable hold.
LockAssertionsHold == ~panicked

Woken(t) == pc[t] = "sleep" /\ pc'[t] = "run"

\* A sleep lasts at least the ticks asked for, whatever is done with the heap
\* meanwhile, unless the counter passes its end during it.
SleepsInFull ==
    [][\A t \in Tasks : Woken(t) /\ ~wrapped[t] => elapsed[t] >= wanted[t]]_vars

\* The lock never stops the clock for good: once the tasks run, the counter
\* reaches every value again and again.
ClockRuns ==
    \A n \in 0 .. (TickSpace - 1) : current # BOOT ~> system_ticks = n

=============================================================================
