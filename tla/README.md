# treeos: TLA+ models and proofs

treeos is a small i386 kernel: one CPU, a higher-half kernel booted by GRUB, a
page allocator, a kernel heap (liballoc), a VGA console, a serial port for
messages, and a preemptive round-robin scheduler driven by the timer interrupt.
This directory models the kernel's own logic, checks it with TLC on small
instances, and proves with TLAPS, for every size, the safety of the scheduler and its
queue, of interrupt dispatch, of the page bitmap, of virtual memory, of the heap and its lock,
and of the panic path. The code has no tests and hardly any documentation besides
its comments; the comments are what the violation runs below quote.

The code is the debug build of the Makefile (`-O0 -DTREEOS_DEBUG`), in which
`KASSERT` panics.

## The system

| Part | State | Operations | Module |
|---|---|---|---|
| boot and kernel tasks (`kernel.c`) | `kernel_tasks`, `kernel_threads` | `kinit`, `kmain`, `init_system_task`, `spawn_init`, the task loops | `Scheduler`, `VirtualMemory`, `PageFrames` |
| critical regions (`interrupt.h`, `interrupt.c`) | PIT bit of the PIC's mask and of its shadow `irq_mask` | `int_lock_region`, `int_unlock_region`, `int_mask_irq`, `int_unmask_irq`, `set_raw_mask` | `Scheduler` |
| scheduler (`proc/scheduler.c`, `scheduler_asm.S`, `interrupt_asm.S`) | `g_current_process`, `process_queue`, flags, quanta, saved contexts | tick, stage 1, stage 2, yield, add | `Scheduler`, `RoundRobin` |
| process queue (`proc/scheduler.c`) | head and `next` pointers | add (a walk), find next | `ProcessQueue`, `RoundRobin` |
| interrupt dispatch (`interrupt.c`, `interrupt_asm.S`) | handler table, IRQ handler lists, both PICs, frames on the stacks | register, mask, unmask, stubs, dispatch, EOI, system call, exceptions | `Interrupts` |
| CPU tables (`cpu.c`, `cpu.h`) | GDT, IDT | filled at boot, read by the CPU | `CpuTables` |
| timer (`timer.c`, `pit.c`) | `system_ticks` | init, tick, sleep | `Scheduler`, `HeapLock` |
| physical memory (`pmm.c`, `paging.c`, `bitmap.c`) | page bitmap | tests of the boot record, `pmm_init`, `page_alloc`, `page_free` | `PageFrames` |
| virtual memory (`paging.c`, `allocator.c`, `addr.c`, `boot.S`) | directory, tables, placement heap, TLB | `page_map`, `page_unmap`, `tty_remap` | `VirtualMemory` |
| boot modules (`module.c`) | `module_table` | `module_table_init` | `VirtualMemory`, `PageFrames` |
| kernel heap (`kernel_heap.c`, `liballoc.c`) | `kheap`, majors, minors, best bet, counters; `enable_int` | `liballoc_alloc`, `liballoc_free`, `kmalloc`, `kfree`, `krealloc`; lock, unlock | `VirtualMemory`, `Liballoc`, `HeapLock` |
| console (`tty.c`) | screen, row, column, cursor | put, puts, clear, scroll | `Console` |
| formatting (`vsprintf.c`, `sprintf.c`, `vprintf.c`) | none | the conversions of `printf` | `Format` |
| panic, serial port (`panic.c`, `serio.c`, `reboot.c`) | `msg_buf`, the UART | `panic`, `worry`, `panic_r`, `serio_init`, `serio_puts`, `halt` | `Panic` |
| ELF loader (`elf32.c`) | none | two passes over the program headers | none |

How they interact: everything is a function call on one CPU, except interrupts,
which may come between any two instructions while IF is set. The timer's runs
`timer_callback` and `scheduler_tick`, and the stub around it switches tasks. Tasks
protect themselves by masking the timer at the PIC: the console, the scheduler and
`spawn_init` all use such regions, and the regions' own `worry()` messages use
them again. The heap protects itself by turning interrupts off. It takes pages from
`page_alloc` and maps them with `page_map`, which takes page tables from a second,
"placement" heap that uses `page_map` itself. Messages of `panic` and `worry` share
one static buffer and one serial port and have no protection of their own.

What is hard here: the unsynchronised update of two copies of the mask bit; a tick
before the scheduler is ready; a switch to a task without a context; frames that
assembly and C read with different layouts in mind; a yield that waits for a switch;
one flag for all callers of a lock; a message buffer that two tasks and a handler write at the same time;
off-by-ones and byte/word confusions in the memory code that show only on
some machines; a heap whose addresses are never reused; cached pointers. The full
list, with source lines and the properties aimed at each, is `hazards` in
`PROJECT.json`.

## Modules

**RoundRobin** is the abstract specification: a ring that grows at its end, each
process joins once, the CPU passes from a process to its successor.

**Scheduler** is the core. A task's `pc` ranges over its calls (spawn, add, print,
print esp, yield) and over the individual accesses inside `int_lock_region` and
`int_unlock_region`: test of the shadow, early return of `set_raw_mask`, comparison,
`outb`, store. A task that has yielded tests its flag (`WaitTest`) and then executes `hlt`
(`AsmHlt`); these are two steps, since a tick between them resumes the task *at* the `hlt`
("Hlt"), where it stops ("Halted") until yet another tick, its flag notwithstanding. `stack` holds the activations of functions that open a region, with
their local `lock`. Printing functions may nest regions, up to `MaxDepth`. `PitFire`
and `IRQ0` may come between any two steps. `IRQ0` is one action, since the gates
clear IF. The regions that handlers open restore both bits and so leave no trace.
`quantum` is modulo `QuantumSpace`, because the code never reloads it. In
the code there is one worker, INIT; the model has a set of them, spawned one after
the other. When the stack is `MaxDepth` deep a `worry()` message is left out.

**ProcessQueue** is the linked list behind `queue`, with the steps of the walk in
`scheduler_add_process` and context switches between them; it refines RoundRobin
under the mapping that follows the `next` pointers.

**HeapLock** has the lock of the heap step by step: the test of IF, the store to the
global `enable_int`, the `cli`; then the work, the test of `enable_int`, the `sti`.
`kmain` uses it with interrupts off; afterwards tasks do, and `Tick` may hand the CPU
to any of them between two steps while IF is set. A tick also advances
`system_ticks`, on which `timer_sleep` waits; the counter wraps at `TickSpace`. The history variables
`wanted`, `elapsed` and `wrapped` say what a sleep was asked for and what it got.

**Panic** lets two tasks, interleaved byte by byte, and an exception handler, which
excludes the tasks, build messages in `msg_buf` (`memset`, `sprintf`, `strcat_registers`) and send
them: `serio_puts` tests a character, reads it again, polls the UART, writes. A cell of
the buffer holds the name of the caller that wrote it. The UART is external; `serio_init` programs it
register by register, and its FIFO is assumed to have room for one byte of each task and
of a handler (16 bytes, two tasks). What `halt` prints before `cli; hlt` is left out.

**CpuTables** holds the descriptors of the GDT, the gates of the IDT, the entry stubs
and the ICWs of the PICs, as the code writes them and as the CPU reads them, and the
frame as a sequence of words: what the CPU, the stub and `pusha` push, the
offsets at which assembly reads it, the fields of `struct thread_context`. It has no state.

**Interrupts** follows an interrupt from the device to the handler and back. Both PICs (request,
in-service and mask registers, fully nested priorities) are external. `Enter` is
gate, stub and look-up in the table by the number found on the stack; `Return` is the
EOIs, the switch and the `iret`. Threads are `kmain`, the system task, which `kmain` becomes, and
INIT, resumed for the first time from the context `spawn_init` builds. Three facts
of the kernel are assumptions: no IRQ has more than two handlers, vector 17 (alignment, checked in user
mode only) does not come, and the cascade line is no device. What interrupts do *during* a mask update, and which thread is preferred, is Scheduler's subject.

**PageFrames** runs `kinit`'s tests of the multiboot record (magic, flags, size of
memory, memory map, modules), `pmm_init`, and then allocates and frees. The bitmap is the set
of its one bits; bytes and words keep their sizes because one of the memsets confuses them.
The 64-bit address of a region is cut to the width of a pointer (`AddrSpace`). `ArrayAssumption` says that
kernel, modules and the available regions, at the length the code gives them, lie inside the bitmap's array: nothing in
the code keeps a region there, and the bits of one past it would be those of whatever lies behind the array.
No module in the boot record is empty: the code subtracts one from its size unsigned.

**VirtualMemory** has page numbers for addresses, the directory and tables as
functions, and a TLB. `page_map`, `page_unmap` and the allocation loops are operators
on the record `mm`, and each of their panics is a value of `mm.panic`; the loops are recursive
functions of the round. The boot code
remaps the console, maps the modules and fills `module_table`, whose memory comes from the heap.
The boot record gives the modules in bytes (`Mods`); `Modules` are the
pages they cover, start rounded down and end rounded up, and the table's entries are bytes again.
`page_map` marks a directory entry present before it allocates the page table; meanwhile the entry
is `HALF`, and a write through it panics.
`Touch` (the MMU filling the TLB) is external. Three assumptions say what the code gets from its
constants and from `pmm_init`: the boot image, the text buffer and the modules are reserved frames;
the boot page table has room for the pages that the placement heap can hand out (255 of 1024
entries, the boot mappings take some 300); console, heap (with the one page behind it that the loop
maps before it tests the size), stack and modules do not overlap.

**Liballoc** keeps majors and minors as sequences in address order, with byte
addresses, header sizes and alignment as constants. What the loop of `malloc` makes of the best bet is stated
by its outcome: the first of the majors looked at with the most room, if that is more than
the old one has. A growing `krealloc` is two
actions, as it holds the lock twice. Pointers that were not returned by `kmalloc` are outside
the model.

**Format** computes what `vsprintf` makes of a conversion and its argument, with the loops of the code
(digits low first, then swapped from both ends) on words modulo `WordSpace`,
and defines independently what number a text denotes.

**Console** is the screen with scrolling, written by characters, strings and
`printf`; a history variable holds everything written since the last clear.
`MCPageFrames` and `MCVirtualMemory` give the structured constants values.

## Runs that pass

| Run | Properties | Bounds |
|---|---|---|
| `scheduler_safety` | `TypeOK`, `NoNullTick`, `QueueResumable`, `PicMaskOwned`, `ShadowRestored`, `RoundRobinOrder` | system task and one worker (as in the code), regions nested 3 deep (printf, putchar, update_cursor), quantum 2 of 4 values so that it wraps |
| `scheduler_live` | `YieldServed`, `NoStarvation` | as above, depth 1, quantum 2 of 3 |
| `process_queue` | `NoCycle`, `AddReturns`, `ListIsRing` | 4 processes |
| `heap_lock` | `HeapExclusive`, `InterruptsRestored`, `LockAssertionsHold`, `SleepsInFull`, `ClockRuns` | `kmain` and two tasks; a counter of 4 values and sleeps of 0 and 2 ticks, so that some wrap |
| `panic` | `InsideBuffer`, `PortUsable`, `PanicIntact`, `PanicHalts` | two tasks and a handler; a buffer of 3 bytes, just enough for the text, the registers and the terminator; a FIFO with room for one byte of each caller |
| `interrupts` | `ServiceEnds`, `Dispatched`, `AllHandlersRun`, `ContextFaithful`, `ThreadIntact`, `IrqServed` | one IRQ on each PIC, two handlers per IRQ (what IRQ 0 has), an exception without (6) and one with an error code (14), three threads |
| `page_frames` | `ReservedNeverAllocated`, `FramesConserved`, `FirstFreeIsLowest` | 24 bits in words of 4; 3 sizes of memory, one too large; 3 maps, one with a region above the address space; 3 module lists, kernel and modules beginning inside pages; records with a wrong magic number and without a map or modules |
| `virtual_memory` | `OnlyExhaustionPanics`, `HeapPrivate`, `FramesAccounted`, `ModulesInPlace`, `TlbCoherent` | 9 entries per table, 16 frames, heap of 5 pages: both frames and heap can run out; two modules that meet inside a page |
| `liballoc` | `BlocksDisjoint`, `Accounting`, `BestBetLive` | requests of three sizes, one larger than a minimal major; 7 pages over the machine's life |
| `console` | `CursorOnScreen`, `ScreenShowsTail`, `PrintfCorrect` | 3 x 2 screen, tab of 2, 4 lines between clears; words of one byte, with the least int and its neighbours |

`CHECK_DEADLOCK FALSE` is set where the machine may stop: after a panic or `halt`, or
when memory or the heap are used up.

What they show of the regions is worth spelling out. Critical regions are *not*
exclusive (see below), yet the damage is contained: whatever the interleaving of the
mask updates, the timer is masked only while the running task will unmask it
(`PicMaskOwned`), and the shadow never stays at "masked" when all regions are
closed (`ShadowRestored`). So the machine never hangs with its only interrupt masked.

The heap's lock looks as unsynchronised, since it stores to a global before it turns interrupts
off, but is right: the store and the `cli` can be separated only by callers that
store the same value. And of the messages that share `msg_buf`, those of tasks
may get mixed, yet nobody runs off the buffer (the last byte is only ever
cleared), and the message of an exception, the one that matters, arrives whole, since
its handler cannot be preempted.

## Runs that show a disagreement

Each states a comment of the code and TLC refutes it; `findings` in
`PROJECT.json` quotes the comment.

| Run | What the code does |
|---|---|
| `scheduler_region` | a task preempted between unmasking the PIC and updating `irq_mask` lets the next task run its critical region with the timer on |
| `page_frames_map` | a region's length is read from its address |

More disagreements were met while reading and have no run:

- `paging.c:57`: the `memset` gets a word count, so that memory above 32 MiB
  starts out free (`PageFrames` models it as it is);
- `kernel.c:201`: the `memcpy` that clones 255 directory entries copies 255 bytes. The
  cloned directory is not loaded;
- `interrupt.c:190`: a third handler for one IRQ makes the first one disappear
  (`Appended` models it as it is). No IRQ has more than two;
- `kernel.c:151`: the system task's `esp` is said to reuse the kernel stack and is set to its lower end,
  so that what the task pushes lands in the page below, unused entries of `g_real_kernel_page_table`;
- `liballoc.c:114`: `l_bestBet` is a hint, not always the major with the most free
  memory (`Liballoc` models it as it is);
- `timer.c:66`: a sleep that ends behind the counter's wrap returns at once
  (`SleepsInFull` excludes it by `wrapped`). `timer_sleep` has no caller;
- `interrupt_asm.S:130`: vector 17, which has an error code, has the stub for vectors without;
- in klibc, in ways no caller in this kernel notices: `memmove` copies nothing when it would have to
  go backwards, `strcat` appends behind the terminator, `memcmp` has its operands swapped, `strcpy`
  returns the end of the copy, `strncpy` does not stop at a terminator;
- `elf32.c:107`: `elf32_load` computes the size from `p_paddr`. It has no caller.

## Fairness

`Scheduler!Fairness`: the CPU executes the running task between ticks (`SF` on a
task's steps: a tick may disable them, again and again, but the PIT is far slower than the CPU);
the PIT keeps ticking (`WF`); a tick pending and unmasked again and again is
taken (`SF`); strings are finite, so a printing function leaves its region (`SF` on `Leave` at each depth).
`HeapLock!FairSpec`: a caller inside lock or unlock goes on while it runs (`WF`); a tick, held back by each
use of the heap, is taken between two of them (`SF`: the PIC keeps the request until IF is set).
`Panic!FairSpec`: the UART sends (`WF`); `kinit`, the handler and, by the scheduler, each task go on (`WF`);
a task that polls sees the port empty at some time (`SF`: sending a byte takes far longer than a poll).
`Interrupts!FairSpec`: `kmain` ends and a handler runs to its end (`WF`), and the CPU takes an IRQ the PICs
offer again and again (`SF`).
`ProcessQueue!Spec`: a call of `scheduler_add_process` continues.

## Proofs

`SchedulerProofs` proves for every set of workers, every width of the quantum and every
nesting bound that `Scheduler!Spec` implies `TypeOK`, `NoNullTick`,
`QueueResumable`, `PicMaskOwned`, `ShadowRestored`, and the refinement `RoundRobinOrder`.
The assumptions are those of `Scheduler`: the system task is no worker, NULL is no
task, the default quantum is positive and fits, at least one region can be open.

None of the invariants is inductive alone. `IInv` adds:

- `BootInv`: what each step of `kmain` has established; IF is off until the last one;
- `QueueInv`: the queue has no duplicates and holds the running task;
- `StackInv`: the shape of each task's stack at each label (at a mask or unmask label the
  innermost activation has `lock` set, at the top level the stack is empty);
- `MaskInv`: when the PIC's bit is set, the running task is the one that set it, and it
  stands between its `outb` and the matching one. This is
  what makes `PicMaskOwned` inductive: a task that is not running cannot have
  masked the timer, since masking it is what keeps it running;
- `ShadowInv`: a set shadow is paid for by some task's `lock`;
- `OnlySystemSpawns` and `ContextInv`: only the system task adds processes, and
  each has its context by then.

There is one lemma per action, and lemmas for the three things an action does to
a stack (push, pop, replace the top) and to the mask bits. `ImplementsRing`
shows that each step maps to a step of the ring or leaves it alone.

`HeapLockProofs` proves for every set of tasks and every width of the counter that
`HeapLock!Spec` implies `TypeOK`, `HeapExclusive`, `InterruptsRestored`,
`LockAssertionsHold` and the action property `SleepsInFull`. Exclusion alone is not inductive; `IInv` adds:

- `BootInv`: while `kmain` runs, IF is off, no task has begun, and behind the lock `enable_int` is false;
- `TaskInv`: a task in the heap is the running one, IF is off and `enable_int` set; the running task has IF set
  elsewhere. So nobody else can run, or clear `enable_int`, until the task leaves;
- `FlagInv`: a task between its store and its `cli` finds the flag set, whoever ran in between.

`SleepsInFull` needs `SleepInv` besides: as long as the counter has not wrapped, the ticks a sleeper
has seen are those between the counter now and at the call.

`ProcessQueueProofs` proves, for any number of processes, that `ProcessQueue!Spec` implies `NoCycle` and
the refinement `ListIsRing`. `IInv` says that the `next` pointers run through some sequence of
distinct processes (`Linked`) and that a walk has passed no process equal to its argument
(`Walking`): the second part is what keeps the append from closing a circle. The refinement
mapping reads the list from its head; lemmas show that it yields that sequence.

`PageFramesProofs` proves `FramesConserved`, `ReservedNeverAllocated` and `FirstFreeIsLowest` for pages, words and bitmaps
of any size, every memory map and every list of modules. The loops of `pmm_init` need `MarkedInv`: the
modules before the loop variable are marked already. `OwnedInv` says that from then on the set bits are exactly the
reserved frames and those handed out, and that every frame handed out is a bit of the bitmap.

`PanicProofs` proves `TypeOK`, `InsideBuffer`, `PortUsable` and `PanicIntact` for any number of tasks, any buffer and all
messages that fit. `IInv` adds: the last byte is clear at all times (`BufEnd`), which stops
every scan although others write; each caller's position fits its step (`PosInv`); and what the handler
has written and sent at each of its steps (`HandlerInv`). `PortUsable` needs
a count besides (`FifoInv`): bytes in the FIFO plus callers that have polled and not written yet
are at most the tasks and the handler.

`InterruptsProofs` proves `ServiceEnds`, `Dispatched`, `AllHandlersRun`, `ContextFaithful` and `ThreadIntact` for any IRQs and
exceptions. It computes what `remap_pic` makes of the two PICs, what each gate and stub pushes, and
where each field of the frame lies. `IInv` adds `TablesInv` (table and lists say the same, the masks
of PICs and shadow agree), `StacksInv` (every thread that is not running has left a whole
frame of its own, or has the context it starts with; `kmain` never runs again once the system task does), `IdleInv` and `BusyInv` (what
is in service, on the stack and in the registers outside and inside a handler). A frame is
read long after it was written, when other threads have run and been interrupted in
between, which is why the frames of all threads are part of the invariant.

`LiballocProofs` proves `BlocksDisjoint`, `Accounting` and `BestBetLive` for headers, alignment, pages and requests of any
size. `IInv` says of each major that every gap between minors has a start not behind its end
(`Ordered`) and that every minor has room for the bytes asked for once its pointer has been aligned (`Roomy`);
`krealloc` in place may only lower what was asked for. `Accounting` is
inductive together with `IInv`. Its sums are recursive functions; what an insertion, a removal and a replacement
do to them follows from `Climb`, induction stated of a set of numbers instead of a formula, which is
the form the provers can use.

`VirtualMemoryProofs` proves `OnlyExhaustionPanics`, `HeapPrivate`, `FramesAccounted`, `ModulesInPlace` and
`TlbCoherent` for page tables, memories and heaps of any size and for any list of modules. The five hold each other up: that
`page_map` never meets an entry that is present needs to know all that may be mapped, that a frame has one use needs
the bitmap, and that the bitmap is right needs the entries of all page tables. `IInv` says of a machine
that has not stopped:

- `Tables`: no page table serves two directory entries, but for the one that boot.S shares between the low and the
  high half; only with this does writing one entry leave all other pages alone;
- `Owned`: the marked frames are the reserved ones, the page tables, the frames of user pages and those an operation
  holds between `page_alloc` and `page_map`; a frame that is not reserved has one use;
- `Placed`: the placement heap has handed out one page for each directory entry in use and one for the
  spawned task, and nothing is mapped behind it. Since there are fewer directory entries than free entries
  in the boot table, the heap's own `page_map`, the one that must not need a page table, always finds its entry free;
- `Within`, `HeapFresh`: what may be mapped at each step of the boot code; no page of the heap is on a reserved frame;
- `Live`: the heap's blocks lie below its end, are mapped and do not overlap;
- `ModulesDone`: the table says where the modules are. Frames in place give `ModulesInPlace`, which speaks of each byte (`ByteIs`).

The half-made entry does no harm: `paging_structure_alloc` maps its page through the kernel's own entry, never
through the one that is being made, so it does the same as without the mark (`HalfAlloc`).

`Coherent`, the invariant of the TLB, holds in stopped machines too. All this is stated of a memory record, not of the variable, and followed
through the operations of which an action is made: lemmas say what one write to a table, one new page table, one `page_map`, one
`page_unmap` do to each part. A loop is shown to have a run, a function from rounds to records, and
`Climb` carries what is done after `k` rounds to the end; a round that runs out of memory
stops all later ones.

What the proofs assume of constants are the named assumptions of the modules, which TLC evaluates in every run.

Only model-checked:

- liveness (`YieldServed`, `NoStarvation`, `AddReturns`, `ClockRuns`, `PanicHalts`, `IrqServed`): fairness and
  `ENABLED` are out of the prover's reach;
- `Console` and `Format`: `PrintfCorrect` is about what loops over the digits compute for every number, an induction
  over data. `CursorOnScreen` and `ScreenShowsTail` depend on folds over the characters of a string, about which the
  provers know nothing; they would have to become recursive functions first, as the loops of VirtualMemory are.

## Not modelled

The ELF loader (unfinished, no caller); the keyboard driver (never started); the TSS
(loaded, never used); `tasks/system.c` (`#if 0`); the user program `init` (not
loaded); colors and the wording of messages; `serio_readchar`, `reboot`, `bitmap_alloc`, `bitmap_free`,
`process_create` and `get_module_by_name` (no callers); `heap_grow`, `heap_shrink` (unimplemented); klibc's remaining
string functions (sequential loops without state).

Assumptions the models make: the assembly stub reads and clears one-byte flags with
32-bit accesses, and Scheduler takes the bytes next to them to be padding. After boot no compiled
handler calls the heap, so HeapLock has no caller in an interrupt. An
exception inside the handler of another one is left out of Panic and Interrupts. Messages fit into the
512 bytes of `msg_buf` and of `vprintf`'s buffer, which no code tests. Console has one writer at a time, which is more
than its regions give: as `scheduler_region` shows, a task may be switched away inside one, and what two
writers in the middle of `tty_putchar` do to row and column is not modelled.

## Plan

1. Done, models: Scheduler with RoundRobin; ProcessQueue; PageFrames; VirtualMemory with the
   module table; Liballoc; Interrupts with CpuTables; Console with Format; HeapLock; Panic with the serial port.
2. Done, proofs: Scheduler, HeapLock, ProcessQueue, PageFrames, Panic, Interrupts, Liballoc, VirtualMemory.
3. Left, proofs: Console (`CursorOnScreen`, `ScreenShowsTail`).
4. Left, models: Liballoc's pages refined to VirtualMemory's; the console under a region that can be left by a switch.
