----------------------------- MODULE CpuTables -----------------------------
(***************************************************************************)
(* What the CPU finds in the tables the kernel gives it, and what it and   *)
(* the interrupt stubs push on the stack: descriptors, gates, the frame    *)
(* that is at once the struct thread_context of the C handlers and the     *)
(* saved state of a thread, and the programming of the 8259 PICs.  A       *)
(* frame is a sequence of words, the one at the stack pointer first; a     *)
(* word is a pair of where its value comes from and which value it is.     *)
(***************************************************************************)
EXTENDS Integers, SequencesExt

-----------------------------------------------------------------------------
(* Segments.                                                               *)

KERN_CODE_SELECTOR == 8

KERN_DATA_SELECTOR == 16

\* Flags of a descriptor's access byte.
SEL_PRESENT == 128
SEL_RING3   == 96
GDT_NOT_TSS == 16
GDT_CODE    == 8
GDT_RW      == 2      \* GDT_CODE_READABLE, GDT_DATA_WRITABLE
GDT_TSS     == 1

GDT_KERN_CODE == SEL_PRESENT + GDT_NOT_TSS + GDT_CODE + GDT_RW
GDT_KERN_DATA == SEL_PRESENT + GDT_NOT_TSS + GDT_RW
GDT_USER_TSS  == SEL_PRESENT + GDT_TSS + 8 + SEL_RING3

\* set_gdt_gate: a limit of 20 bits is split, its lower 16 bits first.
SetGdtGate(base, limit, access, gran) ==
    [base |-> base, limit_low |-> limit % 65536, limit_high |-> limit \div 65536,
     access |-> access, granularity |-> gran]

\* gdt_init; the last gate's base is the address of g_kernel_tss.
Gdt ==
    << SetGdtGate(0, 0, 0, 0),
       SetGdtGate(0, 1048575, GDT_KERN_CODE, 12),
       SetGdtGate(0, 1048575, GDT_KERN_DATA, 12),
       SetGdtGate(0, 1048575, GDT_KERN_CODE + SEL_RING3, 12),
       SetGdtGate(0, 1048575, GDT_KERN_DATA + SEL_RING3, 12),
       SetGdtGate(1, 104, GDT_USER_TSS, 1) >>

\* The CPU's view of a descriptor (external): a flat segment of 4 GiB with
\* 32-bit code or writable data, reserved to the kernel.
IsFlat(sel, code) ==
    LET d == Gdt[(sel \div 8) + 1] IN
    /\ d.base = 0
    /\ d.limit_low + 65536 * d.limit_high = 1048575
    /\ d.granularity \div 4 = 3
    /\ (d.access \div 128) % 2 = 1
    /\ (d.access \div 32) % 4 = 0
    /\ (d.access \div 16) % 2 = 1
    /\ (d.access \div 8) % 2 = IF code THEN 1 ELSE 0
    /\ (d.access \div 2) % 2 = 1

-----------------------------------------------------------------------------
(* Gates and stubs.                                                        *)

Vectors == 0 .. 48                \* INT_NUM_INTERRUPTS

INT_SYSCALL_INTERRUPT == 48

FIRST_IRQ_INT == 32

NUM_IRQS == 16

IsIrqVector(v) == v \in FIRST_IRQ_INT .. (FIRST_IRQ_INT + NUM_IRQS - 1)

\* The gates of fill_idt: the stub of each vector, isr<n> or irq<n>.
Idt == [v \in Vectors |-> IF IsIrqVector(v) THEN <<"irq", v - FIRST_IRQ_INT>>
                          ELSE <<"isr", v>>]

\* The number a stub pushes: the macros' second argument for an IRQ.
StubNumber(stub) == IF stub[1] = "irq" THEN stub[2] + FIRST_IRQ_INT ELSE stub[2]

\* Mutant: the stub of the page fault pushes an error code of its own.
HasErrorStubNoFault(stub) == stub[1] = "isr" /\ stub[2] \in {8} \cup (10 .. 13)

\* The stubs made by ASM_ISR_ERRCODE, which leave the error code to the CPU.
HasErrorStub(stub) == stub[1] = "isr" /\ stub[2] \in {8} \cup (10 .. 14)

\* The vectors for which the CPU pushes one (external).
PushesError(v) == v \in {8} \cup (10 .. 14) \cup {17}

-----------------------------------------------------------------------------
(* The frame.                                                              *)

\* struct thread_context
Context == <<"gs", "fs", "es", "ds",
             "edi", "esi", "ebp", "esp", "ebx", "edx", "ecx", "eax",
             "int_num", "error_code", "eip", "cs", "eflags",
             "user_esp", "user_ss">>

SegmentRegs == {"ds", "es", "fs", "gs"}

\* The registers that an interrupt preserves; the stack pointer is where the
\* frame ends.
Registers == SegmentRegs \cup {"edi", "esi", "ebp", "ebx", "edx", "ecx", "eax",
                               "eip", "cs", "eflags"}

\* context->f, as the C code compiles it.
Field(frame, f) == frame[CHOOSE i \in DOMAIN Context : Context[i] = f]

\* bytes(%ebp), as the assembly has it.
WordAt(frame, bytes) == frame[(bytes \div 4) + 1]

\* Words of the kernel's own.
Sel(n) == <<"selector", n>>
Number(n) == <<"number", n>>

\* What the CPU pushes when it takes vector v (external).
CpuFrame(regs, v) ==
    (IF PushesError(v) THEN << <<"cpu", "error_code">> >> ELSE <<>>)
        \o <<regs["eip"], regs["cs"], regs["eflags"]>>

\* The stub's part: a dummy error code unless there is one, and the number.
StubFrame(stub) ==
    <<Number(StubNumber(stub))>>
        \o (IF HasErrorStub(stub) THEN <<>> ELSE << <<"stub", "error_code">> >>)

\* int_handler_stub's part: pushal, then the segment registers.
SavedFrame(regs, esp) ==
    <<regs["gs"], regs["fs"], regs["es"], regs["ds"],
      regs["edi"], regs["esi"], regs["ebp"], esp,
      regs["ebx"], regs["edx"], regs["ecx"], regs["eax"]>>

\* The stack s after the CPU has taken vector v and the stub has saved regs.
Entered(v, regs, s) ==
    SavedFrame(regs, <<"cpu", "esp">>) \o StubFrame(Idt[v]) \o CpuFrame(regs, v) \o s

\* int_handler_stub_resume: 4 pops, popal, 8 bytes skipped, iret.
Popped == 17

Resumed(s) ==
    [r \in Registers |->
        CASE r = "gs" -> s[1] [] r = "fs" -> s[2] [] r = "es" -> s[3]
          [] r = "ds" -> s[4]
          [] r = "edi" -> s[5] [] r = "esi" -> s[6] [] r = "ebp" -> s[7]
          [] r = "ebx" -> s[9] [] r = "edx" -> s[10] [] r = "ecx" -> s[11]
          [] r = "eax" -> s[12]
          [] r = "eip" -> s[15] [] r = "cs" -> s[16] [] r = "eflags" -> s[17]]

-----------------------------------------------------------------------------
(* The 8259 PICs.                                                          *)

PIC_MASTER_CMD  == 32
PIC_MASTER_DATA == 33
PIC_SLAVE_CMD   == 160
PIC_SLAVE_DATA  == 161

Bits(byte) == {b \in 0 .. 7 : (byte \div 2^b) % 2 = 1}

\* Mutant: both controllers get the vectors of the master.
RemapWritesSame ==
    << <<PIC_MASTER_CMD, 17>>, <<PIC_SLAVE_CMD, 17>>,
       <<PIC_MASTER_DATA, 32>>, <<PIC_SLAVE_DATA, 32>>,
       <<PIC_MASTER_DATA, 4>>, <<PIC_SLAVE_DATA, 2>>,
       <<PIC_MASTER_DATA, 1>>, <<PIC_SLAVE_DATA, 1>>,
       <<PIC_MASTER_DATA, 251>>, <<PIC_SLAVE_DATA, 255>> >>

\* remap_pic
RemapWrites ==
    << <<PIC_MASTER_CMD, 17>>, <<PIC_SLAVE_CMD, 17>>,
       <<PIC_MASTER_DATA, 32>>, <<PIC_SLAVE_DATA, 40>>,
       <<PIC_MASTER_DATA, 4>>, <<PIC_SLAVE_DATA, 2>>,
       <<PIC_MASTER_DATA, 1>>, <<PIC_SLAVE_DATA, 1>>,
       <<PIC_MASTER_DATA, 251>>, <<PIC_SLAVE_DATA, 255>> >>

\* A byte written to the command or data port of a PIC (external): ICW1 makes
\* the data port expect ICW2, ICW3 and ICW4, in that order; any other byte
\* there is the mask.
PicOutb(p, data, byte) ==
    CASE ~data                -> [p EXCEPT !.expects = 2, !.mask = {}]
      [] data /\ p.expects = 2 -> [p EXCEPT !.expects = 3, !.base = byte]
      [] data /\ p.expects = 3 -> [p EXCEPT !.expects = 4, !.cascade = byte]
      [] data /\ p.expects = 4 -> [p EXCEPT !.expects = 0]
      [] OTHER                 -> [p EXCEPT !.mask = Bits(byte)]

\* The firmware's setting of the master, in which IRQ 0 is vector 8.
Firmware == [expects |-> 0, base |-> 8, cascade |-> 0, mask |-> {}]

\* One of the kernel's writes, as the PIC with these two ports takes it.
PicWrite(p, w, cmd, data) ==
    IF w[1] \in {cmd, data} THEN PicOutb(p, w[1] = data, w[2]) ELSE p

Programmed(cmd, data) ==
    LET after[n \in 0 .. Len(RemapWrites)] ==
          IF n = 0 THEN Firmware ELSE PicWrite(after[n - 1], RemapWrites[n], cmd, data)
    IN  after[Len(RemapWrites)]

PicMaster == Programmed(PIC_MASTER_CMD, PIC_MASTER_DATA)

PicSlave == Programmed(PIC_SLAVE_CMD, PIC_SLAVE_DATA)

\* The vector with which the PICs interrupt the CPU for an IRQ.
VectorOf(irq) == IF irq >= 8 THEN PicSlave.base + irq - 8 ELSE PicMaster.base + irq

=============================================================================
