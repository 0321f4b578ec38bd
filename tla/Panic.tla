------------------------------- MODULE Panic -------------------------------
(***************************************************************************)
(* panic and worry: the message is built byte by byte in the one static    *)
(* msg_buf, sent over the serial port, shown on the console, and a panic   *)
(* then halts.  Tasks run with interrupts on, so that any two steps of one *)
(* may be separated by those of another (their critical regions do not     *)
(* prevent it, see RegionExclusive in Scheduler.tla); an exception handler *)
(* panics with interrupts off.  What a cell of msg_buf or the wire holds   *)
(* is a terminator or a character of the caller that wrote it.             *)
(***************************************************************************)
EXTENDS Integers, Sequences, FiniteSets

CONSTANTS
    Tasks,      \* callers of panic and worry that can be preempted
    HANDLER,    \* an exception handler, which calls panic_r
    BOOT,       \* kinit, which initializes the port
    NUL, CR, LF,
    MaxBuf,     \* MAX_PANIC_BUF
    Lengths,    \* lengths of the text that sprintf makes of a message
    Regs,       \* length of the registers that strcat_registers appends
    FifoSize    \* the UART's transmit buffer with its FIFO on, 16

Callers == Tasks \cup {HANDLER, BOOT}

Chars == Callers \cup {NUL, CR, LF}

ASSUME CallersAssumption ==
    /\ HANDLER \notin Tasks /\ BOOT \notin Tasks /\ HANDLER # BOOT
    /\ NUL \notin Callers \cup {CR, LF} /\ CR \notin Callers \cup {LF}
    /\ LF \notin Callers

\* Every message of the kernel fits into msg_buf with its terminator.
ASSUME BufferAssumption ==
    /\ MaxBuf \in Nat \ {0} /\ Regs \in Nat
    /\ Lengths \subseteq Nat /\ \A n \in Lengths : n + Regs < MaxBuf

\* The UART has room for a byte of every task and of a handler: the kernel
\* has two tasks.
ASSUME FifoAssumption ==
    /\ IsFiniteSet(Tasks)
    /\ FifoSize \in Nat /\ Cardinality(Tasks) + 1 <= FifoSize

VARIABLES
    uart,      \* the UART's registers
    fifo,      \* the number of bytes in its transmit buffer
    msg_buf,
    pc,        \* per caller: the next step
    pos,       \* per caller: the index it has reached in msg_buf
    len,       \* per caller: where its sprintf ends
    ch,        \* per caller: the argument of serio_writechar
    kind,      \* per caller: panic or worry
    sent,      \* history: what the handler's serio_puts has sent
    halted

portVars == <<uart, fifo>>
callVars == <<len, kind>>
vars == <<portVars, msg_buf, pc, pos, callVars, ch, sent, halted>>

Index == 0 .. (MaxBuf - 1)

\* Mutant: the divisor latch stays selected.
InitWritesLatched == << <<1, 0>>, <<3, 128>>, <<0, 3>>, <<1, 0>>, <<3, 131>>,
                        <<2, 199>>, <<4, 11>> >>

\* The values that serio_init writes, with the registers it writes them to.
InitWrites == << <<1, 0>>, <<3, 128>>, <<0, 3>>, <<1, 0>>, <<3, 3>>, <<2, 199>>,
                 <<4, 11>> >>

\* outb to a 16550 (external): bit 7 of register 3 selects the divisor latch
\* in the place of registers 0 and 1.  Sending a byte is Out below.
Outb(u, reg, val) ==
    CASE reg = 0 /\ u.dlab  -> [u EXCEPT !.low = val]
      [] reg = 1 /\ u.dlab  -> [u EXCEPT !.high = val]
      [] reg = 1 /\ ~u.dlab -> [u EXCEPT !.ier = val]
      [] reg = 2            -> [u EXCEPT !.buffered = val % 2 = 1]
      [] reg = 3            -> [u EXCEPT !.dlab = val >= 128]
      [] OTHER              -> u

Capacity == IF uart.buffered THEN FifoSize ELSE 1

\* .bss is zero; the firmware leaves the port with its divisor latch hidden.
Init ==
    /\ uart \in [dlab : {FALSE}, low : {12}, high : {0}, ier : {0, 1},
                 buffered : BOOLEAN]
    /\ fifo = 0
    /\ msg_buf = [i \in Index |-> NUL]
    /\ pc = [c \in Callers |-> IF c = BOOT THEN "init" ELSE "idle"]
    /\ pos = [c \in Callers |-> 0]
    /\ len = [c \in Callers |-> 0]
    /\ ch = [c \in Callers |-> NUL]
    /\ kind = [c \in Callers |-> "worry"]
    /\ sent = <<>>
    /\ halted = FALSE

\* Mutant: exceptions have trap gates, so that a handler is preempted too.
RunsPreempted(c) ==
    ~halted /\ (c # BOOT => pc[BOOT] = "idle")

\* Who may take a step: kinit before there are tasks, tasks in any order, and
\* no task once an exception has been taken.
Runs(c) ==
    /\ ~halted
    /\ c # BOOT => pc[BOOT] = "idle"
    /\ c # HANDLER => pc[HANDLER] = "idle"

Step(c, from, to) == Runs(c) /\ pc[c] = from /\ pc' = [pc EXCEPT ![c] = to]

At(c, i) == pos' = [pos EXCEPT ![c] = i]

-----------------------------------------------------------------------------
(* serio_init: the registers, then a banner from a buffer of its own.      *)

SerioInit ==
    /\ Step(BOOT, "init", IF pos[BOOT] + 1 < Len(InitWrites) THEN "init" ELSE "test")
    /\ LET w == InitWrites[pos[BOOT] + 1] IN uart' = Outb(uart, w[1], w[2])
    /\ At(BOOT, IF pos[BOOT] + 1 < Len(InitWrites) THEN pos[BOOT] + 1 ELSE 0)
    /\ UNCHANGED <<fifo, msg_buf, callVars, ch, sent, halted>>

-----------------------------------------------------------------------------
(* Building the message.                                                   *)

\* A call of panic, worry or panic_r whose sprintf will write n characters.
Call(c, k, n) ==
    /\ c # BOOT
    /\ c = HANDLER => k = "panic"
    /\ Step(c, "idle", "clear")
    /\ At(c, 0)
    /\ len' = [len EXCEPT ![c] = n]
    /\ kind' = [kind EXCEPT ![c] = k]
    /\ UNCHANGED <<portVars, msg_buf, ch, sent, halted>>

\* memset(msg_buf, 0, MAX_PANIC_BUF), byte by byte
Clear(c) ==
    LET last == pos[c] = MaxBuf - 1 IN
    /\ Step(c, "clear", IF last THEN "print" ELSE "clear")
    /\ msg_buf' = [msg_buf EXCEPT ![pos[c]] = NUL]
    /\ At(c, IF last THEN 0 ELSE pos[c] + 1)
    /\ UNCHANGED <<portVars, callVars, ch, sent, halted>>

\* Mutant: sprintf does not terminate the string.
SprintfUnterminated(c) ==
    LET last == pos[c] = len[c]
    IN
    /\ Step(c, "print", CASE ~last                  -> "print"
                          [] last /\ c = HANDLER    -> "scan"
                          [] OTHER                  -> "test")
    /\ msg_buf' = [msg_buf EXCEPT ![pos[c]] = c]
    /\ At(c, IF last THEN 0 ELSE pos[c] + 1)
    /\ UNCHANGED <<portVars, callVars, ch, sent, halted>>

\* sprintf: a character, behind which the strcpy of a %s may already have put
\* a terminator; at the end, the terminator.
Sprintf(c) ==
    LET last == pos[c] = len[c]
    IN
    /\ Step(c, "print", CASE ~last                  -> "print"
                          [] last /\ c = HANDLER    -> "scan"
                          [] OTHER                  -> "test")
    /\ \E ends \in BOOLEAN :
          msg_buf' = [i \in Index |->
              CASE i = pos[c] /\ ~last              -> c
                [] i = pos[c] /\ last               -> NUL
                [] i = pos[c] + 1 /\ ~last /\ ends  -> NUL
                [] OTHER                            -> msg_buf[i]]
    /\ At(c, IF last THEN 0 ELSE pos[c] + 1)
    /\ UNCHANGED <<portVars, callVars, ch, sent, halted>>

\* strcat_registers: the end of the string ...
Scan ==
    /\ IF msg_buf[pos[HANDLER]] # NUL
       THEN Step(HANDLER, "scan", "scan") /\ At(HANDLER, pos[HANDLER] + 1)
       ELSE Step(HANDLER, "scan", "regs") /\ UNCHANGED pos
    /\ UNCHANGED <<portVars, msg_buf, callVars, ch, sent, halted>>

\* ... where its sprintf calls put the registers.
PrintRegs ==
    /\ Step(HANDLER, "regs", "test")
    /\ msg_buf' = [i \in Index |->
           CASE i \in pos[HANDLER] .. (pos[HANDLER] + Regs - 1) -> HANDLER
             [] i = pos[HANDLER] + Regs                         -> NUL
             [] OTHER                                           -> msg_buf[i]]
    /\ At(HANDLER, 0)
    /\ UNCHANGED <<portVars, callVars, ch, sent, halted>>

-----------------------------------------------------------------------------
(* serio_puts(SERIO_COM1, msg_buf, true) and tty_puts_color.               *)

\* serio_init passes a string of one character.
Char(c, i) == IF c = BOOT THEN IF i = 0 THEN BOOT ELSE NUL ELSE msg_buf[i]

\* while (*str != '\0'), and the carriage return behind the loop
Test(c) ==
    LET ends == Char(c, pos[c]) = NUL IN
    /\ Step(c, "test", IF ends THEN "poll" ELSE "fetch")
    /\ ch' = IF ends THEN [ch EXCEPT ![c] = CR] ELSE ch
    /\ UNCHANGED <<portVars, msg_buf, pos, callVars, sent, halted>>

\* serio_writechar(com, *str) reads the buffer once more; str++
Fetch(c) ==
    /\ Step(c, "fetch", "poll")
    /\ ch' = [ch EXCEPT ![c] = Char(c, pos[c])]
    /\ At(c, pos[c] + 1)
    /\ UNCHANGED <<portVars, msg_buf, callVars, sent, halted>>

\* while (serio_data_outgoing(com)): the transmit buffer is empty
Poll(c) ==
    /\ fifo = 0
    /\ Step(c, "poll", "out")
    /\ UNCHANGED <<portVars, msg_buf, pos, callVars, ch, sent, halted>>

\* ioport_outb(com, c); the carriage return is followed by a line feed, and
\* the line feed by the console.
Out(c) ==
    /\ Step(c, "out", CASE ch[c] = CR -> "poll"
                        [] ch[c] = LF -> IF c = BOOT THEN "idle" ELSE "show"
                        [] OTHER      -> "test")
    /\ fifo' = fifo + 1
    /\ ch' = IF ch[c] = CR THEN [ch EXCEPT ![c] = LF] ELSE ch
    /\ sent' = IF c = HANDLER THEN Append(sent, ch[c]) ELSE sent
    /\ pos' = IF ch[c] = LF THEN [pos EXCEPT ![c] = 0] ELSE pos
    /\ UNCHANGED <<uart, msg_buf, callVars, halted>>

\* The loop of tty_puts_color; what follows it is _worry's return or halt.
Show(c) ==
    LET ends == msg_buf[pos[c]] = NUL IN
    /\ Step(c, "show", CASE ~ends                       -> "show"
                         [] ends /\ kind[c] = "panic"   -> "halt"
                         [] OTHER                       -> "idle")
    /\ At(c, IF ends THEN 0 ELSE pos[c] + 1)
    /\ UNCHANGED <<portVars, msg_buf, callVars, ch, sent, halted>>

\* Mutant: without cli, the loop behind hlt spins and ticks go on.
HaltSpins(c) ==
    /\ Step(c, "halt", "halt")
    /\ UNCHANGED <<portVars, msg_buf, pos, callVars, ch, sent, halted>>

\* halt: the word "halted", the heap's statistics, cli, hlt
Halt(c) ==
    /\ Step(c, "halt", "halt")
    /\ halted' = TRUE
    /\ UNCHANGED <<portVars, msg_buf, pos, callVars, ch, sent>>

\* The UART sends a byte (external); it goes on when the CPU has halted.
Drain ==
    /\ fifo > 0
    /\ fifo' = fifo - 1
    /\ UNCHANGED <<uart, msg_buf, pc, pos, callVars, ch, sent, halted>>

Build(c) == Clear(c) \/ Sprintf(c) \/ (c = HANDLER /\ (Scan \/ PrintRegs))

Send(c) == Test(c) \/ Fetch(c) \/ Poll(c) \/ Out(c)

Advance(c) == Build(c) \/ Send(c) \/ Show(c) \/ Halt(c)

Next ==
    \/ SerioInit
    \/ Drain
    \/ \E c \in Callers : Advance(c)
    \/ \E c \in Callers, k \in {"panic", "worry"}, n \in Lengths : Call(c, k, n)

Spec == Init /\ [][Next]_vars

\* A caller is given the CPU again and again, and sees the port empty at one
\* of the many times it polls it, even if others keep sending.
FairSpec ==
    /\ Spec
    /\ WF_vars(Drain)
    /\ WF_vars(SerioInit \/ Advance(BOOT) \/ Advance(HANDLER))
    /\ \A t \in Tasks : WF_vars(Advance(t)) /\ SF_vars(Poll(t))

-----------------------------------------------------------------------------
(* Properties.                                                             *)

TypeOK ==
    /\ uart \in [dlab : BOOLEAN, low : 0 .. 255, high : 0 .. 255, ier : 0 .. 255,
                 buffered : BOOLEAN]
    /\ fifo \in Nat
    /\ msg_buf \in [Index -> Callers \cup {NUL}]
    /\ pc \in [Callers -> {"init", "idle", "clear", "print", "scan", "regs", "test",
                           "fetch", "poll", "out", "show", "halt"}]
    /\ pos \in [Callers -> Nat]
    /\ len \in [Callers -> Lengths \cup {0}]
    /\ ch \in [Callers -> Chars]
    /\ kind \in [Callers -> {"panic", "worry"}]
    /\ halted \in BOOLEAN

\* No caller reads or writes outside msg_buf, although the terminator it is
\* heading for may be overwritten by another caller at any moment.
InsideBuffer ==
    \A c \in Tasks \cup {HANDLER} : pc[c] # "idle" => pos[c] \in Index

\* Every byte sent after serio_init goes through the data register, at the
\* rate that serio_init chose, with the UART's interrupts off; and it finds
\* room, although several callers may see the port empty before one sends.
PortUsable ==
    /\ fifo <= Capacity
    /\ pc[BOOT] # "init" =>
          uart = [dlab |-> FALSE, low |-> 3, high |-> 0, ier |-> 0, buffered |-> TRUE]

\* The message of an exception reaches the serial port as it was written,
\* registers included, whatever the tasks were doing with msg_buf.
PanicIntact ==
    pc[HANDLER] \in {"show", "halt"} =>
        sent = [i \in 1 .. (len[HANDLER] + Regs) |-> HANDLER] \o <<CR, LF>>

Panics(c) == pc[c] \notin {"idle", "init"} /\ kind[c] = "panic"

\* A panic halts the machine, also when other callers send messages meanwhile.
PanicHalts == (\E c \in Callers : Panics(c)) ~> halted

=============================================================================
