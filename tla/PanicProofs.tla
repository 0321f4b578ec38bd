----------------------------- MODULE PanicProofs -----------------------------
(***************************************************************************)
(* However many tasks build and send messages at the same time, nobody     *)
(* leaves msg_buf, the serial port is set up and never overrun, and the    *)
(* message of an exception is sent as it was written.                      *)
(***************************************************************************)
EXTENDS Panic, FiniteSetTheorems, TLAPS

\* The callers that use msg_buf.
Users == Tasks \cup {HANDLER}

Labels == {"init", "idle", "clear", "print", "scan", "regs", "test",
           "fetch", "poll", "out", "show", "halt"}

\* The UART's registers when serio_init has made its first k writes.
UartAfter(k) ==
    /\ k >= 1 => uart.ier = 0
    /\ uart.dlab <=> k \in 2 .. 4
    /\ k >= 3 => uart.low = 3
    /\ uart.high = 0
    /\ k >= 6 => uart.buffered

Configured ==
    uart = [dlab |-> FALSE, low |-> 3, high |-> 0, ier |-> 0, buffered |-> TRUE]

\* While kinit uses the port nobody else runs.
BootInv ==
    /\ pc[BOOT] \in {"init", "idle", "test", "fetch", "poll", "out"}
    /\ pc[BOOT] # "idle" => \A c \in Users : pc[c] = "idle"
    /\ IF pc[BOOT] = "init"
       THEN pos[BOOT] \in 0 .. 6 /\ fifo = 0 /\ UartAfter(pos[BOOT])
       ELSE pos[BOOT] \in 0 .. 1 /\ Configured
    /\ pc[BOOT] = "fetch" => pos[BOOT] = 0

\* The last byte of msg_buf is a terminator at all times: it stops every
\* caller, whatever others do to the terminator it is heading for.
BufEnd == msg_buf[MaxBuf - 1] = NUL

PosOf(c) ==
    /\ pc[c] # "init"
    /\ pc[c] \in {"scan", "regs"} => c = HANDLER
    /\ pc[c] # "idle" => pos[c] \in Index /\ len[c] \in Lengths
    /\ pc[c] = "print" => pos[c] <= len[c]
    /\ pc[c] = "fetch" => pos[c] < MaxBuf - 1

PosInv == \A c \in Users : PosOf(c)

\* The buffer holds k characters of the handler and nothing else.
Holds(k) == \A i \in Index : msg_buf[i] = IF i < k THEN HANDLER ELSE NUL

Text(k) == [i \in 1 .. k |-> HANDLER]

Total == len[HANDLER] + Regs

\* What the handler has written and sent at each of its steps.  Nobody else
\* runs between them, which is why its message stays whole.
HandlerInv ==
    LET at == pc[HANDLER]
        p == pos[HANDLER]
    IN
    /\ at = "idle" => sent = Text(0)
    /\ at # "idle" => kind[HANDLER] = "panic"
    /\ at = "clear" => sent = Text(0) /\ \A i \in Index : i < p => msg_buf[i] = NUL
    /\ at = "print" => sent = Text(0) /\ Holds(p)
    /\ at = "scan" => sent = Text(0) /\ Holds(len[HANDLER]) /\ p <= len[HANDLER]
    /\ at = "regs" => sent = Text(0) /\ Holds(len[HANDLER]) /\ p = len[HANDLER]
    /\ at = "test" => sent = Text(p) /\ Holds(Total) /\ p <= Total
    /\ at = "fetch" => sent = Text(p) /\ Holds(Total) /\ p < Total
    /\ at \in {"poll", "out"} =>
          /\ Holds(Total)
          /\ p <= Total
          /\ \/ ch[HANDLER] = HANDLER /\ p >= 1 /\ sent = Text(p - 1)
             \/ ch[HANDLER] = CR /\ p = Total /\ sent = Text(Total)
             \/ ch[HANDLER] = LF /\ p = Total /\ sent = Append(Text(Total), CR)
    /\ at \in {"show", "halt"} => sent = Text(Total) \o <<CR, LF>>

IInv == TypeOK /\ BootInv /\ BufEnd /\ PosInv /\ HandlerInv

-----------------------------------------------------------------------------
LEMMA ConstantFacts ==
  /\ BOOT \in Callers /\ HANDLER \in Callers /\ Users \subseteq Callers
  /\ BOOT \notin Users /\ HANDLER \in Users
  /\ \A c \in Callers : c # BOOT => c \in Users
  /\ \A c \in Callers : c # NUL /\ c # CR /\ c # LF
  /\ NUL # CR /\ NUL # LF /\ CR # LF
  BY CallersAssumption DEF Callers, Users

LEMMA IndexFacts ==
  /\ MaxBuf - 1 \in Index /\ 0 \in Index /\ Index \subseteq Nat
  /\ \A n \in Lengths : n \in Nat /\ n + Regs \in Nat /\ n + Regs < MaxBuf
  /\ Regs \in Nat /\ MaxBuf \in Nat \ {0}
  BY BufferAssumption DEF Index

\* A step of another caller than the handler leaves the handler's part alone.
LEMMA OthersStep ==
  ASSUME IInv, NEW c \in Callers, c # HANDLER, NEW from, NEW to,
         Step(c, from, to), sent' = sent
  PROVE  HandlerInv'
<1>1. pc[HANDLER] = "idle" /\ pc'[HANDLER] = "idle"
  BY ConstantFacts DEF Step, Runs, IInv, TypeOK
<1>2. QED
  BY <1>1 DEF IInv, HandlerInv, Text

LEMMA InitIInv == Init => IInv
<1> SUFFICES ASSUME Init PROVE IInv
  OBVIOUS
<1> USE ConstantFacts, IndexFacts DEF Init
<1>1. TypeOK
  <2>1. pc \in [Callers -> Labels] BY DEF Labels
  <2>2. msg_buf \in [Index -> Callers \cup {NUL}] OBVIOUS
  <2>3. /\ pos \in [Callers -> Nat] /\ len \in [Callers -> Lengths \cup {0}]
        /\ kind \in [Callers -> {"panic", "worry"}]
    OBVIOUS
  <2>4. ch \in [Callers -> Chars] BY DEF Chars
  <2>5. uart \in [dlab : BOOLEAN, low : 0 .. 255, high : 0 .. 255, ier : 0 .. 255,
                  buffered : BOOLEAN]
    <3>1. PICK i \in {0, 1}, b \in BOOLEAN :
            uart = [dlab |-> FALSE, low |-> 12, high |-> 0, ier |-> i, buffered |-> b]
      BY Zenon
    <3>2. QED BY <3>1
  <2>6. QED BY <2>1, <2>2, <2>3, <2>4, <2>5 DEF TypeOK, Labels
<1>2. BootInv
  <2>1. uart.dlab = FALSE /\ uart.high = 0
    OBVIOUS
  <2>2. pc[BOOT] = "init" /\ pos[BOOT] = 0 /\ fifo = 0 /\ \A c \in Users : pc[c] = "idle"
    OBVIOUS
  <2>3. QED BY <2>1, <2>2 DEF BootInv, UartAfter
<1>3. BufEnd /\ PosInv
  BY DEF BufEnd, PosInv, PosOf
<1>4. sent = Text(0)
  BY DEF Text
<1>5. HandlerInv
  BY <1>4 DEF HandlerInv
<1>6. QED BY <1>1, <1>2, <1>3, <1>5 DEF IInv

\* What a caller that is not kinit may assume when it takes a step.
LEMMA UserRuns ==
  ASSUME IInv, NEW c \in Users, NEW from, NEW to, Step(c, from, to), to \in Labels
  PROVE  /\ c \in Callers /\ c # BOOT /\ pc[BOOT] = "idle" /\ pc'[BOOT] = "idle"
         /\ pc[c] = from /\ pc'[c] = to
         /\ \A d \in Users : d # c => pc'[d] = pc[d]
         /\ pc' \in [Callers -> Labels]
         /\ c # HANDLER => pc[HANDLER] = "idle" /\ pc'[HANDLER] = "idle"
<1> USE ConstantFacts
<1>1. pc \in [Callers -> Labels]
  BY DEF IInv, TypeOK, Labels
<1>2. QED BY <1>1 DEF Step, Runs

LEMMA Writes ==
  /\ Len(InitWrites) = 7
  /\ InitWrites[1][1] = 1 /\ InitWrites[1][2] = 0
  /\ InitWrites[2][1] = 3 /\ InitWrites[2][2] = 128
  /\ InitWrites[3][1] = 0 /\ InitWrites[3][2] = 3
  /\ InitWrites[4][1] = 1 /\ InitWrites[4][2] = 0
  /\ InitWrites[5][1] = 3 /\ InitWrites[5][2] = 3
  /\ InitWrites[6][1] = 2 /\ InitWrites[6][2] = 199
  /\ InitWrites[7][1] = 4 /\ InitWrites[7][2] = 11
  BY DEF InitWrites

LEMMA SerioInitStep == ASSUME IInv, SerioInit PROVE IInv'
<1> USE ConstantFacts, IndexFacts
<1>1. /\ pc[BOOT] = "init" /\ pos[BOOT] \in 0 .. 6 /\ fifo = 0 /\ UartAfter(pos[BOOT])
      /\ \A c \in Users : pc[c] = "idle"
  BY DEF SerioInit, Step, IInv, BootInv
<1>2. PICK k \in 0 .. 6 : k = pos[BOOT] /\ UartAfter(k)
  BY <1>1
<1>3. uart \in [dlab : BOOLEAN, low : 0 .. 255, high : 0 .. 255, ier : 0 .. 255,
                buffered : BOOLEAN]
  BY DEF IInv, TypeOK
<1>4. uart' = Outb(uart, InitWrites[k + 1][1], InitWrites[k + 1][2])
  BY <1>2 DEF SerioInit
<1>5. /\ uart' \in [dlab : BOOLEAN, low : 0 .. 255, high : 0 .. 255, ier : 0 .. 255,
                     buffered : BOOLEAN]
      /\ k < 6 => UartAfter(k + 1)'
      /\ k = 6 => Configured'
  <2>1. CASE k = 0
    <3>1. uart' = Outb(uart, 1, 0)
      BY <2>1, <1>4, Writes
    <3>2. uart' = [uart EXCEPT !.ier = 0]
      BY <3>1, <2>1, <1>2 DEF Outb, UartAfter
    <3>3. QED BY <2>1, <1>2, <1>3, <3>2 DEF UartAfter
  <2>2. CASE k = 1
    <3>1. uart' = Outb(uart, 3, 128)
      BY <2>2, <1>4, Writes
    <3>2. uart' = [uart EXCEPT !.dlab = 128 >= 128]
      BY <3>1 DEF Outb
    <3>3. (128 >= 128) = TRUE
      OBVIOUS
    <3>4. /\ uart'.dlab
          /\ uart'.low = uart.low /\ uart'.high = uart.high
          /\ uart'.ier = uart.ier /\ uart'.buffered = uart.buffered
      BY <1>3, <3>2, <3>3, Zenon
    <3>5. uart' \in [dlab : BOOLEAN, low : 0 .. 255, high : 0 .. 255, ier : 0 .. 255,
                     buffered : BOOLEAN]
      BY <1>3, <3>2, <3>3, Zenon
    <3>6. QED BY <2>2, <1>2, <3>4, <3>5 DEF UartAfter
  <2>3. CASE k = 2
    <3>1. uart' = Outb(uart, 0, 3)
      BY <2>3, <1>4, Writes
    <3>2. uart' = [uart EXCEPT !.low = 3]
      BY <3>1, <2>3, <1>2 DEF Outb, UartAfter
    <3>3. QED BY <2>3, <1>2, <1>3, <3>2 DEF UartAfter
  <2>4. CASE k = 3
    <3>1. uart' = Outb(uart, 1, 0)
      BY <2>4, <1>4, Writes
    <3>2. uart' = [uart EXCEPT !.high = 0]
      BY <3>1, <2>4, <1>2 DEF Outb, UartAfter
    <3>3. QED BY <2>4, <1>2, <1>3, <3>2 DEF UartAfter
  <2>5. CASE k = 4
    <3>1. uart' = Outb(uart, 3, 3)
      BY <2>5, <1>4, Writes
    <3>2. uart' = [uart EXCEPT !.dlab = 3 >= 128]
      BY <3>1 DEF Outb
    <3>3. (3 >= 128) = FALSE
      OBVIOUS
    <3>4. /\ ~uart'.dlab
          /\ uart'.low = uart.low /\ uart'.high = uart.high
          /\ uart'.ier = uart.ier /\ uart'.buffered = uart.buffered
      BY <1>3, <3>2, <3>3, Zenon
    <3>5. uart' \in [dlab : BOOLEAN, low : 0 .. 255, high : 0 .. 255, ier : 0 .. 255,
                     buffered : BOOLEAN]
      BY <1>3, <3>2, <3>3, Zenon
    <3>6. QED BY <2>5, <1>2, <3>4, <3>5 DEF UartAfter
  <2>6. CASE k = 5
    <3>1. uart' = Outb(uart, 2, 199)
      BY <2>6, <1>4, Writes
    <3>2. uart' = [uart EXCEPT !.buffered = 199 % 2 = 1]
      BY <3>1 DEF Outb
    <3>3. (199 % 2 = 1) = TRUE
      OBVIOUS
    <3>4. /\ uart'.buffered
          /\ uart'.dlab = uart.dlab /\ uart'.low = uart.low
          /\ uart'.high = uart.high /\ uart'.ier = uart.ier
      BY <1>3, <3>2, <3>3, Zenon
    <3>5. uart' \in [dlab : BOOLEAN, low : 0 .. 255, high : 0 .. 255, ier : 0 .. 255,
                     buffered : BOOLEAN]
      BY <1>3, <3>2, <3>3, Zenon
    <3>6. QED BY <2>6, <1>2, <3>4, <3>5 DEF UartAfter
  <2>7. CASE k = 6
    <3>1. uart' = Outb(uart, 4, 11)
      BY <2>7, <1>4, Writes
    <3>2. uart' = uart
      BY <3>1, <2>7, <1>2 DEF Outb, UartAfter
    <3>3. QED BY <2>7, <1>2, <1>3, <3>2 DEF UartAfter, Configured
  <2>8. QED BY <2>1, <2>2, <2>3, <2>4, <2>5, <2>6, <2>7
<1>6. /\ pc' = [pc EXCEPT ![BOOT] = IF k < 6 THEN "init" ELSE "test"]
      /\ pos' = [pos EXCEPT ![BOOT] = IF k < 6 THEN k + 1 ELSE 0]
  <2>1. k + 1 < Len(InitWrites) <=> k < 6
    BY Writes
  <2>2. QED BY <1>2, <2>1, Zenon DEF SerioInit, Step, At
<1>7. TypeOK'
  <2>1. pc' \in [Callers -> Labels] /\ pos' \in [Callers -> Nat]
    BY <1>6 DEF IInv, TypeOK, Labels
  <2>2. UNCHANGED <<fifo, msg_buf, len, kind, ch, sent, halted>>
    BY DEF SerioInit, callVars
  <2>3. QED BY <1>5, <2>1, <2>2, Zenon DEF IInv, TypeOK, Labels
<1>8. BootInv'
  <2>1. \A c \in Users : pc'[c] = "idle"
    BY <1>1, <1>6 DEF IInv, TypeOK
  <2>2. CASE k < 6
    <3>1. pc'[BOOT] = "init" /\ pos'[BOOT] = k + 1 /\ fifo' = 0
      BY <1>1, <1>6, <2>2 DEF IInv, TypeOK, SerioInit
    <3>2. QED BY <3>1, <2>1, <2>2, <1>5 DEF BootInv, UartAfter
  <2>3. CASE k = 6
    <3>1. pc'[BOOT] = "test" /\ pos'[BOOT] = 0
      BY <1>1, <1>6, <2>3 DEF IInv, TypeOK, SerioInit
    <3>2. QED BY <3>1, <2>1, <2>3, <1>5 DEF BootInv
  <2>4. QED BY <2>2, <2>3
<1>9. BufEnd' /\ PosInv'
  BY <1>1, <1>6 DEF IInv, TypeOK, BufEnd, PosInv, PosOf, SerioInit, callVars
<1>10. HandlerInv'
  BY OthersStep DEF SerioInit
<1>11. QED BY <1>7, <1>8, <1>9, <1>10 DEF IInv

\* A step of one user of msg_buf leaves kinit and the other users alone.
LEMMA UserStep ==
  ASSUME IInv, NEW c \in Users, NEW from, NEW to \in Labels, Step(c, from, to),
         uart' = uart, \A d \in Callers : d # c => pos'[d] = pos[d] /\ len'[d] = len[d],
         PosOf(c)'
  PROVE  BootInv' /\ PosInv' /\ pc' \in [Callers -> Labels]
<1> USE ConstantFacts, UserRuns
<1>1. BootInv'
  BY DEF IInv, BootInv, Configured
<1>2. PosInv'
  BY DEF IInv, PosInv, PosOf
<1>3. QED BY <1>1, <1>2

LEMMA CallStep ==
  ASSUME IInv, NEW c \in Callers, NEW k \in {"panic", "worry"}, NEW n \in Lengths,
         Call(c, k, n)
  PROVE  IInv'
<1> USE ConstantFacts, IndexFacts
<1>1. c \in Users /\ Step(c, "idle", "clear") /\ "clear" \in Labels
  BY DEF Call, Labels
<1>2. /\ pos' = [pos EXCEPT ![c] = 0] /\ len' = [len EXCEPT ![c] = n]
      /\ kind' = [kind EXCEPT ![c] = k] /\ (c = HANDLER => k = "panic")
      /\ UNCHANGED <<uart, fifo, msg_buf, ch, sent, halted>>
  BY DEF Call, At, portVars
<1>3. /\ pos' \in [Callers -> Nat] /\ len' \in [Callers -> Lengths \cup {0}]
      /\ kind' \in [Callers -> {"panic", "worry"}]
      /\ pos'[c] = 0 /\ len'[c] = n /\ kind'[c] = k
  BY <1>1, <1>2 DEF IInv, TypeOK
<1>4. PosOf(c)'
  BY <1>1, <1>3, UserRuns DEF PosOf
<1>5. BootInv' /\ PosInv' /\ pc' \in [Callers -> Labels]
  <2>1. \A d \in Callers : d # c => pos'[d] = pos[d] /\ len'[d] = len[d]
    BY <1>2 DEF IInv, TypeOK
  <2>2. QED BY <1>1, <1>2, <1>4, <2>1, UserStep
<1>6. TypeOK'
  BY <1>2, <1>3, <1>5, Zenon DEF IInv, TypeOK, Labels
<1>7. BufEnd'
  BY <1>2 DEF IInv, BufEnd
<1>8. HandlerInv'
  <2>1. CASE c = HANDLER
    <3>1. pc[HANDLER] = "idle" /\ pc'[HANDLER] = "clear" /\ sent' = sent
      BY <1>1, <1>2, <2>1, UserRuns
    <3>2. QED BY <3>1, <2>1, <1>2, <1>3 DEF IInv, HandlerInv, Text
  <2>2. CASE c # HANDLER
    BY <1>1, <1>2, <2>2, OthersStep
  <2>3. QED BY <2>1, <2>2
<1>9. QED BY <1>5, <1>6, <1>7, <1>8 DEF IInv

\* The steps that build the message change msg_buf and the caller's place.
LEMMA BuildTypes ==
  ASSUME IInv, NEW c \in Users, NEW from, NEW to \in Labels, Step(c, from, to),
         NEW i \in Nat, pos' = [pos EXCEPT ![c] = i], PosOf(c)',
         msg_buf' \in [Index -> Callers \cup {NUL}],
         UNCHANGED <<portVars, callVars, ch, sent, halted>>
  PROVE  /\ TypeOK' /\ BootInv' /\ PosInv'
         /\ c # HANDLER => HandlerInv'
         /\ pos'[c] = i /\ pc'[c] = to /\ pc[c] = from
         /\ UNCHANGED <<uart, fifo, len, kind, ch, sent, halted>>
<1> USE ConstantFacts
<1>1. UNCHANGED <<uart, fifo, len, kind, ch, sent, halted>>
  BY DEF portVars, callVars
<1>2. /\ pos' \in [Callers -> Nat] /\ pos'[c] = i
      /\ \A d \in Callers : d # c => pos'[d] = pos[d] /\ len'[d] = len[d]
  BY <1>1 DEF IInv, TypeOK
<1>3. BootInv' /\ PosInv' /\ pc' \in [Callers -> Labels]
  BY <1>1, <1>2, UserStep
<1>4. TypeOK'
  BY <1>1, <1>2, <1>3, Zenon DEF IInv, TypeOK, Labels
<1>5. c # HANDLER => HandlerInv'
  BY <1>1, OthersStep
<1>6. QED BY <1>1, <1>2, <1>3, <1>4, <1>5, UserRuns

LEMMA ClearStep == ASSUME IInv, NEW c \in Users, Clear(c) PROVE IInv'
<1> USE ConstantFacts, IndexFacts
<1> DEFINE last == pos[c] = MaxBuf - 1
           to == IF last THEN "print" ELSE "clear"
           i == IF last THEN 0 ELSE pos[c] + 1
<1>1. /\ Step(c, "clear", to) /\ to \in Labels
      /\ msg_buf' = [msg_buf EXCEPT ![pos[c]] = NUL]
      /\ pos' = [pos EXCEPT ![c] = i]
      /\ UNCHANGED <<portVars, callVars, ch, sent, halted>>
  BY DEF Clear, Labels, At
<1> HIDE DEF to
<1>2. pc[c] = "clear" /\ pc'[c] = to /\ pos[c] \in Index /\ len[c] \in Lengths
  BY <1>1, UserRuns DEF IInv, PosInv, PosOf
<1>3. i \in Nat /\ i \in Index /\ (to = "print" => i = 0)
  BY <1>2 DEF Index, to
<1> HIDE DEF i
<1>4. pos'[c] = i /\ len' = len
  BY <1>1 DEF IInv, TypeOK, callVars
<1>5. PosOf(c)'
  BY <1>2, <1>3, <1>4 DEF PosOf, to
<1>6. msg_buf' \in [Index -> Callers \cup {NUL}]
  BY <1>1 DEF IInv, TypeOK
<1>7. /\ TypeOK' /\ BootInv' /\ PosInv' /\ (c # HANDLER => HandlerInv')
      /\ UNCHANGED <<uart, fifo, len, kind, ch, sent, halted>>
  BY <1>1, <1>3, <1>5, <1>6, BuildTypes
<1>8. BufEnd'
  BY <1>1 DEF IInv, TypeOK, BufEnd
<1>9. CASE c = HANDLER
  <2>1. \A j \in Index : j < pos[c] + 1 => msg_buf'[j] = NUL
    BY <1>1, <1>2, <1>9 DEF IInv, TypeOK, HandlerInv
  <2>2. last => Holds(0)'
    BY <2>1, <1>2 DEF Holds, Index
  <2>3. sent' = Text(0) /\ kind'[HANDLER] = "panic"
    BY <1>2, <1>7, <1>9 DEF IInv, HandlerInv
  <2>4. HandlerInv'
    BY <1>2, <1>4, <1>9, <2>1, <2>2, <2>3 DEF HandlerInv, to, i
  <2>5. QED BY <1>7, <1>8, <2>4 DEF IInv
<1>10. QED BY <1>7, <1>8, <1>9 DEF IInv

LEMMA SprintfStep == ASSUME IInv, NEW c \in Users, Sprintf(c) PROVE IInv'
<1> USE ConstantFacts, IndexFacts
<1> DEFINE last == pos[c] = len[c]
           to == CASE ~last               -> "print"
                   [] last /\ c = HANDLER -> "scan"
                   [] OTHER               -> "test"
           i == IF last THEN 0 ELSE pos[c] + 1
<1>1. /\ Step(c, "print", to)
      /\ pos' = [pos EXCEPT ![c] = i]
      /\ UNCHANGED <<portVars, callVars, ch, sent, halted>>
  BY Zenon DEF Sprintf, At
<1>2. PICK ends \in BOOLEAN :
        msg_buf' = [j \in Index |->
            CASE j = pos[c] /\ ~last              -> c
              [] j = pos[c] /\ last               -> NUL
              [] j = pos[c] + 1 /\ ~last /\ ends  -> NUL
              [] OTHER                            -> msg_buf[j]]
  BY Zenon DEF Sprintf
<1>3. /\ ~last => to = "print"
      /\ last /\ c = HANDLER => to = "scan"
      /\ last /\ c # HANDLER => to = "test"
      /\ to \in Labels
  BY DEF Labels
<1> HIDE DEF to
<1>4. /\ pc[c] = "print" /\ pc'[c] = to /\ pos[c] \in Index
      /\ len[c] \in Lengths /\ pos[c] <= len[c]
  BY <1>1, <1>3, UserRuns DEF IInv, PosInv, PosOf
<1>5. i \in Nat /\ i \in Index /\ (~last => i <= len[c])
  BY <1>4 DEF Index
<1>6. /\ \A j \in Index : j = pos[c] => msg_buf'[j] = IF last THEN NUL ELSE c
      /\ \A j \in Index : j # pos[c] => msg_buf'[j] \in {NUL, msg_buf[j]}
      /\ \A j \in Index : j < pos[c] => msg_buf'[j] = msg_buf[j]
      /\ DOMAIN msg_buf' = Index
      /\ msg_buf' = [j \in Index |-> msg_buf'[j]]
  BY <1>2, <1>4
<1> HIDE DEF i, last
<1>7. pos'[c] = i /\ len' = len
  BY <1>1 DEF IInv, TypeOK, callVars
<1>8. PosOf(c)'
  BY <1>3, <1>4, <1>5, <1>7 DEF PosOf
<1>9. msg_buf' \in [Index -> Callers \cup {NUL}]
  <2>1. \A j \in Index : msg_buf'[j] \in Callers \cup {NUL}
    BY <1>6 DEF IInv, TypeOK
  <2>2. QED BY <2>1, <1>6, Zenon
<1>10. /\ TypeOK' /\ BootInv' /\ PosInv' /\ (c # HANDLER => HandlerInv')
       /\ UNCHANGED <<uart, fifo, len, kind, ch, sent, halted>>
  BY <1>1, <1>3, <1>5, <1>8, <1>9, BuildTypes
<1>11. BufEnd'
  <2>1. pos[c] = MaxBuf - 1 => last
    BY <1>4 DEF Index, last
  <2>2. QED BY <2>1, <1>6 DEF IInv, BufEnd
<1>12. CASE c = HANDLER
  <2>1. Holds(pos[c])
    BY <1>4, <1>12 DEF IInv, HandlerInv
  <2>2. sent' = Text(0) /\ kind'[HANDLER] = "panic"
    BY <1>4, <1>10, <1>12 DEF IInv, HandlerInv
  <2>3. CASE last
    <3>1. pc'[HANDLER] = "scan" /\ pos'[HANDLER] = 0 /\ len[HANDLER] \in Nat
      BY <2>3, <1>3, <1>4, <1>7, <1>12 DEF i
    <3>2. \A j \in Index : msg_buf'[j] = IF j < len[HANDLER] THEN HANDLER ELSE NUL
      BY <2>1, <2>3, <1>4, <1>6, <1>12 DEF Holds, last
    <3>3. QED BY <3>1, <3>2, <2>2, <1>7, <1>10, <1>11 DEF HandlerInv, Holds, IInv
  <2>4. CASE ~last
    <3>1. pc'[HANDLER] = "print" /\ pos'[HANDLER] = pos[HANDLER] + 1
      BY <2>4, <1>3, <1>4, <1>7, <1>12 DEF i
    <3>2. \A j \in Index : msg_buf'[j] = IF j < pos[HANDLER] + 1 THEN HANDLER ELSE NUL
      BY <2>1, <2>4, <1>4, <1>6, <1>12 DEF Holds
    <3>3. QED BY <3>1, <3>2, <2>2, <1>10, <1>11 DEF HandlerInv, Holds, IInv
  <2>5. QED BY <2>3, <2>4
<1>13. QED BY <1>10, <1>11, <1>12 DEF IInv

\* The first terminator is the one behind the handler's characters.
LEMMA HoldsCell ==
  ASSUME NEW k \in Nat, Holds(k), NEW i \in Index
  PROVE  msg_buf[i] = NUL <=> i >= k
<1> USE ConstantFacts, IndexFacts
<1>1. CASE i < k
  BY <1>1 DEF Holds
<1>2. CASE i >= k
  BY <1>2 DEF Holds
<1>3. QED BY <1>1, <1>2

LEMMA ScanStep == ASSUME IInv, Scan PROVE IInv'
<1> USE ConstantFacts, IndexFacts
<1> DEFINE p == pos[HANDLER]
           more == msg_buf[p] # NUL
           to == IF more THEN "scan" ELSE "regs"
           i == IF more THEN p + 1 ELSE p
<1>1. /\ Step(HANDLER, "scan", to) /\ to \in Labels
      /\ UNCHANGED <<portVars, callVars, ch, sent, halted>> /\ msg_buf' = msg_buf
  <2>1. Step(HANDLER, "scan", to)
    <3>1. CASE more BY <3>1 DEF Scan
    <3>2. CASE ~more BY <3>2 DEF Scan
    <3>3. QED BY <3>1, <3>2
  <2>2. QED BY <2>1 DEF Scan, Labels
<1>2. /\ pc[HANDLER] = "scan" /\ pc'[HANDLER] = to /\ p \in Index
      /\ len[HANDLER] \in Lengths
  BY <1>1, UserRuns DEF IInv, PosInv, PosOf
<1>3. /\ Holds(len[HANDLER]) /\ p <= len[HANDLER] /\ sent = Text(0)
      /\ kind[HANDLER] = "panic"
  BY <1>2 DEF IInv, HandlerInv
<1>4. IF more THEN p < len[HANDLER] ELSE p = len[HANDLER]
  <2>1. len[HANDLER] \in Nat /\ p \in Nat
    BY <1>2
  <2>2. msg_buf[p] = NUL <=> p >= len[HANDLER]
    BY <1>2, <1>3, <2>1, HoldsCell
  <2>3. QED BY <1>3, <2>1, <2>2
<1>5. pos' = [pos EXCEPT ![HANDLER] = i] /\ i \in Nat /\ i \in Index /\ i <= len[HANDLER]
  BY <1>2, <1>4 DEF Scan, At, IInv, TypeOK, Index
<1> HIDE DEF i, to, more
<1>6. pos'[HANDLER] = i /\ len' = len
  BY <1>1, <1>5 DEF IInv, TypeOK, callVars
<1>7. PosOf(HANDLER)'
  BY <1>2, <1>5, <1>6 DEF PosOf, to
<1>8. /\ TypeOK' /\ BootInv' /\ PosInv'
      /\ UNCHANGED <<uart, fifo, len, kind, ch, sent, halted>>
  <2>1. msg_buf' \in [Index -> Callers \cup {NUL}]
    BY <1>1 DEF IInv, TypeOK
  <2>2. QED BY <2>1, <1>1, <1>5, <1>7, BuildTypes
<1>9. BufEnd'
  BY <1>1 DEF IInv, BufEnd
<1>10. Holds(len[HANDLER])'
  BY <1>1, <1>3, <1>6 DEF Holds
<1>11. HandlerInv'
  BY <1>2, <1>3, <1>4, <1>5, <1>6, <1>8, <1>10 DEF HandlerInv, to, i
<1>12. QED BY <1>8, <1>9, <1>11 DEF IInv

LEMMA PrintRegsStep == ASSUME IInv, PrintRegs PROVE IInv'
<1> USE ConstantFacts, IndexFacts
<1>1. /\ Step(HANDLER, "regs", "test") /\ "test" \in Labels
      /\ pos' = [pos EXCEPT ![HANDLER] = 0]
      /\ UNCHANGED <<portVars, callVars, ch, sent, halted>>
  BY DEF PrintRegs, Labels, At
<1>2. pc[HANDLER] = "regs" /\ pc'[HANDLER] = "test" /\ len[HANDLER] \in Lengths
  BY <1>1, UserRuns DEF IInv, PosInv, PosOf
<1>3. /\ Holds(len[HANDLER]) /\ pos[HANDLER] = len[HANDLER] /\ sent = Text(0)
      /\ kind[HANDLER] = "panic"
  BY <1>2 DEF IInv, HandlerInv
<1>4. /\ \A j \in Index : msg_buf'[j] = IF j < len[HANDLER] + Regs THEN HANDLER ELSE NUL
      /\ msg_buf' = [j \in Index |-> msg_buf'[j]]
  BY <1>2, <1>3 DEF PrintRegs, Holds
<1>5. pos'[HANDLER] = 0 /\ len' = len
  BY <1>1 DEF IInv, TypeOK, callVars
<1>6. PosOf(HANDLER)'
  BY <1>2, <1>5 DEF PosOf
<1>7. msg_buf' \in [Index -> Callers \cup {NUL}]
  <2>1. \A j \in Index : msg_buf'[j] \in Callers \cup {NUL}
    BY <1>4
  <2>2. QED BY <2>1, <1>4, Zenon
<1>8. /\ TypeOK' /\ BootInv' /\ PosInv'
      /\ UNCHANGED <<uart, fifo, len, kind, ch, sent, halted>>
  BY <1>1, <1>6, <1>7, BuildTypes
<1>9. BufEnd'
  BY <1>2, <1>4 DEF BufEnd
<1>10. Holds(Total)'
  BY <1>4, <1>5 DEF Holds, Total
<1>11. HandlerInv'
  <2>1. 0 <= Total'
    BY <1>2, <1>5 DEF Total
  <2>2. QED BY <2>1, <1>2, <1>3, <1>5, <1>8, <1>10 DEF HandlerInv
<1>12. QED BY <1>8, <1>9, <1>11 DEF IInv

-----------------------------------------------------------------------------
(* serio_puts and what follows it.                                         *)

\* kinit's own use of the port, after the registers are set.
LEMMA BootStep ==
  ASSUME IInv, NEW from, NEW to \in {"idle", "test", "fetch", "poll", "out"},
         Step(BOOT, from, to), from \notin {"idle", "init"},
         NEW i \in 0 .. 1, pos' = [pos EXCEPT ![BOOT] = i], to = "fetch" => i = 0,
         fifo' \in Nat, ch' \in [Callers -> Chars],
         UNCHANGED <<uart, msg_buf, callVars, sent, halted>>
  PROVE  IInv'
<1> USE ConstantFacts
<1>1. /\ pc[BOOT] = from /\ pc'[BOOT] = to /\ pc' \in [Callers -> Labels]
      /\ \A c \in Users : pc[c] = "idle" /\ pc'[c] = "idle"
      /\ pos'[BOOT] = i /\ pos' \in [Callers -> Nat] /\ Configured
  BY DEF Step, IInv, BootInv, TypeOK, Labels
<1>2. UNCHANGED <<uart, msg_buf, len, kind, sent, halted>>
  BY DEF callVars
<1>3. TypeOK'
  BY <1>1, <1>2, Zenon DEF IInv, TypeOK, Labels
<1>4. BootInv'
  BY <1>1, <1>2 DEF BootInv, Configured
<1>5. BufEnd' /\ PosInv'
  BY <1>1, <1>2 DEF IInv, BufEnd, PosInv, PosOf
<1>6. HandlerInv'
  BY OthersStep
<1>7. QED BY <1>3, <1>4, <1>5, <1>6 DEF IInv

\* The same steps of the callers that use msg_buf.
LEMMA SendTypes ==
  ASSUME IInv, NEW c \in Users, NEW from, NEW to \in Labels, Step(c, from, to),
         NEW i \in Nat, pos' = [pos EXCEPT ![c] = i], PosOf(c)',
         fifo' \in Nat, ch' \in [Callers -> Chars], halted' \in BOOLEAN,
         UNCHANGED <<uart, msg_buf, callVars>>
  PROVE  /\ TypeOK' /\ BootInv' /\ BufEnd' /\ PosInv'
         /\ c # HANDLER /\ sent' = sent => IInv'
<1> USE ConstantFacts
<1>1. UNCHANGED <<uart, msg_buf, len, kind>>
  BY DEF callVars
<1>2. /\ pos' \in [Callers -> Nat]
      /\ \A d \in Callers : d # c => pos'[d] = pos[d] /\ len'[d] = len[d]
  BY <1>1 DEF IInv, TypeOK
<1>3. BootInv' /\ PosInv' /\ pc' \in [Callers -> Labels]
  BY <1>1, <1>2, UserStep
<1>4. TypeOK'
  BY <1>1, <1>2, <1>3, Zenon DEF IInv, TypeOK, Labels
<1>5. BufEnd'
  BY <1>1 DEF IInv, BufEnd
<1>6. c # HANDLER /\ sent' = sent => HandlerInv'
  BY OthersStep
<1>7. QED BY <1>3, <1>4, <1>5, <1>6 DEF IInv

LEMMA SamePos == ASSUME IInv, NEW c \in Callers PROVE pos = [pos EXCEPT ![c] = pos[c]]
  BY DEF IInv, TypeOK

LEMMA TestStep == ASSUME IInv, NEW c \in Callers, Test(c) PROVE IInv'
<1> USE ConstantFacts, IndexFacts
<1> DEFINE ends == Char(c, pos[c]) = NUL
           to == IF ends THEN "poll" ELSE "fetch"
<1>1. /\ Step(c, "test", to) /\ to \in Labels
      /\ ch' = IF ends THEN [ch EXCEPT ![c] = CR] ELSE ch
      /\ UNCHANGED <<uart, fifo, msg_buf, pos, callVars, sent, halted>>
  BY DEF Test, Labels, portVars
<1>2. /\ ch' \in [Callers -> Chars] /\ fifo' \in Nat /\ halted' \in BOOLEAN
      /\ pos[c] \in Nat /\ pos' = [pos EXCEPT ![c] = pos[c]]
  BY <1>1, SamePos DEF IInv, TypeOK, Chars
<1>3. CASE c = BOOT
  <2>1. pos[BOOT] \in 0 .. 1 /\ pc[BOOT] = "test"
    BY <1>1, <1>3 DEF IInv, BootInv, Step
  <2>2. to = "fetch" => pos[BOOT] = 0
    BY <2>1, <1>3 DEF Char
  <2> HIDE DEF ends
  <2>3. to \in {"idle", "test", "fetch", "poll", "out"}
    OBVIOUS
  <2> HIDE DEF to
  <2>4. QED BY <1>1, <1>2, <1>3, <2>1, <2>2, <2>3, BootStep
<1>4. CASE c # BOOT
  <2>1. /\ c \in Users /\ pc[c] = "test" /\ pc'[c] = to /\ pos[c] \in Index
        /\ len[c] \in Lengths /\ (ends <=> msg_buf[pos[c]] = NUL)
    BY <1>1, <1>4, UserRuns DEF IInv, PosInv, PosOf, Char
  <2> HIDE DEF ends
  <2>2. PosOf(c)'
    <3>1. pos'[c] = pos[c] /\ len'[c] = len[c]
      BY <1>1 DEF callVars
    <3>2. to = "fetch" => pos[c] < MaxBuf - 1
      BY <2>1 DEF IInv, BufEnd, Index
    <3>3. QED BY <3>1, <3>2, <2>1 DEF PosOf
  <2>3. /\ TypeOK' /\ BootInv' /\ BufEnd' /\ PosInv'
        /\ c # HANDLER /\ sent' = sent => IInv'
    BY <1>1, <1>2, <2>1, <2>2, SendTypes
  <2>4. CASE c = HANDLER
    <3>1. /\ sent = Text(pos[HANDLER]) /\ Holds(Total) /\ pos[HANDLER] <= Total
          /\ kind[HANDLER] = "panic" /\ Total \in Nat
      BY <2>1, <2>4 DEF IInv, HandlerInv, Total
    <3>2. UNCHANGED <<sent, msg_buf, pos, len, kind>>
      BY <1>1 DEF callVars
    <3>3. Holds(Total)' /\ Total' = Total
      BY <3>1, <3>2 DEF Holds, Total
    <3>4. IF ends THEN pos[HANDLER] = Total ELSE pos[HANDLER] < Total
      <4>1. pos[HANDLER] \in Nat /\ (ends <=> pos[HANDLER] >= Total)
        BY <2>1, <2>4, <3>1, HoldsCell
      <4>2. QED BY <3>1, <4>1
    <3>5. ends => ch'[HANDLER] = CR
      BY <1>1, <2>4 DEF IInv, TypeOK
    <3>6. HandlerInv'
      BY <2>1, <2>4, <3>1, <3>2, <3>3, <3>4, <3>5 DEF HandlerInv
    <3>7. QED BY <2>3, <3>6 DEF IInv
  <2>5. QED BY <2>3, <2>4, <1>1
<1>5. QED BY <1>3, <1>4

\* Nothing but the step changes what the handler has written.
LEMMA HandlerKept ==
  ASSUME IInv, UNCHANGED <<msg_buf, callVars>>, len[HANDLER] \in Lengths, Holds(Total)
  PROVE  /\ Holds(Total)' /\ Total' = Total /\ Total \in Nat
         /\ len' = len /\ kind' = kind
<1> USE IndexFacts DEF callVars, Total
<1>1. Total' = Total /\ Total \in Nat /\ len' = len /\ kind' = kind
  OBVIOUS
<1>2. QED BY <1>1 DEF Holds

LEMMA FetchStep == ASSUME IInv, NEW c \in Callers, Fetch(c) PROVE IInv'
<1> USE ConstantFacts, IndexFacts
<1>1. /\ Step(c, "fetch", "poll") /\ "poll" \in Labels
      /\ ch' = [ch EXCEPT ![c] = Char(c, pos[c])]
      /\ pos' = [pos EXCEPT ![c] = pos[c] + 1]
      /\ UNCHANGED <<uart, fifo, msg_buf, callVars, sent, halted>>
  BY DEF Fetch, Labels, portVars, At
<1>2. /\ fifo' \in Nat /\ halted' \in BOOLEAN
      /\ pos[c] \in Nat /\ pos'[c] = pos[c] + 1
  BY <1>1 DEF IInv, TypeOK
<1>3. CASE c = BOOT
  <2>1. pos[BOOT] = 0 /\ pc[BOOT] = "fetch"
    BY <1>1, <1>3 DEF IInv, BootInv, Step
  <2>2. ch' \in [Callers -> Chars]
    <3>1. Char(c, pos[c]) = BOOT
      BY <1>3, <2>1 DEF Char
    <3>2. QED BY <1>1, <3>1 DEF Chars, IInv, TypeOK
  <2>3. pos' = [pos EXCEPT ![BOOT] = 1]
    <3>1. pos[c] + 1 = 1 BY <1>3, <2>1
    <3>2. QED BY <1>1, <1>3, <3>1
  <2>4. QED BY <1>1, <1>2, <1>3, <2>1, <2>2, <2>3, BootStep
<1>4. CASE c # BOOT
  <2>1. /\ c \in Users /\ pc[c] = "fetch" /\ pc'[c] = "poll" /\ pos[c] \in Index
        /\ len[c] \in Lengths /\ pos[c] < MaxBuf - 1 /\ Char(c, pos[c]) = msg_buf[pos[c]]
    BY <1>1, <1>4, UserRuns DEF IInv, PosInv, PosOf, Char
  <2>2. ch' \in [Callers -> Chars] /\ ch'[c] = msg_buf[pos[c]]
    BY <1>1, <2>1 DEF Chars, IInv, TypeOK
  <2>3. PosOf(c)'
    <3>1. pos[c] + 1 \in Index /\ len' = len
      BY <1>1, <2>1 DEF Index, callVars
    <3>2. QED BY <3>1, <2>1, <1>2 DEF PosOf
  <2>4. /\ TypeOK' /\ BootInv' /\ BufEnd' /\ PosInv'
        /\ c # HANDLER /\ sent' = sent => IInv'
    <3>1. pos[c] + 1 \in Nat BY <1>2
    <3>2. QED BY <1>1, <1>2, <2>1, <2>2, <2>3, <3>1, SendTypes
  <2>5. CASE c = HANDLER
    <3>1. /\ sent = Text(pos[HANDLER]) /\ Holds(Total) /\ pos[HANDLER] < Total
          /\ kind[HANDLER] = "panic"
      BY <2>1, <2>5 DEF IInv, HandlerInv
    <3>2. /\ Holds(Total)' /\ Total' = Total /\ Total \in Nat
          /\ kind' = kind /\ sent' = sent
      BY <1>1, <2>1, <2>5, <3>1, HandlerKept
    <3>3. ch'[HANDLER] = HANDLER
      BY <2>1, <2>2, <2>5, <3>1 DEF Holds
    <3>4. /\ pos'[HANDLER] >= 1 /\ pos'[HANDLER] <= Total
          /\ pos'[HANDLER] - 1 = pos[HANDLER]
      BY <1>2, <2>5, <3>1, <3>2
    <3>5. HandlerInv'
      BY <2>1, <2>5, <3>1, <3>2, <3>3, <3>4 DEF HandlerInv
    <3>6. QED BY <2>4, <3>5 DEF IInv
  <2>6. QED BY <2>4, <2>5, <1>1
<1>5. QED BY <1>3, <1>4

LEMMA PollStep == ASSUME IInv, NEW c \in Callers, Poll(c) PROVE IInv'
<1> USE ConstantFacts, IndexFacts
<1>1. /\ Step(c, "poll", "out") /\ "out" \in Labels
      /\ UNCHANGED <<uart, fifo, msg_buf, pos, callVars, ch, sent, halted>>
  BY DEF Poll, Labels, portVars
<1>2. /\ ch' \in [Callers -> Chars] /\ fifo' \in Nat /\ halted' \in BOOLEAN
      /\ pos[c] \in Nat /\ pos' = [pos EXCEPT ![c] = pos[c]]
  BY <1>1, SamePos DEF IInv, TypeOK
<1>3. CASE c = BOOT
  <2>1. pos[BOOT] \in 0 .. 1 /\ pc[BOOT] = "poll"
    BY <1>1, <1>3 DEF IInv, BootInv, Step
  <2>2. QED BY <1>1, <1>2, <1>3, <2>1, BootStep
<1>4. CASE c # BOOT
  <2>1. /\ c \in Users /\ pc[c] = "poll" /\ pc'[c] = "out" /\ pos[c] \in Index
        /\ len[c] \in Lengths
    BY <1>1, <1>4, UserRuns DEF IInv, PosInv, PosOf
  <2>2. PosOf(c)'
    BY <1>1, <2>1 DEF PosOf, callVars
  <2>3. /\ TypeOK' /\ BootInv' /\ BufEnd' /\ PosInv'
        /\ c # HANDLER /\ sent' = sent => IInv'
    BY <1>1, <1>2, <2>1, <2>2, SendTypes
  <2>4. CASE c = HANDLER
    <3>1. Holds(Total) /\ kind[HANDLER] = "panic"
      BY <2>1, <2>4 DEF IInv, HandlerInv
    <3>2. Holds(Total)' /\ Total' = Total /\ kind' = kind
      BY <1>1, <2>1, <2>4, <3>1, HandlerKept
    <3>3. HandlerInv'
      BY <1>1, <2>1, <2>4, <3>1, <3>2 DEF IInv, HandlerInv
    <3>4. QED BY <2>3, <3>3 DEF IInv
  <2>5. QED BY <2>3, <2>4, <1>1
<1>5. QED BY <1>3, <1>4

LEMMA CharsAppend ==
  /\ \A k \in Nat : k >= 1 => Append(Text(k - 1), HANDLER) = Text(k)
  /\ \A k \in Nat : Append(Append(Text(k), CR), LF) = Text(k) \o <<CR, LF>>
<1>1. ASSUME NEW k \in Nat, k >= 1
      PROVE  Append(Text(k - 1), HANDLER) = Text(k)
  BY <1>1 DEF Text
<1>2. ASSUME NEW k \in Nat
      PROVE  Append(Append(Text(k), CR), LF) = Text(k) \o <<CR, LF>>
  BY DEF Text
<1>3. QED BY <1>1, <1>2

LEMMA OutStep == ASSUME IInv, NEW c \in Callers, Out(c) PROVE IInv'
<1> USE ConstantFacts, IndexFacts
<1> DEFINE to == CASE ch[c] = CR -> "poll"
                   [] ch[c] = LF -> IF c = BOOT THEN "idle" ELSE "show"
                   [] OTHER      -> "test"
           i == IF ch[c] = LF THEN 0 ELSE pos[c]
<1>1. /\ Step(c, "out", to)
      /\ fifo' = fifo + 1
      /\ ch' = IF ch[c] = CR THEN [ch EXCEPT ![c] = LF] ELSE ch
      /\ sent' = IF c = HANDLER THEN Append(sent, ch[c]) ELSE sent
      /\ UNCHANGED <<uart, msg_buf, callVars, halted>>
  BY Zenon DEF Out
<1>2. /\ ch[c] = CR => to = "poll"
      /\ ch[c] = LF => to = IF c = BOOT THEN "idle" ELSE "show"
      /\ ch[c] # CR /\ ch[c] # LF => to = "test"
  OBVIOUS
<1>3. to \in Labels /\ to # "fetch" /\ to # "print" /\ to # "init"
  BY <1>2 DEF Labels
<1> HIDE DEF to
<1>4. pos' = [pos EXCEPT ![c] = i] /\ pos[c] \in Nat /\ i \in Nat
  <2>1. CASE ch[c] = LF BY <2>1 DEF Out, IInv, TypeOK
  <2>2. CASE ch[c] # LF BY <2>2, SamePos DEF Out, IInv, TypeOK
  <2>3. QED BY <2>1, <2>2
<1>5. /\ ch' \in [Callers -> Chars] /\ fifo' \in Nat /\ halted' \in BOOLEAN
      /\ pos'[c] = i
  BY <1>1, <1>4 DEF IInv, TypeOK, Chars
<1>6. CASE c = BOOT
  <2>1. pos[BOOT] \in 0 .. 1 /\ pc[BOOT] = "out" /\ i \in 0 .. 1
    BY <1>1, <1>6 DEF IInv, BootInv, Step
  <2>2. to \in {"idle", "test", "fetch", "poll", "out"}
    BY <1>2, <1>6
  <2>3. UNCHANGED <<uart, msg_buf, callVars, sent, halted>>
    BY <1>1, <1>6
  <2> HIDE DEF i
  <2>4. QED BY <1>1, <1>3, <1>4, <1>5, <1>6, <2>1, <2>2, <2>3, BootStep
<1>7. CASE c # BOOT
  <2>1. /\ c \in Users /\ pc[c] = "out" /\ pc'[c] = to /\ pos[c] \in Index
        /\ len[c] \in Lengths
    BY <1>1, <1>3, <1>7, UserRuns DEF IInv, PosInv, PosOf
  <2>2. PosOf(c)'
    <3>1. i \in Index /\ len' = len /\ to \notin {"scan", "regs"}
      BY <1>1, <1>2, <2>1 DEF callVars
    <3>2. QED BY <1>3, <1>5, <2>1, <3>1 DEF PosOf
  <2>3. /\ TypeOK' /\ BootInv' /\ BufEnd' /\ PosInv'
        /\ c # HANDLER /\ sent' = sent => IInv'
    <3> HIDE DEF i
    <3>1. QED BY <1>1, <1>3, <1>4, <1>5, <2>1, <2>2, SendTypes
  <2>4. CASE c = HANDLER
    <3>1. /\ Holds(Total) /\ kind[HANDLER] = "panic" /\ pos[HANDLER] <= Total
          /\ \/ ch[HANDLER] = HANDLER /\ pos[HANDLER] >= 1 /\ sent = Text(pos[HANDLER] - 1)
             \/ ch[HANDLER] = CR /\ pos[HANDLER] = Total /\ sent = Text(Total)
             \/ /\ ch[HANDLER] = LF /\ pos[HANDLER] = Total
                /\ sent = Append(Text(Total), CR)
      BY <2>1, <2>4 DEF IInv, HandlerInv
    <3>2. /\ Holds(Total)' /\ Total' = Total /\ kind' = kind /\ Total \in Nat
          /\ sent' = Append(sent, ch[HANDLER])
      BY <1>1, <2>1, <2>4, <3>1, HandlerKept
    <3>3. CASE ch[HANDLER] = HANDLER
      <4>1. /\ pc'[HANDLER] = "test" /\ pos'[HANDLER] = pos[HANDLER]
            /\ sent' = Text(pos[HANDLER])
        BY <1>2, <1>4, <1>5, <2>1, <2>4, <3>1, <3>2, <3>3, CharsAppend
      <4>2. QED BY <4>1, <3>1, <3>2, <2>3 DEF HandlerInv, IInv
    <3>4. CASE ch[HANDLER] = CR
      <4>1. /\ pc'[HANDLER] = "poll" /\ pos'[HANDLER] = Total /\ ch'[HANDLER] = LF
            /\ sent' = Append(Text(Total), CR)
        BY <1>1, <1>2, <1>5, <2>1, <2>4, <3>1, <3>2, <3>4 DEF IInv, TypeOK
      <4>2. QED BY <4>1, <3>1, <3>2, <2>3 DEF HandlerInv, IInv
    <3>5. CASE ch[HANDLER] = LF
      <4>1. pc'[HANDLER] = "show" /\ sent' = Text(Total) \o <<CR, LF>>
        BY <1>2, <1>7, <2>1, <2>4, <3>1, <3>2, <3>5, CharsAppend
      <4>2. QED BY <4>1, <3>1, <3>2, <2>3 DEF HandlerInv, IInv
    <3>6. QED BY <3>1, <3>3, <3>4, <3>5
  <2>5. QED BY <2>3, <2>4, <1>1
<1>8. QED BY <1>6, <1>7

LEMMA ShowStep == ASSUME IInv, NEW c \in Users, Show(c) PROVE IInv'
<1> USE ConstantFacts, IndexFacts
<1> DEFINE ends == msg_buf[pos[c]] = NUL
           to == CASE ~ends                     -> "show"
                   [] ends /\ kind[c] = "panic" -> "halt"
                   [] OTHER                     -> "idle"
           i == IF ends THEN 0 ELSE pos[c] + 1
<1>1. /\ Step(c, "show", to) /\ pos' = [pos EXCEPT ![c] = i]
      /\ UNCHANGED <<uart, fifo, msg_buf, callVars, ch, sent, halted>>
  BY Zenon DEF Show, At, portVars
<1>2. /\ to \in {"show", "halt", "idle"} /\ to \in Labels
      /\ kind[c] = "panic" => to \in {"show", "halt"}
  BY DEF Labels
<1> HIDE DEF to
<1>3. pc[c] = "show" /\ pc'[c] = to /\ pos[c] \in Index /\ len[c] \in Lengths
  BY <1>1, <1>2, UserRuns DEF IInv, PosInv, PosOf
<1>4. i \in Index
  BY <1>3 DEF IInv, BufEnd, Index
<1> HIDE DEF i
<1>5. /\ fifo' \in Nat /\ ch' \in [Callers -> Chars] /\ halted' \in BOOLEAN
      /\ pos'[c] = i
  BY <1>1 DEF IInv, TypeOK
<1>6. PosOf(c)'
  BY <1>1, <1>2, <1>3, <1>4, <1>5 DEF PosOf, callVars
<1>7. /\ TypeOK' /\ BootInv' /\ BufEnd' /\ PosInv'
      /\ c # HANDLER /\ sent' = sent => IInv'
  BY <1>1, <1>2, <1>4, <1>5, <1>6, SendTypes
<1>8. CASE c = HANDLER
  <2>1. sent = Text(Total) \o <<CR, LF>> /\ kind[HANDLER] = "panic"
    BY <1>3, <1>8 DEF IInv, HandlerInv
  <2>2. Total' = Total /\ kind' = kind /\ sent' = sent
    BY <1>1 DEF Total, callVars
  <2>3. pc'[HANDLER] \in {"show", "halt"}
    BY <1>2, <1>3, <1>8, <2>1
  <2>4. HandlerInv'
    BY <2>1, <2>2, <2>3 DEF HandlerInv
  <2>5. QED BY <2>4, <1>7 DEF IInv
<1>9. QED BY <1>1, <1>7, <1>8

LEMMA HaltStep == ASSUME IInv, NEW c \in Users, Halt(c) PROVE IInv'
<1> USE ConstantFacts, IndexFacts
<1>1. /\ Step(c, "halt", "halt") /\ "halt" \in Labels /\ halted' = TRUE
      /\ UNCHANGED <<uart, fifo, msg_buf, pos, callVars, ch, sent>>
  BY DEF Halt, Labels, portVars
<1>2. pc[c] = "halt" /\ pc'[c] = "halt" /\ pos[c] \in Index /\ len[c] \in Lengths
  BY <1>1, UserRuns DEF IInv, PosInv, PosOf
<1>3. /\ fifo' \in Nat /\ ch' \in [Callers -> Chars] /\ halted' \in BOOLEAN
      /\ pos[c] \in Nat /\ pos' = [pos EXCEPT ![c] = pos[c]]
  BY <1>1, SamePos DEF IInv, TypeOK
<1>4. PosOf(c)'
  BY <1>1, <1>2 DEF PosOf, callVars
<1>5. /\ TypeOK' /\ BootInv' /\ BufEnd' /\ PosInv'
      /\ c # HANDLER /\ sent' = sent => IInv'
  BY <1>1, <1>3, <1>4, SendTypes
<1>6. CASE c = HANDLER
  <2>1. Total' = Total /\ kind' = kind /\ sent' = sent
    BY <1>1 DEF Total, callVars
  <2>2. HandlerInv'
    BY <1>2, <1>6, <2>1 DEF IInv, HandlerInv
  <2>3. QED BY <2>2, <1>5 DEF IInv
<1>7. QED BY <1>1, <1>5, <1>6

LEMMA DrainStep == ASSUME IInv, Drain PROVE IInv'
<1>1. /\ fifo > 0 /\ fifo' = fifo - 1
      /\ UNCHANGED <<uart, msg_buf, pc, pos, len, kind, ch, sent, halted>>
  BY DEF Drain, callVars
<1>2. TypeOK'
  <2>1. fifo' \in Nat BY <1>1 DEF IInv, TypeOK
  <2>2. QED BY <1>1, <2>1, Zenon DEF IInv, TypeOK
<1>3. BootInv' /\ BufEnd' /\ PosInv' /\ HandlerInv'
  <2>1. pc[BOOT] # "init"
    BY <1>1 DEF IInv, BootInv
  <2>2. BootInv'
    BY <1>1, <2>1 DEF IInv, BootInv, Configured
  <2>3. BufEnd' /\ PosInv'
    BY <1>1 DEF IInv, BufEnd, PosInv, PosOf
  <2>4. HandlerInv'
    BY <1>1 DEF IInv, HandlerInv, Holds, Total
  <2>5. QED BY <2>2, <2>3, <2>4
<1>4. QED BY <1>2, <1>3 DEF IInv

\* kinit never gets to the steps that only users of msg_buf take.
LEMMA OnlyUsers ==
  ASSUME IInv, NEW c \in Callers, pc[c] \in {"clear", "print", "show", "halt"}
  PROVE  c \in Users
  BY ConstantFacts DEF IInv, BootInv

LEMMA NextIInv == ASSUME IInv, [Next]_vars PROVE IInv'
<1>1. CASE SerioInit BY <1>1, SerioInitStep
<1>2. CASE Drain BY <1>2, DrainStep
<1>3. ASSUME NEW c \in Callers, Advance(c) PROVE IInv'
  <2>1. CASE Clear(c)
    <3>1. c \in Users BY <2>1, OnlyUsers DEF Clear, Step
    <3>2. QED BY <2>1, <3>1, ClearStep
  <2>2. CASE Sprintf(c)
    <3>1. c \in Users BY <2>2, OnlyUsers DEF Sprintf, Step
    <3>2. QED BY <2>2, <3>1, SprintfStep
  <2>3. CASE Scan BY <2>3, ScanStep
  <2>4. CASE PrintRegs BY <2>4, PrintRegsStep
  <2>5. CASE Test(c) BY <2>5, TestStep
  <2>6. CASE Fetch(c) BY <2>6, FetchStep
  <2>7. CASE Poll(c) BY <2>7, PollStep
  <2>8. CASE Out(c) BY <2>8, OutStep
  <2>9. CASE Show(c)
    <3>1. c \in Users BY <2>9, OnlyUsers DEF Show, Step
    <3>2. QED BY <2>9, <3>1, ShowStep
  <2>10. CASE Halt(c)
    <3>1. c \in Users BY <2>10, OnlyUsers DEF Halt, Step
    <3>2. QED BY <2>10, <3>1, HaltStep
  <2>11. QED
    BY <1>3, <2>1, <2>2, <2>3, <2>4, <2>5, <2>6, <2>7, <2>8, <2>9, <2>10
    DEF Advance, Build, Send
<1>4. ASSUME NEW c \in Callers, NEW k \in {"panic", "worry"}, NEW n \in Lengths,
             Call(c, k, n)
      PROVE  IInv'
  BY <1>4, CallStep
<1>5. CASE UNCHANGED vars
  <2>1. UNCHANGED <<uart, fifo, msg_buf, pc, pos, len, kind, ch, sent, halted>>
    BY <1>5 DEF vars, portVars, callVars
  <2>2. TypeOK'
    BY <2>1, Zenon DEF IInv, TypeOK
  <2>3. BootInv' /\ BufEnd' /\ PosInv'
    BY <2>1 DEF IInv, BootInv, UartAfter, Configured, BufEnd, PosInv, PosOf
  <2>4. HandlerInv'
    BY <2>1 DEF IInv, HandlerInv, Holds, Total
  <2>5. QED BY <2>2, <2>3, <2>4 DEF IInv
<1>6. QED BY <1>1, <1>2, <1>3, <1>4, <1>5 DEF Next

\* The inductive invariant of panic, worry and the serial port holds for any
\* number of tasks, any message lengths that fit and any buffer.
THEOREM PanicInvariance == Spec => []IInv
<1>1. Init => IInv BY InitIInv
<1>2. IInv /\ [Next]_vars => IInv' BY NextIInv
<1>3. QED BY <1>1, <1>2, PTL DEF Spec

\* Every variable of the panic path keeps its type.
THEOREM PanicTypeCorrect == Spec => []TypeOK
<1>1. IInv => TypeOK BY DEF IInv
<1>2. QED BY <1>1, PanicInvariance, PTL

\* No caller of panic or worry reads or writes outside msg_buf, even when
\* another overwrites the terminator it is heading for: the last byte of the
\* buffer is a terminator at all times.
THEOREM StaysInside == Spec => []InsideBuffer
<1>1. IInv => InsideBuffer
  BY DEF IInv, PosInv, PosOf, InsideBuffer, Users
<1>2. QED BY <1>1, PanicInvariance, PTL

\* The message of an exception, registers included, is sent as it was
\* written, whatever the tasks were doing with msg_buf when it was taken.
THEOREM ExceptionIntact == Spec => []PanicIntact
<1>1. IInv => PanicIntact
  BY DEF IInv, HandlerInv, PanicIntact, Text, Total
<1>2. QED BY <1>1, PanicInvariance, PTL

-----------------------------------------------------------------------------
(* The transmit buffer.                                                    *)

\* The callers that have seen the port empty and have not sent yet.
Committed == {c \in Callers : pc[c] = "out"}

\* What is in the buffer and what is still to come fits: every task and a
\* handler may have seen the port empty, each of them once.
FifoInv == fifo + Cardinality(Committed) <= Cardinality(Tasks) + 1

LEMMA CommittedFinite ==
  ASSUME NEW at, at[BOOT] = "idle" \/ \A u \in Users : at[u] = "idle",
         NEW C, C = {c \in Callers : at[c] = "out"}
  PROVE  /\ IsFiniteSet(C) /\ Cardinality(C) \in Nat
         /\ Cardinality(C) <= Cardinality(Tasks) + 1
         /\ Cardinality(Tasks) \in Nat
<1> USE ConstantFacts, FifoAssumption, CallersAssumption
<1>1. IsFiniteSet(Users) /\ Cardinality(Users) = Cardinality(Tasks) + 1
  BY FS_AddElement DEF Users
<1>2. Cardinality(Tasks) \in Nat
  BY FS_CardinalityType
<1>3. CASE at[BOOT] = "idle"
  <2>1. C \subseteq Users
    BY <1>3
  <2>2. QED BY <1>1, <1>2, <2>1, FS_Subset, FS_CardinalityType
<1>4. CASE \A u \in Users : at[u] = "idle"
  <2>1. C \subseteq {BOOT}
    BY <1>4
  <2>2. IsFiniteSet({BOOT}) /\ Cardinality({BOOT}) = 1
    BY FS_Singleton
  <2>3. QED BY <1>2, <2>1, <2>2, FS_Subset, FS_CardinalityType
<1>5. QED BY <1>3, <1>4

LEMMA FifoStep == ASSUME IInv, FifoInv, IInv', [Next]_vars PROVE FifoInv'
<1> USE ConstantFacts
<1>1. /\ IsFiniteSet(Committed) /\ Cardinality(Committed) \in Nat
      /\ Cardinality(Committed') \in Nat
      /\ Cardinality(Committed') <= Cardinality(Tasks) + 1 /\ Cardinality(Tasks) \in Nat
      /\ fifo \in Nat /\ fifo' \in Nat /\ pc \in [Callers -> Labels]
  <2>1. pc[BOOT] = "idle" \/ \A u \in Users : pc[u] = "idle"
    BY DEF IInv, BootInv
  <2>2. pc'[BOOT] = "idle" \/ \A u \in Users : pc'[u] = "idle"
    BY DEF IInv, BootInv
  <2>3. IsFiniteSet(Committed) /\ Cardinality(Committed) \in Nat
    BY <2>1, CommittedFinite DEF Committed
  <2>4. /\ Cardinality(Committed') \in Nat
        /\ Cardinality(Committed') <= Cardinality(Tasks) + 1 /\ Cardinality(Tasks) \in Nat
    BY <2>2, CommittedFinite DEF Committed
  <2>5. QED BY <2>3, <2>4 DEF IInv, TypeOK, Labels
<1>2. ASSUME fifo' = fifo, Committed' = Committed PROVE FifoInv'
  BY <1>2 DEF FifoInv
<1>3. CASE Drain
  <2>1. Committed' = Committed /\ fifo' = fifo - 1
    BY <1>3 DEF Drain, Committed
  <2>2. QED BY <1>1, <2>1 DEF FifoInv
<1>4. ASSUME NEW c \in Callers, Poll(c) PROVE FifoInv'
  BY <1>1, <1>4 DEF Poll, portVars, FifoInv
<1>5. ASSUME NEW c \in Callers, Out(c) PROVE FifoInv'
  <2>1. c \in Committed /\ Committed' = Committed \ {c} /\ fifo' = fifo + 1
    <3>1. pc[c] = "out" /\ fifo' = fifo + 1 BY <1>5 DEF Out, Step
    <3> DEFINE to == CASE ch[c] = CR -> "poll"
                       [] ch[c] = LF -> IF c = BOOT THEN "idle" ELSE "show"
                       [] OTHER      -> "test"
    <3>2. pc' = [pc EXCEPT ![c] = to]
      BY <1>5, Zenon DEF Out, Step
    <3>3. to # "out"
      OBVIOUS
    <3> HIDE DEF to
    <3>4. QED BY <1>1, <3>1, <3>2, <3>3 DEF Committed
  <2>2. Cardinality(Committed') = Cardinality(Committed) - 1
    <3>1. \A S, x : IsFiniteSet(S) /\ x \in S =>
            Cardinality(S \ {x}) = Cardinality(S) - 1
      BY FS_RemoveElement
    <3>2. QED BY <1>1, <2>1, <3>1
  <2>3. QED BY <1>1, <2>1, <2>2 DEF FifoInv
<1>6. ASSUME NEW c \in Callers, NEW from, NEW to, Step(c, from, to),
             from # "out", to # "out", fifo' = fifo
      PROVE  FifoInv'
  BY <1>1, <1>2, <1>6 DEF Step, Committed
<1>7. CASE SerioInit BY <1>6, <1>7 DEF SerioInit
<1>8. ASSUME NEW c \in Callers, NEW k \in {"panic", "worry"}, NEW n \in Lengths,
             Call(c, k, n)
      PROVE  FifoInv'
  BY <1>6, <1>8 DEF Call, portVars
<1>9. ASSUME NEW c \in Callers, Build(c) PROVE FifoInv'
  <2>1. CASE Clear(c) BY <1>6, <2>1 DEF Clear, portVars
  <2>2. CASE Sprintf(c) BY <1>6, <2>2 DEF Sprintf, portVars
  <2>3. CASE Scan BY <1>6, <2>3 DEF Scan, portVars
  <2>4. CASE PrintRegs BY <1>6, <2>4 DEF PrintRegs, portVars
  <2>5. QED BY <1>9, <2>1, <2>2, <2>3, <2>4 DEF Build
<1>10. ASSUME NEW c \in Callers, Test(c) \/ Fetch(c) PROVE FifoInv'
  <2>1. CASE Test(c) BY <1>6, <2>1 DEF Test, portVars
  <2>2. CASE Fetch(c) BY <1>6, <2>2 DEF Fetch, portVars
  <2>3. QED BY <1>10, <2>1, <2>2
<1>11. ASSUME NEW c \in Callers, Show(c) \/ Halt(c) PROVE FifoInv'
  <2>1. CASE Show(c) BY <1>6, <2>1 DEF Show, portVars
  <2>2. CASE Halt(c) BY <1>6, <2>2 DEF Halt, portVars
  <2>3. QED BY <1>11, <2>1, <2>2
<1>12. CASE UNCHANGED vars
  BY <1>2, <1>12 DEF vars, portVars, Committed
<1>13. QED
  BY <1>3, <1>4, <1>5, <1>7, <1>8, <1>9, <1>10, <1>11, <1>12 DEF Next, Advance, Send

\* After serio_init the port stays as it was set up, and no byte is lost for
\* want of room, although all tasks and a handler may see it empty at once.
THEOREM PortStaysUsable == Spec => []PortUsable
<1>1. Init => FifoInv
  <2>1. ASSUME Init PROVE Committed = {} /\ fifo = 0
    BY <2>1 DEF Init, Committed
  <2>2. Cardinality({}) = 0 /\ Cardinality(Tasks) \in Nat
    BY FS_EmptySet, FS_CardinalityType, FifoAssumption
  <2>3. QED BY <2>1, <2>2 DEF FifoInv
<1>2. IInv /\ FifoInv /\ IInv' /\ [Next]_vars => FifoInv'
  BY FifoStep
<1>3. IInv /\ FifoInv => PortUsable
  <2> SUFFICES ASSUME IInv, FifoInv PROVE PortUsable
    OBVIOUS
  <2>1. CASE pc[BOOT] = "init"
    <3>1. fifo = 0 BY <2>1 DEF IInv, BootInv
    <3>2. QED BY <2>1, <3>1, FifoAssumption DEF PortUsable, Capacity
  <2>2. CASE pc[BOOT] # "init"
    <3>1. Configured BY <2>2 DEF IInv, BootInv
    <3>2. Capacity = FifoSize BY <3>1 DEF Configured, Capacity
    <3>3. fifo <= FifoSize
      <4>1. pc[BOOT] = "idle" \/ \A u \in Users : pc[u] = "idle"
        BY DEF IInv, BootInv
      <4>2. Cardinality(Committed) \in Nat /\ Cardinality(Tasks) \in Nat
        BY <4>1, CommittedFinite DEF Committed
      <4>3. QED BY <4>2, FifoAssumption DEF FifoInv, IInv, TypeOK
    <3>4. QED BY <3>1, <3>2, <3>3 DEF PortUsable, Configured
  <2>3. QED BY <2>1, <2>2
<1>4. QED BY <1>1, <1>2, <1>3, PanicInvariance, PTL DEF Spec

=============================================================================
