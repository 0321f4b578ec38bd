-------------------------- MODULE InterruptsProofs --------------------------
(***************************************************************************)
(* The way of an interrupt through the PICs, the gates, the stubs and the  *)
(* handler table, and back to the thread that it interrupted or another    *)
(* one, for any set of devices and exceptions.                             *)
(***************************************************************************)
EXTENDS Interrupts, SequenceTheorems, TLAPS

-----------------------------------------------------------------------------
(* The frame.                                                              *)

\* Where struct thread_context has its fields.
Place == [gs |-> 1, fs |-> 2, es |-> 3, ds |-> 4, edi |-> 5, esi |-> 6, ebp |-> 7,
          ebx |-> 9, edx |-> 10, ecx |-> 11, eax |-> 12, eip |-> 15, cs |-> 16,
          eflags |-> 17]

\* A saved state of thread t: 17 words, every register in its place.
FrameOf(t, s) ==
    /\ Len(s) = 17
    /\ \A r \in Registers : s[Place[r]] = Live(t)[r]

LEMMA ContextFacts ==
  /\ DOMAIN Context = 1 .. 19 /\ Len(Context) = 19
  /\ Context[1] = "gs" /\ Context[2] = "fs" /\ Context[3] = "es" /\ Context[4] = "ds"
  /\ Context[5] = "edi" /\ Context[6] = "esi" /\ Context[7] = "ebp" /\ Context[8] = "esp"
  /\ Context[9] = "ebx" /\ Context[10] = "edx" /\ Context[11] = "ecx"
  /\ Context[12] = "eax" /\ Context[13] = "int_num" /\ Context[14] = "error_code"
  /\ Context[15] = "eip" /\ Context[16] = "cs" /\ Context[17] = "eflags"
  /\ Context[18] = "user_esp" /\ Context[19] = "user_ss"
  BY DEF Context

LEMMA PlaceFacts ==
  /\ \A r \in Registers : Place[r] \in 1 .. 17 /\ Context[Place[r]] = r
  /\ \A i \in 1 .. 19, j \in 1 .. 19 : Context[i] = Context[j] => i = j
<1>1. ASSUME NEW r \in Registers PROVE Place[r] \in 1 .. 17 /\ Context[Place[r]] = r
  BY ContextFacts DEF Place, Registers, SegmentRegs
<1>2. ASSUME NEW i \in 1 .. 19, NEW j \in 1 .. 19, Context[i] = Context[j] PROVE i = j
  BY <1>2, ContextFacts
<1>3. QED BY <1>1, <1>2

LEMMA FieldIs ==
  /\ \A s : \A r \in Registers : Field(s, r) = s[Place[r]]
  /\ \A s : Field(s, "int_num") = s[13]
<1>1. ASSUME NEW r, NEW n \in 1 .. 19, Context[n] = r
      PROVE  (CHOOSE i \in DOMAIN Context : Context[i] = r) = n
  <2>1. n \in DOMAIN Context BY ContextFacts
  <2>2. \A i \in DOMAIN Context : Context[i] = r => i = n
    BY <1>1, PlaceFacts, ContextFacts
  <2>3. QED BY <1>1, <2>1, <2>2, Zenon
<1>2. ASSUME NEW s, NEW r \in Registers PROVE Field(s, r) = s[Place[r]]
  <2>1. Place[r] \in 1 .. 19 /\ Context[Place[r]] = r BY PlaceFacts
  <2>2. (CHOOSE i \in DOMAIN Context : Context[i] = r) = Place[r] BY <1>1, <2>1
  <2>3. QED BY <2>2 DEF Field
<1>3. \A s : Field(s, "int_num") = s[13]
  BY <1>1, ContextFacts DEF Field
<1>4. QED BY <1>2, <1>3

\* z is x with y behind it.
Joins(z, x, y) ==
    /\ Len(z) = Len(x) + Len(y)
    /\ \A i \in 1 .. Len(x) : z[i] = x[i]
    /\ \A i \in 1 .. Len(y) : z[Len(x) + i] = y[i]

LEMMA ConcatIs ==
  ASSUME NEW S, NEW x \in Seq(S), NEW y \in Seq(S)
  PROVE  x \o y \in Seq(S) /\ Joins(x \o y, x, y)
<1>1. /\ x \o y \in Seq(S) /\ Len(x \o y) = Len(x) + Len(y)
      /\ \A i \in 1 .. Len(x) + Len(y) :
            (x \o y)[i] = IF i <= Len(x) THEN x[i] ELSE y[i - Len(x)]
  BY ConcatProperties
<1>2. Len(x) \in Nat /\ Len(y) \in Nat OBVIOUS
<1>3. PICK m \in Nat, n \in Nat : m = Len(x) /\ n = Len(y) BY <1>2
<1>4. ASSUME NEW i \in 1 .. n PROVE (x \o y)[m + i] = y[i]
  <2>1. m + i \in 1 .. m + n /\ ~(m + i <= m) /\ (m + i) - m = i OBVIOUS
  <2>2. QED BY <1>1, <1>3, <2>1
<1>5. QED BY <1>1, <1>3, <1>4 DEF Joins

LEMMA StubFacts ==
  ASSUME NEW v \in Vectors, v # 17
  PROVE  /\ StubNumber(Idt[v]) = v
         /\ HasErrorStub(Idt[v]) <=> PushesError(v)
<1>1. CASE IsIrqVector(v)
  <2>1. Idt[v] = <<"irq", v - FIRST_IRQ_INT>>
    BY <1>1 DEF Idt
  <2>2. QED BY <1>1, <2>1
        DEF StubNumber, HasErrorStub, PushesError, FIRST_IRQ_INT, IsIrqVector, NUM_IRQS, Vectors
<1>2. CASE ~IsIrqVector(v)
  <2>1. Idt[v] = <<"isr", v>>
    BY <1>2 DEF Idt
  <2>2. QED BY <1>2, <2>1 DEF StubNumber, HasErrorStub, PushesError, Vectors
<1>3. QED BY <1>1, <1>2

\* What the CPU and the stubs push has the layout of struct thread_context,
\* with and without an error code of the CPU.
LEMMA EnteredIs ==
  ASSUME NEW v \in Vectors, v # 17, NEW t, NEW regs, regs = Live(t)
  PROVE  /\ FrameOf(t, Entered(v, regs, <<>>))
         /\ Entered(v, regs, <<>>)[13] = Number(v)
<1> DEFINE S == {regs[r] : r \in Registers} \cup
                {<<"cpu", "esp">>, <<"cpu", "error_code">>, <<"stub", "error_code">>, Number(v)}
           a == SavedFrame(regs, <<"cpu", "esp">>)
           b == StubFrame(Idt[v])
           c == CpuFrame(regs, v)
<1>1. /\ \A r \in Registers : regs[r] \in S
      /\ <<"cpu", "esp">> \in S /\ <<"cpu", "error_code">> \in S
      /\ <<"stub", "error_code">> \in S /\ Number(v) \in S
  OBVIOUS
<1> HIDE DEF S
<1>2. /\ a \in Seq(S) /\ Len(a) = 12
      /\ \A r \in Registers \ {"eip", "cs", "eflags"} :
            Place[r] \in 1 .. 12 /\ a[Place[r]] = regs[r]
  <2>1. a \in Seq(S) /\ Len(a) = 12
    BY <1>1 DEF SavedFrame, Registers, SegmentRegs
  <2>2. \A r \in Registers \ {"eip", "cs", "eflags"} :
            Place[r] \in 1 .. 12 /\ a[Place[r]] = regs[r]
    BY DEF SavedFrame, Registers, SegmentRegs, Place
  <2>3. QED BY <2>1, <2>2
<1>3. /\ b \in Seq(S) /\ Len(b) \in 1 .. 2 /\ b[1] = Number(v)
      /\ PushesError(v) <=> Len(b) = 1
  <2>1. <<Number(v)>> \in Seq(S) /\ Len(<<Number(v)>>) = 1 /\ <<Number(v)>>[1] = Number(v)
    BY <1>1
  <2>2. << <<"stub", "error_code">> >> \in Seq(S) /\ Len(<< <<"stub", "error_code">> >>) = 1
    BY <1>1
  <2>3. CASE PushesError(v)
    <3>1. b = <<Number(v)>> \o <<>> BY <2>3, StubFacts DEF StubFrame
    <3>2. b = <<Number(v)>> BY <2>1, <3>1, ConcatEmptySeq
    <3>3. QED BY <2>1, <2>3, <3>2
  <2>4. CASE ~PushesError(v)
    <3>1. b = <<Number(v)>> \o << <<"stub", "error_code">> >>
      BY <2>4, StubFacts DEF StubFrame
    <3>2. b \in Seq(S) /\ Len(b) = 2 /\ b[1] = Number(v)
      BY <2>1, <2>2, <3>1, ConcatProperties
    <3>3. QED BY <2>4, <3>2
  <2>5. QED BY <2>3, <2>4
<1>4. /\ c \in Seq(S) /\ Len(c) = 5 - Len(b)
      /\ c[3 - Len(b)] = regs["eip"] /\ c[4 - Len(b)] = regs["cs"]
      /\ c[5 - Len(b)] = regs["eflags"]
  <2> DEFINE d == <<regs["eip"], regs["cs"], regs["eflags"]>>
             e == << <<"cpu", "error_code">> >>
  <2>1. /\ d \in Seq(S) /\ Len(d) = 3 /\ d[1] = regs["eip"] /\ d[2] = regs["cs"]
        /\ d[3] = regs["eflags"]
    BY <1>1 DEF Registers
  <2>2. e \in Seq(S) /\ Len(e) = 1
    BY <1>1
  <2>3. CASE PushesError(v)
    <3>1. c = e \o d BY <2>3 DEF CpuFrame
    <3> HIDE DEF d, e
    <3> HIDE DEF c
    <3>2. c \in Seq(S) /\ Joins(c, e, d)
      BY <2>1, <2>2, <3>1, ConcatIs, Zenon
    <3>3. /\ Len(c) = 4
          /\ c[1 + 1] = d[1] /\ c[1 + 2] = d[2] /\ c[1 + 3] = d[3]
      BY <2>1, <2>2, <3>2 DEF Joins
    <3>4. Len(b) = 1 BY <1>3, <2>3
    <3> HIDE DEF b
    <3>5. QED BY <2>1, <3>2, <3>3, <3>4
  <2>4. CASE ~PushesError(v)
    <3>1. c = <<>> \o d BY <2>4 DEF CpuFrame
    <3> HIDE DEF d, e
    <3>2. c = d BY <2>1, <3>1, ConcatEmptySeq
    <3>3. Len(b) = 2 BY <1>3, <2>4
    <3>4. QED BY <2>1, <3>2, <3>3
  <2>5. QED BY <2>3, <2>4
<1>5. Entered(v, regs, <<>>) = ((a \o b) \o c) \o <<>>
  BY DEF Entered
<1> HIDE DEF a, b, c
<1>6. /\ a \o b \in Seq(S) /\ Len(a \o b) = 12 + Len(b)
      /\ \A i \in 1 .. 12 : (a \o b)[i] = a[i]
      /\ (a \o b)[13] = b[1]
  <2>1. a \o b \in Seq(S) /\ Joins(a \o b, a, b)
    BY <1>2, <1>3, ConcatIs, Zenon
  <2>2. (a \o b)[12 + 1] = b[1] BY <1>2, <1>3, <2>1 DEF Joins
  <2>3. QED BY <1>2, <1>3, <2>1, <2>2 DEF Joins
<1>7. PICK f \in Seq(S) : f = (a \o b) \o c
  BY <1>4, <1>6, ConcatIs, Zenon
<1>k. PICK k \in 1 .. 2 : k = Len(b) BY <1>3, Zenon
<1>8. /\ Len(f) = 17
      /\ \A i \in 1 .. 12 : f[i] = a[i]
      /\ f[13] = b[1]
      /\ f[15] = c[3 - k] /\ f[16] = c[4 - k] /\ f[17] = c[5 - k]
  <2>1. Len(a \o b) = 12 + k /\ Len(c) = 5 - k BY <1>4, <1>6, <1>k, Zenon
  <2>2. Joins(f, a \o b, c)
    BY <1>4, <1>6, <1>7, ConcatIs, Zenon
  <2>3. /\ Len(f) = (12 + k) + (5 - k)
        /\ \A i \in 1 .. (12 + k) : f[i] = (a \o b)[i]
        /\ \A i \in 1 .. (5 - k) : f[(12 + k) + i] = c[i]
    BY <2>1, <2>2 DEF Joins
  <2>4. /\ f[(12 + k) + (3 - k)] = c[3 - k] /\ f[(12 + k) + (4 - k)] = c[4 - k]
        /\ f[(12 + k) + (5 - k)] = c[5 - k]
    BY <2>3
  <2>5. f[15] = c[3 - k] /\ f[16] = c[4 - k] /\ f[17] = c[5 - k]
    BY <2>4
  <2>6. f[13] = (a \o b)[13] /\ \A i \in 1 .. 12 : f[i] = (a \o b)[i]
    <3>1. 13 \in 1 .. (12 + k) /\ \A i \in 1 .. 12 : i \in 1 .. (12 + k) OBVIOUS
    <3>2. QED BY <2>3, <3>1, Zenon
  <2>7. \A i \in 1 .. 12 : f[i] = a[i] BY <1>6, <2>6, Zenon
  <2>8. f[13] = b[1] BY <1>6, <2>6, Zenon
  <2>9. Len(f) = 17
    <3>1. (12 + k) + (5 - k) = 17 OBVIOUS
    <3>2. QED BY <2>3, <3>1, Zenon
  <2>10. QED BY <2>5, <2>7, <2>8, <2>9, Zenon
<1>9. Entered(v, regs, <<>>) = f
  BY <1>5, <1>7, ConcatEmptySeq
<1>10. ASSUME NEW r \in Registers PROVE f[Place[r]] = Live(t)[r]
  <2>1. CASE r \in {"eip", "cs", "eflags"}
    <3>1. /\ c[3 - k] = regs["eip"] /\ c[4 - k] = regs["cs"]
          /\ c[5 - k] = regs["eflags"]
      BY <1>4, <1>k, Zenon
    <3>2. f[15] = regs["eip"] /\ f[16] = regs["cs"] /\ f[17] = regs["eflags"]
      BY <1>8, <3>1, Zenon
    <3>3. Place["eip"] = 15 /\ Place["cs"] = 16 /\ Place["eflags"] = 17 BY DEF Place
    <3>4. QED BY <2>1, <3>2, <3>3, Zenon
  <2>2. CASE r \notin {"eip", "cs", "eflags"}
    BY <1>2, <1>8, <2>2
  <2>3. QED BY <2>1, <2>2
<1>11. QED BY <1>3, <1>8, <1>9, <1>10 DEF FrameOf

-----------------------------------------------------------------------------
(* Back from the frame to the registers.                                   *)

\* iret and the pops before it give a thread the registers of its frame.
LEMMA ResumedIs ==
  ASSUME NEW t, NEW s, FrameOf(t, s)
  PROVE  Resumed(s) = Live(t)
<1>1. ASSUME NEW r \in Registers PROVE Resumed(s)[r] = s[Place[r]]
  BY DEF Resumed, Place, Registers, SegmentRegs
<1>2. ASSUME NEW r \in Registers PROVE Resumed(s)[r] = Live(t)[r]
  BY <1>1 DEF FrameOf
<1>3. QED BY <1>2 DEF Resumed, Live

\* The new contexts of init_system_task and spawn_init.
LEMMA NewContextIs ==
  ASSUME NEW t
  PROVE  /\ \A r \in Registers : NewContext(t)[Place[r]] = Live(t)[r]
         /\ DOMAIN NewContext(t) = 1 .. 19
<1>1. ASSUME NEW r \in Registers PROVE NewContext(t)[Place[r]] = Live(t)[r]
  <2>1. Place[r] \in DOMAIN Context /\ Context[Place[r]] = r
    BY PlaceFacts, ContextFacts
  <2>2. QED BY <2>1 DEF NewContext
<1>2. QED BY <1>1, ContextFacts DEF NewContext

LEMMA BootstrappedIs == Bootstrapped(NewContext(SYSTEM)) = Live(SYSTEM)
<1>1. "eip" \in Registers /\ "cs" \in Registers BY DEF Registers
<1>2. Place["eip"] = 15 /\ Place["cs"] = 16 BY DEF Place
<1>3. /\ NewContext(SYSTEM)[15] = Live(SYSTEM)["eip"]
      /\ NewContext(SYSTEM)[16] = Live(SYSTEM)["cs"]
  BY <1>1, <1>2, NewContextIs
<1>4. WordAt(NewContext(SYSTEM), 56) = NewContext(SYSTEM)[15]
  BY DEF WordAt
<1>5. WordAt(NewContext(SYSTEM), 60) = NewContext(SYSTEM)[16]
  BY DEF WordAt
<1>6. QED BY <1>3, <1>4, <1>5 DEF Bootstrapped, Live

LEMMA SpawnedIs == FrameOf(INIT_TASK, Spawned)
<1> DEFINE c == NewContext(INIT_TASK)
           S == {c[i] : i \in 1 .. 17}
<1>1. Spawned = SubSeq(c, 1, 17) BY ContextFacts DEF Spawned
<1>2. \A i \in 1 .. 17 : c[i] \in S OBVIOUS
<1> HIDE DEF c, S
<1>3. Len(SubSeq(c, 1, 17)) = 17 /\ \A i \in 1 .. 17 : SubSeq(c, 1, 17)[i] = c[i]
  <2>1. /\ Len(SubSeq(c, 1, 17)) = 17
        /\ \A i \in 1 .. 17 - 1 + 1 : SubSeq(c, 1, 17)[i] = c[1 + i - 1]
    BY <1>2, SubSeqProperties
  <2>2. QED BY <2>1
<1>4. ASSUME NEW r \in Registers PROVE Spawned[Place[r]] = Live(INIT_TASK)[r]
  BY <1>1, <1>3, PlaceFacts, NewContextIs DEF c
<1>5. QED BY <1>1, <1>3, <1>4 DEF FrameOf

\* Nothing is left of a frame that has been popped.
LEMMA PoppedIs == ASSUME NEW s, Len(s) = 17 PROVE SubSeq(s, Popped + 1, Len(s)) = <<>>
<1>1. SubSeq(s, 18, 17) = <<>> BY SubSeqEmpty
<1>2. Popped + 1 = 18 BY DEF Popped
<1>3. QED BY <1>1, <1>2

\* The kernel's selectors name flat segments.
LEMMA SegmentsFlat ==
  ASSUME NEW t
  PROVE  /\ IsFlat(Live(t)["cs"][2], TRUE)
         /\ \A r \in SegmentRegs : IsFlat(Live(t)[r][2], FALSE)
<1>1. IsFlat(8, TRUE)
  BY DEF IsFlat, Gdt, SetGdtGate, GDT_KERN_CODE, SEL_PRESENT, GDT_NOT_TSS, GDT_CODE, GDT_RW
<1>2. IsFlat(16, FALSE)
  BY DEF IsFlat, Gdt, SetGdtGate, GDT_KERN_DATA, SEL_PRESENT, GDT_NOT_TSS, GDT_RW
<1>3. Live(t)["cs"] = Sel(8)
  BY DEF Live, Registers, SegmentRegs, KERN_CODE_SELECTOR
<1>4. \A r \in SegmentRegs : Live(t)[r] = Sel(16)
  BY DEF Live, Registers, SegmentRegs, KERN_DATA_SELECTOR
<1>5. Sel(8)[2] = 8 /\ Sel(16)[2] = 16 BY DEF Sel
<1>6. QED BY <1>1, <1>2, <1>3, <1>4, <1>5

-----------------------------------------------------------------------------
(* The vectors of the PICs.                                                *)

\* The PIC after the writes of remap_pic is the end of the chain of its states.
LEMMA ProgrammedIs ==
  ASSUME NEW cmd, NEW data, NEW s, s[0] = Firmware,
         \A n \in 1 .. 10 : s[n] = PicWrite(s[n - 1], RemapWrites[n], cmd, data)
  PROVE  Programmed(cmd, data) = s[10]
<1>1. Len(RemapWrites) = 10 BY DEF RemapWrites
<1> DEFINE IsAfter(f) ==
             f = [n \in 0 .. Len(RemapWrites) |->
                    IF n = 0 THEN Firmware
                    ELSE PicWrite(f[n - 1], RemapWrites[n], cmd, data)]
           g == [n \in 0 .. 10 |-> s[n]]
           after == CHOOSE f : IsAfter(f)
<1>2. IsAfter(g) BY <1>1
<1>3. IsAfter(after) BY <1>2, Zenon
<1>4. Programmed(cmd, data) = after[10] BY <1>1 DEF Programmed
<1> HIDE DEF g, after
<1>5. after[0] = s[0] BY <1>1, <1>3
<1>6. \A n \in 1 .. 10 : after[n] = PicWrite(after[n - 1], RemapWrites[n], cmd, data)
  BY <1>1, <1>3
<1> HIDE DEF IsAfter
<1>7. after[1] = s[1] BY <1>5, <1>6
<1>8. after[2] = s[2] BY <1>7, <1>6
<1>9. after[3] = s[3] BY <1>8, <1>6
<1>10. after[4] = s[4] BY <1>9, <1>6
<1>11. after[5] = s[5] BY <1>10, <1>6
<1>12. after[6] = s[6] BY <1>11, <1>6
<1>13. after[7] = s[7] BY <1>12, <1>6
<1>14. after[8] = s[8] BY <1>13, <1>6
<1>15. after[9] = s[9] BY <1>14, <1>6
<1>16. after[10] = s[10] BY <1>15, <1>6
<1>17. QED BY <1>4, <1>16

Pic(e, b, c, m) == [expects |-> e, base |-> b, cascade |-> c, mask |-> m]

\* The initialisation of a PIC, word by word.
LEMMA InitWords ==
  ASSUME NEW b, NEW c
  PROVE  /\ PicOutb(Firmware, FALSE, 17) = Pic(2, 8, 0, {})
         /\ PicOutb(Pic(2, 8, 0, {}), TRUE, b) = Pic(3, b, 0, {})
         /\ PicOutb(Pic(3, b, 0, {}), TRUE, c) = Pic(4, b, c, {})
         /\ PicOutb(Pic(4, b, c, {}), TRUE, 1) = Pic(0, b, c, {})
<1>1. PicOutb(Firmware, FALSE, 17) = Pic(2, 8, 0, {})
  BY DEF PicOutb, Firmware, Pic
<1>2. PicOutb(Pic(2, 8, 0, {}), TRUE, b) = Pic(3, b, 0, {})
  <2>1. Pic(2, 8, 0, {}).expects = 2 BY DEF Pic
  <2>2. PicOutb(Pic(2, 8, 0, {}), TRUE, b)
          = [Pic(2, 8, 0, {}) EXCEPT !.expects = 3, !.base = b]
    BY <2>1 DEF PicOutb
  <2>3. QED BY <2>2 DEF Pic
<1>3. PicOutb(Pic(3, b, 0, {}), TRUE, c) = Pic(4, b, c, {})
  <2>1. Pic(3, b, 0, {}).expects = 3 BY DEF Pic
  <2>2. PicOutb(Pic(3, b, 0, {}), TRUE, c)
          = [Pic(3, b, 0, {}) EXCEPT !.expects = 4, !.cascade = c]
    BY <2>1 DEF PicOutb
  <2>3. QED BY <2>2 DEF Pic
<1>4. PicOutb(Pic(4, b, c, {}), TRUE, 1) = Pic(0, b, c, {})
  BY DEF PicOutb, Pic
<1>5. QED BY <1>1, <1>2, <1>3, <1>4

LEMMA MaskWord ==
  ASSUME NEW b, NEW c, NEW w
  PROVE  PicOutb(Pic(0, b, c, {}), TRUE, w) = Pic(0, b, c, Bits(w))
  BY DEF PicOutb, Pic

LEMMA WordsIs ==
  /\ RemapWrites[3][2] = 32 /\ RemapWrites[4][2] = 40 /\ RemapWrites[5][2] = 4
  /\ RemapWrites[6][2] = 2 /\ RemapWrites[7][2] = 1 /\ RemapWrites[8][2] = 1
  /\ RemapWrites[9][2] = 251 /\ RemapWrites[10][2] = 255
  BY DEF RemapWrites

\* The writes reach the PICs in turn.
LEMMA WritesIs ==
  ASSUME NEW p
  PROVE  /\ PicWrite(p, RemapWrites[1], 32, 33) = PicOutb(p, FALSE, 17)
         /\ PicWrite(p, RemapWrites[2], 160, 161) = PicOutb(p, FALSE, 17)
         /\ \A n \in {3, 5, 7, 9} :
               PicWrite(p, RemapWrites[n], 32, 33) = PicOutb(p, TRUE, RemapWrites[n][2])
         /\ \A n \in {4, 6, 8, 10} :
               PicWrite(p, RemapWrites[n], 160, 161) = PicOutb(p, TRUE, RemapWrites[n][2])
         /\ \A n \in {2, 4, 6, 8, 10} : PicWrite(p, RemapWrites[n], 32, 33) = p
         /\ \A n \in {1, 3, 5, 7, 9} : PicWrite(p, RemapWrites[n], 160, 161) = p
<1>1. \A n \in {3, 5, 7, 9} : RemapWrites[n][1] = 33
  BY DEF RemapWrites, PIC_MASTER_DATA
<1>2. \A n \in {4, 6, 8, 10} : RemapWrites[n][1] = 161
  BY DEF RemapWrites, PIC_SLAVE_DATA
<1>3. RemapWrites[1] = <<32, 17>> /\ RemapWrites[2] = <<160, 17>>
  BY DEF RemapWrites, PIC_MASTER_CMD, PIC_SLAVE_CMD
<1>5. /\ RemapWrites[1][1] = 32 /\ RemapWrites[1][2] = 17
      /\ RemapWrites[2][1] = 160 /\ RemapWrites[2][2] = 17
  BY <1>3
<1>6. /\ PicWrite(p, RemapWrites[1], 32, 33) = PicOutb(p, FALSE, 17)
      /\ PicWrite(p, RemapWrites[2], 160, 161) = PicOutb(p, FALSE, 17)
  <2>1. (RemapWrites[1][1] = 33) = FALSE /\ (RemapWrites[2][1] = 161) = FALSE
    BY <1>5
  <2>2. RemapWrites[1][1] \in {32, 33} /\ RemapWrites[2][1] \in {160, 161}
    BY <1>5
  <2>3. QED BY <1>5, <2>1, <2>2, Zenon DEF PicWrite
<1>7. ASSUME NEW n \in {3, 5, 7, 9}
      PROVE  PicWrite(p, RemapWrites[n], 32, 33) = PicOutb(p, TRUE, RemapWrites[n][2])
  BY <1>1 DEF PicWrite
<1>8. ASSUME NEW n \in {4, 6, 8, 10}
      PROVE  PicWrite(p, RemapWrites[n], 160, 161) = PicOutb(p, TRUE, RemapWrites[n][2])
  BY <1>2 DEF PicWrite
<1>9. ASSUME NEW n \in {2, 4, 6, 8, 10} PROVE PicWrite(p, RemapWrites[n], 32, 33) = p
  BY <1>2, <1>5 DEF PicWrite
<1>10. ASSUME NEW n \in {1, 3, 5, 7, 9} PROVE PicWrite(p, RemapWrites[n], 160, 161) = p
  BY <1>1, <1>5 DEF PicWrite
<1>11. QED BY <1>6, <1>7, <1>8, <1>9, <1>10

LEMMA MasterIs == PicMaster = Pic(0, 32, 4, Bits(251))
<1> DEFINE s == [n \in 0 .. 10 |->
                   IF n = 0 THEN Firmware
                   ELSE IF n <= 2 THEN Pic(2, 8, 0, {})
                   ELSE IF n <= 4 THEN Pic(3, 32, 0, {})
                   ELSE IF n <= 6 THEN Pic(4, 32, 4, {})
                   ELSE IF n <= 8 THEN Pic(0, 32, 4, {})
                   ELSE Pic(0, 32, 4, Bits(251))]
<1>0. /\ s[0] = Firmware
      /\ s[1] = Pic(2, 8, 0, {})
      /\ s[2] = Pic(2, 8, 0, {})
      /\ s[3] = Pic(3, 32, 0, {})
      /\ s[4] = Pic(3, 32, 0, {})
      /\ s[5] = Pic(4, 32, 4, {})
      /\ s[6] = Pic(4, 32, 4, {})
      /\ s[7] = Pic(0, 32, 4, {})
      /\ s[8] = Pic(0, 32, 4, {})
      /\ s[9] = Pic(0, 32, 4, Bits(251))
      /\ s[10] = Pic(0, 32, 4, Bits(251))
  OBVIOUS
<1> HIDE DEF s
<1>1. ASSUME NEW n \in 1 .. 10
      PROVE  s[n] = PicWrite(s[n - 1], RemapWrites[n], 32, 33)
  <2>1. CASE n = 1
    <3>b. PicWrite(Firmware, RemapWrites[1], 32, 33) = PicOutb(Firmware, FALSE, 17)
      BY WritesIs
    <3>1. PicWrite(Firmware, RemapWrites[1], 32, 33) = Pic(2, 8, 0, {})
      BY <3>b, InitWords, Zenon
    <3>2. s[n] = Pic(2, 8, 0, {}) /\ s[n - 1] = Firmware BY <1>0, <2>1
    <3>3. QED BY <2>1, <3>1, <3>2
  <2>2. CASE n = 2
    <3>1. PicWrite(Pic(2, 8, 0, {}), RemapWrites[2], 32, 33) = Pic(2, 8, 0, {})
      BY WritesIs
    <3>2. s[n] = Pic(2, 8, 0, {}) /\ s[n - 1] = Pic(2, 8, 0, {}) BY <1>0, <2>2
    <3>3. QED BY <2>2, <3>1, <3>2
  <2>3. CASE n = 3
    <3>a. PicWrite(Pic(2, 8, 0, {}), RemapWrites[3], 32, 33)
          = PicOutb(Pic(2, 8, 0, {}), TRUE, RemapWrites[3][2])
      BY WritesIs, Zenon
    <3>b. PicWrite(Pic(2, 8, 0, {}), RemapWrites[3], 32, 33)
          = PicOutb(Pic(2, 8, 0, {}), TRUE, 32)
      BY <3>a, WordsIs, Zenon
    <3>1. PicWrite(Pic(2, 8, 0, {}), RemapWrites[3], 32, 33) = Pic(3, 32, 0, {})
      BY <3>b, InitWords, Zenon
    <3>2. s[n] = Pic(3, 32, 0, {}) /\ s[n - 1] = Pic(2, 8, 0, {}) BY <1>0, <2>3
    <3>3. QED BY <2>3, <3>1, <3>2
  <2>4. CASE n = 4
    <3>1. PicWrite(Pic(3, 32, 0, {}), RemapWrites[4], 32, 33) = Pic(3, 32, 0, {})
      BY WritesIs
    <3>2. s[n] = Pic(3, 32, 0, {}) /\ s[n - 1] = Pic(3, 32, 0, {}) BY <1>0, <2>4
    <3>3. QED BY <2>4, <3>1, <3>2
  <2>5. CASE n = 5
    <3>a. PicWrite(Pic(3, 32, 0, {}), RemapWrites[5], 32, 33)
          = PicOutb(Pic(3, 32, 0, {}), TRUE, RemapWrites[5][2])
      BY WritesIs, Zenon
    <3>b. PicWrite(Pic(3, 32, 0, {}), RemapWrites[5], 32, 33)
          = PicOutb(Pic(3, 32, 0, {}), TRUE, 4)
      BY <3>a, WordsIs, Zenon
    <3>1. PicWrite(Pic(3, 32, 0, {}), RemapWrites[5], 32, 33) = Pic(4, 32, 4, {})
      BY <3>b, InitWords, Zenon
    <3>2. s[n] = Pic(4, 32, 4, {}) /\ s[n - 1] = Pic(3, 32, 0, {}) BY <1>0, <2>5
    <3>3. QED BY <2>5, <3>1, <3>2
  <2>6. CASE n = 6
    <3>1. PicWrite(Pic(4, 32, 4, {}), RemapWrites[6], 32, 33) = Pic(4, 32, 4, {})
      BY WritesIs
    <3>2. s[n] = Pic(4, 32, 4, {}) /\ s[n - 1] = Pic(4, 32, 4, {}) BY <1>0, <2>6
    <3>3. QED BY <2>6, <3>1, <3>2
  <2>7. CASE n = 7
    <3>a. PicWrite(Pic(4, 32, 4, {}), RemapWrites[7], 32, 33)
          = PicOutb(Pic(4, 32, 4, {}), TRUE, RemapWrites[7][2])
      BY WritesIs, Zenon
    <3>b. PicWrite(Pic(4, 32, 4, {}), RemapWrites[7], 32, 33)
          = PicOutb(Pic(4, 32, 4, {}), TRUE, 1)
      BY <3>a, WordsIs, Zenon
    <3>1. PicWrite(Pic(4, 32, 4, {}), RemapWrites[7], 32, 33) = Pic(0, 32, 4, {})
      BY <3>b, InitWords, Zenon
    <3>2. s[n] = Pic(0, 32, 4, {}) /\ s[n - 1] = Pic(4, 32, 4, {}) BY <1>0, <2>7
    <3>3. QED BY <2>7, <3>1, <3>2
  <2>8. CASE n = 8
    <3>1. PicWrite(Pic(0, 32, 4, {}), RemapWrites[8], 32, 33) = Pic(0, 32, 4, {})
      BY WritesIs
    <3>2. s[n] = Pic(0, 32, 4, {}) /\ s[n - 1] = Pic(0, 32, 4, {}) BY <1>0, <2>8
    <3>3. QED BY <2>8, <3>1, <3>2
  <2>9. CASE n = 9
    <3>a. PicWrite(Pic(0, 32, 4, {}), RemapWrites[9], 32, 33)
          = PicOutb(Pic(0, 32, 4, {}), TRUE, RemapWrites[9][2])
      BY WritesIs, Zenon
    <3>b. PicWrite(Pic(0, 32, 4, {}), RemapWrites[9], 32, 33)
          = PicOutb(Pic(0, 32, 4, {}), TRUE, 251)
      BY <3>a, WordsIs, Zenon
    <3>1. PicWrite(Pic(0, 32, 4, {}), RemapWrites[9], 32, 33) = Pic(0, 32, 4, Bits(251))
      BY <3>b, MaskWord, Zenon
    <3>2. s[n] = Pic(0, 32, 4, Bits(251)) /\ s[n - 1] = Pic(0, 32, 4, {}) BY <1>0, <2>9
    <3>3. QED BY <2>9, <3>1, <3>2
  <2>10. CASE n = 10
    <3>1. PicWrite(Pic(0, 32, 4, Bits(251)), RemapWrites[10], 32, 33) = Pic(0, 32, 4, Bits(251))
      BY WritesIs
    <3>2. s[n] = Pic(0, 32, 4, Bits(251)) /\ s[n - 1] = Pic(0, 32, 4, Bits(251)) BY <1>0, <2>10
    <3>3. QED BY <2>10, <3>1, <3>2
  <2>11. QED BY <2>1, <2>2, <2>3, <2>4, <2>5, <2>6, <2>7, <2>8, <2>9, <2>10
<1>2. s[0] = Firmware /\ s[10] = Pic(0, 32, 4, Bits(251)) BY <1>0
<1>3. Programmed(32, 33) = s[10] BY <1>1, <1>2, ProgrammedIs
<1>4. QED BY <1>2, <1>3 DEF PicMaster, PIC_MASTER_CMD, PIC_MASTER_DATA

LEMMA SlaveIs == PicSlave = Pic(0, 40, 2, Bits(255))
<1> DEFINE s == [n \in 0 .. 10 |->
                   IF n <= 1 THEN Firmware
                   ELSE IF n <= 3 THEN Pic(2, 8, 0, {})
                   ELSE IF n <= 5 THEN Pic(3, 40, 0, {})
                   ELSE IF n <= 7 THEN Pic(4, 40, 2, {})
                   ELSE IF n <= 9 THEN Pic(0, 40, 2, {})
                   ELSE Pic(0, 40, 2, Bits(255))]
<1>0. /\ s[0] = Firmware
      /\ s[1] = Firmware
      /\ s[2] = Pic(2, 8, 0, {})
      /\ s[3] = Pic(2, 8, 0, {})
      /\ s[4] = Pic(3, 40, 0, {})
      /\ s[5] = Pic(3, 40, 0, {})
      /\ s[6] = Pic(4, 40, 2, {})
      /\ s[7] = Pic(4, 40, 2, {})
      /\ s[8] = Pic(0, 40, 2, {})
      /\ s[9] = Pic(0, 40, 2, {})
      /\ s[10] = Pic(0, 40, 2, Bits(255))
  OBVIOUS
<1> HIDE DEF s
<1>1. ASSUME NEW n \in 1 .. 10
      PROVE  s[n] = PicWrite(s[n - 1], RemapWrites[n], 160, 161)
  <2>1. CASE n = 1
    <3>1. PicWrite(Firmware, RemapWrites[1], 160, 161) = Firmware
      BY WritesIs
    <3>2. s[n] = Firmware /\ s[n - 1] = Firmware BY <1>0, <2>1
    <3>3. QED BY <2>1, <3>1, <3>2
  <2>2. CASE n = 2
    <3>b. PicWrite(Firmware, RemapWrites[2], 160, 161) = PicOutb(Firmware, FALSE, 17)
      BY WritesIs
    <3>1. PicWrite(Firmware, RemapWrites[2], 160, 161) = Pic(2, 8, 0, {})
      BY <3>b, InitWords, Zenon
    <3>2. s[n] = Pic(2, 8, 0, {}) /\ s[n - 1] = Firmware BY <1>0, <2>2
    <3>3. QED BY <2>2, <3>1, <3>2
  <2>3. CASE n = 3
    <3>1. PicWrite(Pic(2, 8, 0, {}), RemapWrites[3], 160, 161) = Pic(2, 8, 0, {})
      BY WritesIs
    <3>2. s[n] = Pic(2, 8, 0, {}) /\ s[n - 1] = Pic(2, 8, 0, {}) BY <1>0, <2>3
    <3>3. QED BY <2>3, <3>1, <3>2
  <2>4. CASE n = 4
    <3>a. PicWrite(Pic(2, 8, 0, {}), RemapWrites[4], 160, 161)
          = PicOutb(Pic(2, 8, 0, {}), TRUE, RemapWrites[4][2])
      BY WritesIs, Zenon
    <3>b. PicWrite(Pic(2, 8, 0, {}), RemapWrites[4], 160, 161)
          = PicOutb(Pic(2, 8, 0, {}), TRUE, 40)
      BY <3>a, WordsIs, Zenon
    <3>1. PicWrite(Pic(2, 8, 0, {}), RemapWrites[4], 160, 161) = Pic(3, 40, 0, {})
      BY <3>b, InitWords, Zenon
    <3>2. s[n] = Pic(3, 40, 0, {}) /\ s[n - 1] = Pic(2, 8, 0, {}) BY <1>0, <2>4
    <3>3. QED BY <2>4, <3>1, <3>2
  <2>5. CASE n = 5
    <3>1. PicWrite(Pic(3, 40, 0, {}), RemapWrites[5], 160, 161) = Pic(3, 40, 0, {})
      BY WritesIs
    <3>2. s[n] = Pic(3, 40, 0, {}) /\ s[n - 1] = Pic(3, 40, 0, {}) BY <1>0, <2>5
    <3>3. QED BY <2>5, <3>1, <3>2
  <2>6. CASE n = 6
    <3>a. PicWrite(Pic(3, 40, 0, {}), RemapWrites[6], 160, 161)
          = PicOutb(Pic(3, 40, 0, {}), TRUE, RemapWrites[6][2])
      BY WritesIs, Zenon
    <3>b. PicWrite(Pic(3, 40, 0, {}), RemapWrites[6], 160, 161)
          = PicOutb(Pic(3, 40, 0, {}), TRUE, 2)
      BY <3>a, WordsIs, Zenon
    <3>1. PicWrite(Pic(3, 40, 0, {}), RemapWrites[6], 160, 161) = Pic(4, 40, 2, {})
      BY <3>b, InitWords, Zenon
    <3>2. s[n] = Pic(4, 40, 2, {}) /\ s[n - 1] = Pic(3, 40, 0, {}) BY <1>0, <2>6
    <3>3. QED BY <2>6, <3>1, <3>2
  <2>7. CASE n = 7
    <3>1. PicWrite(Pic(4, 40, 2, {}), RemapWrites[7], 160, 161) = Pic(4, 40, 2, {})
      BY WritesIs
    <3>2. s[n] = Pic(4, 40, 2, {}) /\ s[n - 1] = Pic(4, 40, 2, {}) BY <1>0, <2>7
    <3>3. QED BY <2>7, <3>1, <3>2
  <2>8. CASE n = 8
    <3>a. PicWrite(Pic(4, 40, 2, {}), RemapWrites[8], 160, 161)
          = PicOutb(Pic(4, 40, 2, {}), TRUE, RemapWrites[8][2])
      BY WritesIs, Zenon
    <3>b. PicWrite(Pic(4, 40, 2, {}), RemapWrites[8], 160, 161)
          = PicOutb(Pic(4, 40, 2, {}), TRUE, 1)
      BY <3>a, WordsIs, Zenon
    <3>1. PicWrite(Pic(4, 40, 2, {}), RemapWrites[8], 160, 161) = Pic(0, 40, 2, {})
      BY <3>b, InitWords, Zenon
    <3>2. s[n] = Pic(0, 40, 2, {}) /\ s[n - 1] = Pic(4, 40, 2, {}) BY <1>0, <2>8
    <3>3. QED BY <2>8, <3>1, <3>2
  <2>9. CASE n = 9
    <3>1. PicWrite(Pic(0, 40, 2, {}), RemapWrites[9], 160, 161) = Pic(0, 40, 2, {})
      BY WritesIs
    <3>2. s[n] = Pic(0, 40, 2, {}) /\ s[n - 1] = Pic(0, 40, 2, {}) BY <1>0, <2>9
    <3>3. QED BY <2>9, <3>1, <3>2
  <2>10. CASE n = 10
    <3>a. PicWrite(Pic(0, 40, 2, {}), RemapWrites[10], 160, 161)
          = PicOutb(Pic(0, 40, 2, {}), TRUE, RemapWrites[10][2])
      BY WritesIs, Zenon
    <3>b. PicWrite(Pic(0, 40, 2, {}), RemapWrites[10], 160, 161)
          = PicOutb(Pic(0, 40, 2, {}), TRUE, 255)
      BY <3>a, WordsIs, Zenon
    <3>1. PicWrite(Pic(0, 40, 2, {}), RemapWrites[10], 160, 161) = Pic(0, 40, 2, Bits(255))
      BY <3>b, MaskWord, Zenon
    <3>2. s[n] = Pic(0, 40, 2, Bits(255)) /\ s[n - 1] = Pic(0, 40, 2, {}) BY <1>0, <2>10
    <3>3. QED BY <2>10, <3>1, <3>2
  <2>11. QED BY <2>1, <2>2, <2>3, <2>4, <2>5, <2>6, <2>7, <2>8, <2>9, <2>10
<1>2. s[0] = Firmware /\ s[10] = Pic(0, 40, 2, Bits(255)) BY <1>0
<1>3. Programmed(160, 161) = s[10] BY <1>1, <1>2, ProgrammedIs
<1>4. QED BY <1>2, <1>3 DEF PicSlave, PIC_SLAVE_CMD, PIC_SLAVE_DATA

\* IRQ i arrives as vector 32 + i, on the master and on the slave.
LEMMA VectorIs == \A i \in 0 .. 15 : VectorOf(i) = FIRST_IRQ_INT + i
<1>1. PicMaster.base = 32 /\ PicSlave.base = 40 BY MasterIs, SlaveIs DEF Pic
<1>2. QED BY <1>1 DEF VectorOf, FIRST_IRQ_INT

-----------------------------------------------------------------------------
(* The inductive invariant.                                                *)

Names == {"irq_int_handler", "syscall_int_handler", "unexpected_int_handler",
          "page_fault_int_handler"}

\* The table keeps irq_int_handler and syscall_int_handler where int_init has
\* put them, and the lists hold what has been registered.
TablesInv ==
    /\ table \in [Vectors -> Names]
    /\ \A v \in Vectors : (table[v] = "irq_int_handler") <=> IsIrqVector(v)
    /\ table[INT_SYSCALL_INTERRUPT] = "syscall_int_handler"
    /\ registered \in [Irqs -> Seq(Handlers)]
    /\ \A i \in Irqs : Len(registered[i]) <= MaxHandlers
    /\ list = registered

\* What lies on the stack of a thread is its own frame; kmain has the machine
\* to itself, and never gets it back.
StacksInv ==
    /\ current \in Threads
    /\ stack = [t \in Threads |-> stack[t]]
    /\ \A t \in Threads : stack[t] = <<>> \/ FrameOf(t, stack[t])
    /\ IF current = BOOT THEN stack[SYSTEM] = <<>> /\ stack[INIT_TASK] = <<>>
       ELSE stack[BOOT] = <<>>

IdleInv ==
    vector = NULL =>
        /\ isrMaster = {} /\ isrSlave = {}
        /\ cpu = Live(current)
        /\ stack[current] = <<>>
        /\ node = <<>>

\* The handlers of IRQ i are running, and the PICs have only it in service.
ServesIrq(i) ==
    /\ cause = <<"irq", i>> /\ vector = FIRST_IRQ_INT + i
    /\ isrMaster = {Line(i)}
    /\ isrSlave = IF i >= 8 THEN {i} ELSE {}
    /\ ran \in Seq(Handlers) /\ node \in Seq(Handlers)
    /\ Joins(registered[i], ran, node)
    /\ ~panicked

\* The handler of an exception or of the system call is running.
ServesVector(v) ==
    /\ cause = <<"vector", v>> /\ vector = v
    /\ isrMaster = {} /\ isrSlave = {}
    /\ node = <<>>
    /\ panicked => v \in Exceptions

BusyInv ==
    vector # NULL =>
        /\ FrameOf(current, stack[current])
        /\ stack[current][13] = Number(vector)
        /\ \/ \E i \in Irqs : ServesIrq(i)
           \/ \E v \in Exceptions \cup {INT_SYSCALL_INTERRUPT} : ServesVector(v)

IInv == TablesInv /\ StacksInv /\ IdleInv /\ BusyInv

-----------------------------------------------------------------------------
(* The steps.                                                              *)

LEMMA NumberIs == \A n : Number(n)[2] = n
  BY DEF Number

LEMMA MinSingle == ASSUME NEW x \in Int PROVE Min({x}) = x
  BY DEF Min

\* The empty sequence is no frame.
LEMMA FrameNotEmpty == \A t, s : FrameOf(t, s) => s # <<>>
  BY EmptySeq DEF FrameOf

LEMMA InitIInv == Init => IInv
<1> SUFFICES ASSUME Init PROVE IInv
  OBVIOUS
<1>1. TablesInv
  <2>1. ASSUME NEW v \in Vectors
        PROVE  /\ table[v] = Default(v) /\ Default(v) \in Names
               /\ (Default(v) = "irq_int_handler") <=> IsIrqVector(v)
    <3>1. table[v] = Default(v) BY DEF Init
    <3>2. CASE IsIrqVector(v)
      <4>1. v # INT_SYSCALL_INTERRUPT
        BY <3>2 DEF IsIrqVector, FIRST_IRQ_INT, NUM_IRQS, INT_SYSCALL_INTERRUPT
      <4>2. Default(v) = "irq_int_handler" BY <3>2, <4>1 DEF Default
      <4>3. QED BY <3>1, <3>2, <4>2 DEF Names
    <3>3. CASE ~IsIrqVector(v) /\ v = INT_SYSCALL_INTERRUPT
      <4>1. Default(v) = "syscall_int_handler" BY <3>3 DEF Default
      <4>2. QED BY <3>1, <3>3, <4>1 DEF Names
    <3>4. CASE ~IsIrqVector(v) /\ v # INT_SYSCALL_INTERRUPT
      <4>1. Default(v) = "unexpected_int_handler" BY <3>4 DEF Default
      <4>2. QED BY <3>1, <3>4, <4>1 DEF Names
    <3>5. QED BY <3>2, <3>3, <3>4
  <2>2. table[INT_SYSCALL_INTERRUPT] = "syscall_int_handler"
    <3>1. INT_SYSCALL_INTERRUPT \in Vectors /\ ~IsIrqVector(INT_SYSCALL_INTERRUPT)
      BY DEF IsIrqVector, FIRST_IRQ_INT, NUM_IRQS, INT_SYSCALL_INTERRUPT, Vectors
    <3>2. Default(INT_SYSCALL_INTERRUPT) = "syscall_int_handler"
      BY <3>1 DEF Default
    <3>3. QED BY <2>1, <3>1, <3>2
  <2>3. table \in [Vectors -> Names] BY <2>1 DEF Init
  <2>4. /\ registered \in [Irqs -> Seq(Handlers)]
        /\ \A i \in Irqs : Len(registered[i]) <= MaxHandlers
    BY EmptySeq, HandlersAssumption DEF Init
  <2>5. QED BY <2>1, <2>2, <2>3, <2>4 DEF TablesInv, Init
<1>2. StacksInv
  BY DEF StacksInv, Init, Threads
<1>3. IdleInv /\ BusyInv
  BY DEF IdleInv, BusyInv, Init, Threads
<1>4. QED BY <1>1, <1>2, <1>3 DEF IInv

\* The state that interrupts alone change is as it was.
Quiet == UNCHANGED <<cpuVars, runVars, isrMaster, isrSlave>>

LEMMA QuietKeeps ==
  ASSUME IInv, Quiet, vector = NULL
  PROVE  StacksInv' /\ IdleInv' /\ BusyInv'
  BY DEF IInv, StacksInv, IdleInv, BusyInv, Quiet, cpuVars, runVars, FrameOf

LEMMA RegisterHandlerStep ==
  ASSUME IInv, NEW v \in Exceptions \cup {INT_SYSCALL_INTERRUPT} \cup {VectorOf(i) : i \in Irqs},
         NEW h \in {"page_fault_int_handler", NULL}, RegisterHandler(v, h)
  PROVE  IInv'
<1>1. vector = NULL /\ Quiet
  BY DEF RegisterHandler, InKernel, Quiet, picVars
<1>2. TablesInv'
  <2>1. TablesInv /\ UNCHANGED <<registered, list>> BY DEF IInv, RegisterHandler
  <2>2. CASE v = INT_SYSCALL_INTERRUPT \/ IsIrqVector(v)
    <3>1. UNCHANGED table BY <2>2 DEF RegisterHandler
    <3>2. QED BY <2>1, <3>1 DEF TablesInv
  <2>3. CASE ~(v = INT_SYSCALL_INTERRUPT \/ IsIrqVector(v))
    <3>1. PICK g \in {"unexpected_int_handler", "page_fault_int_handler"} :
             table' = [table EXCEPT ![v] = g]
      BY <2>3 DEF RegisterHandler
    <3>2. g \in Names /\ g # "irq_int_handler" BY DEF Names
    <3>3. table' \in [Vectors -> Names] BY <2>1, <3>1, <3>2 DEF TablesInv
    <3>4. ASSUME NEW w \in Vectors
          PROVE  (table'[w] = "irq_int_handler") <=> IsIrqVector(w)
      <4>1. CASE w = v BY <2>1, <2>3, <3>1, <3>2, <4>1 DEF TablesInv
      <4>2. CASE w # v BY <2>1, <3>1, <4>2 DEF TablesInv
      <4>3. QED BY <4>1, <4>2
    <3>5. table'[INT_SYSCALL_INTERRUPT] = "syscall_int_handler"
      BY <2>1, <2>3, <3>1 DEF TablesInv, Vectors, INT_SYSCALL_INTERRUPT
    <3>6. QED BY <2>1, <3>3, <3>4, <3>5 DEF TablesInv
  <2>4. QED BY <2>2, <2>3
<1>3. QED BY <1>1, <1>2, QuietKeeps DEF IInv

\* A list with at most one handler keeps it in front of the new one.
LEMMA AppendedIs ==
  ASSUME NEW l \in Seq(Handlers), Len(l) < MaxHandlers, NEW h \in Handlers
  PROVE  Appended(l, h) = Append(l, h)
<1>1. Len(l) \in 0 .. 1
  <2>1. PICK k \in Nat : k = Len(l) BY LenProperties
  <2>2. k < MaxHandlers /\ (MaxHandlers = 1 \/ MaxHandlers = 2)
    BY <2>1, HandlersAssumption
  <2>3. k \in 0 .. 1 BY <2>2
  <2>4. QED BY <2>1, <2>3
<1>2. CASE l = <<>> BY <1>2 DEF Appended
<1>3. CASE l # <<>>
  <2>1. Len(l) = 1 BY <1>1, <1>3, EmptySeq
  <2>2. Appended(l, h) = <<l[1], h>> BY <1>3, <2>1 DEF Appended, Last
  <2>3. Append(l, h) = <<l[1], h>>
    <3>1. l[1] \in Handlers
      <4>1. 1 \in 1 .. Len(l) BY <2>1
      <4>2. QED BY <4>1, ElementOfSeq, Zenon
    <3>2. PICK a \in Seq(Handlers) : a = Append(l, h) BY AppendProperties
    <3>3. Len(a) = 2 /\ a[1] = l[1] /\ a[2] = h
      <4>1. /\ Len(a) = Len(l) + 1 /\ \A i \in 1 .. Len(l) : a[i] = l[i]
            /\ a[Len(l) + 1] = h
        BY <3>2, AppendProperties
      <4>2. QED BY <2>1, <4>1
    <3>4. PICK b \in Seq(Handlers) : b = <<l[1], h>>
      <4>1. <<l[1], h>> \in Seq(Handlers) BY <3>1
      <4>2. QED BY <4>1, Zenon
    <3>5. Len(b) = 2 /\ b[1] = l[1] /\ b[2] = h BY <3>4
    <3>6. \A i \in 1 .. Len(a) : a[i] = b[i] BY <3>3, <3>5
    <3>7. a = b BY <3>3, <3>5, <3>6, SeqEqual
    <3>8. QED BY <3>2, <3>4, <3>7
  <2>4. QED BY <2>2, <2>3
<1>4. QED BY <1>2, <1>3

LEMMA RegisterIrqHandlerStep ==
  ASSUME IInv, NEW i \in Irqs, NEW h \in Handlers, RegisterIrqHandler(i, h)
  PROVE  IInv'
<1>1. vector = NULL /\ Quiet
  BY DEF RegisterIrqHandler, InKernel, Quiet, picVars
<1>2. TablesInv'
  <2>1. TablesInv /\ UNCHANGED table BY DEF IInv, RegisterIrqHandler
  <2>2. registered[i] \in Seq(Handlers) /\ Len(registered[i]) < MaxHandlers
    BY <2>1 DEF TablesInv, RegisterIrqHandler
  <2>3. PICK l \in Seq(Handlers) :
          l = Append(registered[i], h) /\ Len(l) = Len(registered[i]) + 1
    <3>1. Append(registered[i], h) \in Seq(Handlers) BY <2>2, AppendProperties
    <3>2. Len(Append(registered[i], h)) = Len(registered[i]) + 1
      BY <2>2, AppendProperties
    <3>3. QED BY <3>1, <3>2, Zenon
  <2>4. registered' = [registered EXCEPT ![i] = l] BY <2>3 DEF RegisterIrqHandler
  <2>5. list' = [registered EXCEPT ![i] = l]
    BY <2>1, <2>2, <2>3, AppendedIs DEF RegisterIrqHandler, TablesInv
  <2>6. registered' \in [Irqs -> Seq(Handlers)] BY <2>1, <2>4 DEF TablesInv
  <2>7. Len(l) <= MaxHandlers BY <2>2, <2>3, HandlersAssumption
  <2>8. ASSUME NEW j \in Irqs PROVE Len(registered'[j]) <= MaxHandlers
    <3>1. CASE j = i BY <2>1, <2>4, <2>7, <3>1 DEF TablesInv
    <3>2. CASE j # i BY <2>1, <2>4, <3>2 DEF TablesInv
    <3>3. QED BY <3>1, <3>2
  <2>9. QED BY <2>1, <2>4, <2>5, <2>6, <2>8 DEF TablesInv
<1>3. QED BY <1>1, <1>2, QuietKeeps DEF IInv

LEMMA MaskStep ==
  ASSUME IInv, NEW i \in Irqs, MaskIrq(i) \/ UnmaskIrq(i)
  PROVE  IInv'
<1>1. vector = NULL /\ Quiet
  BY DEF MaskIrq, UnmaskIrq, InKernel, Quiet, picVars
<1>2. TablesInv'
  BY DEF IInv, MaskIrq, UnmaskIrq, TablesInv
<1>3. QED BY <1>1, <1>2, QuietKeeps DEF IInv

LEMMA RaiseStep ==
  ASSUME IInv, NEW i \in Irqs, Raise(i)
  PROVE  IInv'
<1>1. UNCHANGED <<tableVars, isrMaster, isrSlave, cpuVars, runVars, panicked>>
  BY DEF Raise
<1>2. TablesInv' BY <1>1 DEF IInv, TablesInv, tableVars
<1>3. StacksInv' BY <1>1 DEF IInv, StacksInv, cpuVars
<1>4. IdleInv' BY <1>1 DEF IInv, IdleInv, cpuVars, runVars
<1>5. BusyInv'
  BY <1>1 DEF IInv, BusyInv, ServesIrq, ServesVector, cpuVars, runVars, tableVars
<1>6. QED BY <1>2, <1>3, <1>4, <1>5 DEF IInv

LEMMA InitSystemTaskStep == ASSUME IInv, InitSystemTask PROVE IInv'
<1>1. /\ vector = NULL /\ vector' = NULL /\ node' = node
      /\ isrMaster' = isrMaster /\ isrSlave' = isrSlave
      /\ stack' = stack /\ current = BOOT /\ current' = SYSTEM
      /\ cpu' = Live(SYSTEM)
  BY BootstrappedIs DEF InitSystemTask, InKernel, runVars, picVars
<1>2. TablesInv' BY DEF IInv, TablesInv, InitSystemTask, tableVars
<1>3. StacksInv'
  BY <1>1, ThreadsAssumption DEF IInv, StacksInv, IdleInv, Threads
<1>4. IdleInv' BY <1>1 DEF IInv, IdleInv, StacksInv
<1>5. BusyInv' BY <1>1 DEF BusyInv
<1>6. QED BY <1>2, <1>3, <1>4, <1>5 DEF IInv

LEMMA SpawnInitStep == ASSUME IInv, SpawnInit PROVE IInv'
<1>1. /\ vector = NULL /\ vector' = NULL /\ node' = node
      /\ isrMaster' = isrMaster /\ isrSlave' = isrSlave
      /\ current = SYSTEM /\ current' = SYSTEM /\ cpu' = cpu
  BY DEF SpawnInit, InKernel, runVars, picVars
<1>2. PICK f : f = Spawned /\ FrameOf(INIT_TASK, f)
  BY SpawnedIs
<1>3. stack' = [stack EXCEPT ![INIT_TASK] = f]
  BY <1>2 DEF SpawnInit
<1>4. TablesInv' BY DEF IInv, TablesInv, SpawnInit, tableVars
<1>5. StacksInv /\ IdleInv BY DEF IInv
<1>6. /\ stack'[INIT_TASK] = f
      /\ \A t \in Threads \ {INIT_TASK} : stack'[t] = stack[t]
      /\ stack' = [t \in Threads |-> stack'[t]]
  BY <1>3, <1>5 DEF StacksInv, Threads
<1>7. StacksInv'
  BY <1>1, <1>2, <1>5, <1>6, ThreadsAssumption DEF StacksInv, Threads
<1>8. IdleInv'
  BY <1>1, <1>5, <1>6, ThreadsAssumption DEF IdleInv, Threads
<1>9. BusyInv' BY <1>1 DEF BusyInv
<1>10. QED BY <1>4, <1>7, <1>8, <1>9 DEF IInv

\* Through the gate: the frame is the thread's, and the handler called is the
\* one of the vector that the CPU has taken.
LEMMA EnterStep ==
  ASSUME IInv, InKernel, NEW v \in Vectors, v # 17, NEW why, Enter(v, why)
  PROVE  /\ TablesInv' /\ StacksInv' /\ IdleInv'
         /\ vector' = v /\ vector' # NULL /\ cause' = why /\ ran' = <<>>
         /\ current' = current
         /\ FrameOf(current, stack'[current]) /\ stack'[current][13] = Number(v)
         /\ node' = IF table[v] = "irq_int_handler" THEN list[v - FIRST_IRQ_INT] ELSE <<>>
         /\ panicked' = (table[v] \in {"unexpected_int_handler", "page_fault_int_handler"})
         /\ UNCHANGED <<registered, list>>
<1>1. /\ TablesInv /\ StacksInv /\ cpu = Live(current) /\ stack[current] = <<>>
      /\ current \in Threads
  BY DEF IInv, IdleInv, InKernel, StacksInv
<1>2. PICK f : f = Entered(v, cpu, stack[current])
  OBVIOUS
<1>3. FrameOf(current, f) /\ f[13] = Number(v)
  BY <1>1, <1>2, EnteredIs
<1>4. WordAt(f, 48)[2] = v
  <2>1. WordAt(f, 48) = f[13] BY DEF WordAt
  <2>2. QED BY <1>3, <2>1, NumberIs
<1>5. /\ stack' = [stack EXCEPT ![current] = f]
      /\ vector' = v /\ cause' = why /\ ran' = <<>> /\ current' = current
      /\ node' = IF table[v] = "irq_int_handler" THEN list[v - FIRST_IRQ_INT] ELSE <<>>
      /\ panicked' = (table[v] \in {"unexpected_int_handler", "page_fault_int_handler"})
      /\ UNCHANGED tableVars
  BY <1>2, <1>4, Zenon DEF Enter
<1>6. TablesInv' BY <1>1, <1>5 DEF TablesInv, tableVars
<1>7. /\ stack'[current] = f
      /\ \A t \in Threads \ {current} : stack'[t] = stack[t]
      /\ stack' = [t \in Threads |-> stack'[t]]
  BY <1>1, <1>5 DEF StacksInv
<1>8. StacksInv'
  BY <1>1, <1>3, <1>5, <1>7, ThreadsAssumption DEF StacksInv, Threads
<1>9. vector' # NULL BY <1>5, ThreadsAssumption
<1>10. IdleInv' BY <1>9 DEF IdleInv
<1>11. QED BY <1>3, <1>5, <1>6, <1>7, <1>8, <1>9, <1>10 DEF tableVars

LEMMA TakeIrqStep == ASSUME IInv, NEW i \in Irqs, TakeIrq(i) PROVE IInv'
<1>1. i \in 0 .. 15 BY IrqsAssumption
<1>2. PICK v \in Vectors : v = VectorOf(i) /\ v = FIRST_IRQ_INT + i /\ v # 17 /\ IsIrqVector(v)
  BY <1>1, VectorIs DEF Vectors, FIRST_IRQ_INT, IsIrqVector, NUM_IRQS
<1>3. Enter(v, <<"irq", i>>) /\ InKernel /\ vector = NULL
  BY <1>2 DEF TakeIrq, InKernel
<1>4. /\ TablesInv' /\ StacksInv' /\ IdleInv'
      /\ vector' = v /\ vector' # NULL /\ cause' = <<"irq", i>> /\ ran' = <<>>
      /\ current' = current
      /\ FrameOf(current, stack'[current]) /\ stack'[current][13] = Number(v)
      /\ node' = IF table[v] = "irq_int_handler" THEN list[v - FIRST_IRQ_INT] ELSE <<>>
      /\ panicked' = (table[v] \in {"unexpected_int_handler", "page_fault_int_handler"})
      /\ UNCHANGED <<registered, list>>
  BY <1>2, <1>3, EnterStep
<1>5. /\ isrMaster = {} /\ isrSlave = {}
      /\ table[v] = "irq_int_handler" /\ list[i] = registered[i]
      /\ registered[i] \in Seq(Handlers)
  BY <1>2, <1>3 DEF IInv, IdleInv, TablesInv
<1>6. v - FIRST_IRQ_INT = i BY <1>1, <1>2 DEF FIRST_IRQ_INT
<1>7. node' = registered[i] /\ ~panicked'
  BY <1>4, <1>5, <1>6
<1>8. isrMaster' = {Line(i)} /\ isrSlave' = IF i >= 8 THEN {i} ELSE {}
  BY <1>5 DEF TakeIrq
<1>9. Joins(registered[i], <<>>, registered[i])
  BY <1>5, EmptySeq DEF Joins
<1>10. ServesIrq(i)'
  BY <1>2, <1>4, <1>5, <1>7, <1>8, <1>9, EmptySeq DEF ServesIrq
<1>11. BusyInv' BY <1>4, <1>10 DEF BusyInv
<1>12. QED BY <1>4, <1>11 DEF IInv

LEMMA TrapStep ==
  ASSUME IInv, InKernel, NEW v \in Exceptions \cup {INT_SYSCALL_INTERRUPT},
         Enter(v, <<"vector", v>>), UNCHANGED picVars
  PROVE  IInv'
<1>1. v \in Vectors /\ v # 17 /\ ~IsIrqVector(v)
  BY ExceptionsAssumption
     DEF Vectors, INT_SYSCALL_INTERRUPT, IsIrqVector, FIRST_IRQ_INT, NUM_IRQS
<1>2. /\ TablesInv' /\ StacksInv' /\ IdleInv'
      /\ vector' = v /\ vector' # NULL /\ cause' = <<"vector", v>>
      /\ current' = current
      /\ FrameOf(current, stack'[current]) /\ stack'[current][13] = Number(v)
      /\ node' = IF table[v] = "irq_int_handler" THEN list[v - FIRST_IRQ_INT] ELSE <<>>
      /\ panicked' = (table[v] \in {"unexpected_int_handler", "page_fault_int_handler"})
  BY <1>1, EnterStep
<1>3. isrMaster' = {} /\ isrSlave' = {}
  BY DEF IInv, IdleInv, InKernel, picVars
<1>4. node' = <<>> BY <1>1, <1>2 DEF IInv, TablesInv
<1>5. panicked' => v \in Exceptions
  BY <1>2 DEF IInv, TablesInv
<1>6. ServesVector(v)'
  BY <1>2, <1>3, <1>4, <1>5 DEF ServesVector
<1>7. BusyInv' BY <1>2, <1>6 DEF BusyInv
<1>8. QED BY <1>2, <1>7 DEF IInv

\* The handler that is run moves from the rest of the list to the ones that
\* have run.
LEMMA JoinsStep ==
  ASSUME NEW S, NEW z \in Seq(S), NEW x \in Seq(S), NEW y \in Seq(S),
         Joins(z, x, y), y # <<>>
  PROVE  /\ Append(x, Head(y)) \in Seq(S) /\ Tail(y) \in Seq(S)
         /\ Joins(z, Append(x, Head(y)), Tail(y))
<1>1. PICK a \in Seq(S), b \in Seq(S) : a = Append(x, Head(y)) /\ b = Tail(y)
  BY HeadTailProperties, AppendProperties
<1>2. PICK m \in Nat, n \in Nat : m = Len(x) /\ n = Len(y)
  BY LenProperties
<1>3. /\ Len(a) = m + 1 /\ \A i \in 1 .. m : a[i] = x[i]
      /\ a[m + 1] = y[1]
  BY <1>1, <1>2, HeadTailProperties, AppendProperties
<1>4. n >= 1 /\ Len(b) = n - 1 /\ \A i \in 1 .. (n - 1) : b[i] = y[i + 1]
  BY <1>1, <1>2, HeadTailProperties, EmptySeq
<1>5. /\ Len(z) = m + n /\ \A i \in 1 .. m : z[i] = x[i]
      /\ \A i \in 1 .. n : z[m + i] = y[i]
  BY <1>2 DEF Joins
<1>6. Len(z) = Len(a) + Len(b) BY <1>3, <1>4, <1>5
<1>7. ASSUME NEW i \in 1 .. (m + 1) PROVE z[i] = a[i]
  <2>1. CASE i = m + 1 BY <1>3, <1>4, <1>5, <2>1
  <2>2. CASE i # m + 1 BY <1>3, <1>5, <2>2
  <2>3. QED BY <2>1, <2>2
<1>8. ASSUME NEW i \in 1 .. (n - 1) PROVE z[(m + 1) + i] = b[i]
  <2>1. i + 1 \in 1 .. n /\ m + (i + 1) = (m + 1) + i OBVIOUS
  <2>2. z[m + (i + 1)] = y[i + 1] BY <1>5, <2>1
  <2>3. QED BY <1>4, <2>1, <2>2
<1>9. Joins(z, a, b)
  BY <1>3, <1>4, <1>6, <1>7, <1>8 DEF Joins
<1>10. QED BY <1>1, <1>9

LEMMA RunHandlerStep == ASSUME IInv, RunHandler PROVE IInv'
<1>1. /\ vector # NULL /\ node # <<>>
      /\ ran' = Append(ran, Head(node)) /\ node' = Tail(node)
      /\ UNCHANGED <<tableVars, picVars, cpuVars, vector, cause, panicked>>
  BY DEF RunHandler
<1>2. TablesInv' BY <1>1 DEF IInv, TablesInv, tableVars
<1>3. StacksInv' BY <1>1 DEF IInv, StacksInv, cpuVars
<1>4. IdleInv' BY <1>1 DEF IdleInv
<1>5. PICK i \in Irqs : ServesIrq(i)
  BY <1>1 DEF IInv, BusyInv, ServesVector
<1>6. registered[i] \in Seq(Handlers) BY DEF IInv, TablesInv
<1>7. /\ ran' \in Seq(Handlers) /\ node' \in Seq(Handlers)
      /\ Joins(registered[i], ran', node')
  BY <1>1, <1>5, <1>6, JoinsStep DEF ServesIrq
<1>8. ServesIrq(i)'
  BY <1>1, <1>5, <1>7 DEF ServesIrq, tableVars, picVars
<1>9. BusyInv'
  BY <1>1, <1>8 DEF IInv, BusyInv, cpuVars
<1>10. QED BY <1>2, <1>3, <1>4, <1>9 DEF IInv

\* Both PICs have nothing in service behind the EOIs.
LEMMA EndOfInterruptIs ==
  ASSUME IInv, NEW i \in Irqs, ServesIrq(i), vector # NULL, EndOfInterrupt
  PROVE  isrMaster' = {} /\ isrSlave' = {}
<1>1. i \in 0 .. 15 /\ Line(i) \in Int
  BY IrqsAssumption DEF Line, CASCADE
<1>2. Irq = i
  <2>1. Field(stack[current], "int_num") = Number(vector)
    BY FieldIs DEF IInv, BusyInv
  <2>2. Irq = vector - FIRST_IRQ_INT BY <2>1, NumberIs DEF Irq
  <2>3. QED BY <1>1, <2>2 DEF ServesIrq, FIRST_IRQ_INT
<1>3. Min({Line(i)}) = Line(i) /\ Min({i}) = i
  BY <1>1, MinSingle
<1>4. isrMaster' = {}
  BY <1>3 DEF EndOfInterrupt, ServesIrq
<1>5. isrSlave' = {}
  BY <1>2, <1>3 DEF EndOfInterrupt, ServesIrq
<1>6. QED BY <1>4, <1>5

LEMMA ReturnStep == ASSUME IInv, NEW next \in Threads, Return(next) PROVE IInv'
<1>1. /\ vector # NULL /\ ~panicked /\ node = <<>> /\ stack[next] # <<>>
      /\ cpu' = Resumed(stack[next])
      /\ stack' = [stack EXCEPT ![next] = SubSeq(stack[next], Popped + 1, Len(stack[next]))]
      /\ current' = next /\ vector' = NULL /\ node' = node
      /\ UNCHANGED tableVars
  BY DEF Return, Switch
<1>2. TablesInv /\ StacksInv /\ BusyInv BY DEF IInv
<1>3. FrameOf(next, stack[next]) BY <1>1, <1>2 DEF StacksInv
<1>4. cpu' = Live(next) BY <1>1, <1>3, ResumedIs
<1>5. stack' = [stack EXCEPT ![next] = <<>>]
  <2>1. SubSeq(stack[next], Popped + 1, Len(stack[next])) = <<>>
    BY <1>3, PoppedIs DEF FrameOf
  <2>2. QED BY <1>1, <2>1
<1>6. isrMaster' = {} /\ isrSlave' = {}
  <2>1. CASE \E i \in Irqs : ServesIrq(i)
    <3>1. PICK i \in Irqs : ServesIrq(i) BY <2>1
    <3>2. vector \in Vectors /\ IsIrqVector(vector)
      BY <3>1, IrqsAssumption DEF ServesIrq, Vectors, IsIrqVector, FIRST_IRQ_INT, NUM_IRQS
    <3>3. EndOfInterrupt
      BY <1>2, <3>2 DEF Return, TablesInv
    <3>4. QED BY <1>1, <3>1, <3>3, EndOfInterruptIs
  <2>2. CASE \E v \in Exceptions \cup {INT_SYSCALL_INTERRUPT} : ServesVector(v)
    <3>1. PICK v \in Exceptions \cup {INT_SYSCALL_INTERRUPT} : ServesVector(v) BY <2>2
    <3>2. vector = v /\ v \in Vectors /\ ~IsIrqVector(v)
      BY <3>1, ExceptionsAssumption
         DEF ServesVector, Vectors, INT_SYSCALL_INTERRUPT, IsIrqVector, FIRST_IRQ_INT, NUM_IRQS
    <3>3. UNCHANGED <<isrMaster, isrSlave>>
      BY <1>2, <3>2 DEF Return, TablesInv
    <3>4. QED BY <3>1, <3>3 DEF ServesVector
  <2>3. QED BY <1>1, <1>2, <2>1, <2>2 DEF BusyInv
<1>7. TablesInv' BY <1>1, <1>2 DEF TablesInv, tableVars
<1>8. /\ stack'[next] = <<>>
      /\ \A t \in Threads \ {next} : stack'[t] = stack[t]
      /\ stack' = [t \in Threads |-> stack'[t]]
  BY <1>2, <1>5 DEF StacksInv
<1>9. (current = BOOT) <=> (next = BOOT)
  BY <1>1, <1>2, ThreadsAssumption DEF StacksInv, Threads
<1>10. StacksInv'
  BY <1>1, <1>2, <1>8, <1>9, ThreadsAssumption DEF StacksInv, Threads
<1>11. IdleInv' BY <1>1, <1>4, <1>6, <1>8 DEF IdleInv
<1>12. BusyInv' BY <1>1 DEF BusyInv
<1>13. QED BY <1>7, <1>10, <1>11, <1>12 DEF IInv

LEMMA NextIInv == IInv /\ [Next]_vars => IInv'
<1> SUFFICES ASSUME IInv, [Next]_vars PROVE IInv'
  OBVIOUS
<1>1. CASE UNCHANGED vars
  <2>1. UNCHANGED <<tableVars, isrMaster, isrSlave, cpuVars, runVars, panicked>>
    BY <1>1 DEF vars, picVars
  <2>2. TablesInv' BY <2>1 DEF IInv, TablesInv, tableVars
  <2>3. StacksInv' BY <2>1 DEF IInv, StacksInv, cpuVars
  <2>4. IdleInv' BY <2>1 DEF IInv, IdleInv, cpuVars, runVars
  <2>5. BusyInv'
    BY <2>1 DEF IInv, BusyInv, ServesIrq, ServesVector, cpuVars, runVars, tableVars
  <2>6. QED BY <2>2, <2>3, <2>4, <2>5 DEF IInv
<1>2. CASE Next
  <2>1. ASSUME NEW v \in Exceptions \cup {INT_SYSCALL_INTERRUPT} \cup {VectorOf(i) : i \in Irqs},
               NEW h \in {"page_fault_int_handler", NULL}, RegisterHandler(v, h)
        PROVE  IInv'
    BY <2>1, RegisterHandlerStep
  <2>2. ASSUME NEW i \in Irqs, NEW h \in Handlers, RegisterIrqHandler(i, h) PROVE IInv'
    BY <2>2, RegisterIrqHandlerStep
  <2>3. ASSUME NEW i \in Irqs, MaskIrq(i) \/ UnmaskIrq(i) \/ Raise(i) \/ TakeIrq(i)
        PROVE  IInv'
    BY <2>3, MaskStep, RaiseStep, TakeIrqStep
  <2>4. ASSUME InitSystemTask \/ SpawnInit PROVE IInv'
    BY <2>4, InitSystemTaskStep, SpawnInitStep
  <2>5. ASSUME Syscall PROVE IInv'
    BY <2>5, TrapStep DEF Syscall
  <2>6. ASSUME NEW v \in Exceptions, Exception(v) PROVE IInv'
    BY <2>6, TrapStep DEF Exception
  <2>7. ASSUME Handle PROVE IInv'
    BY <2>7, RunHandlerStep, ReturnStep DEF Handle
  <2>8. QED BY <1>2, <2>1, <2>2, <2>3, <2>4, <2>5, <2>6, <2>7 DEF Next
<1>3. QED BY <1>1, <1>2

-----------------------------------------------------------------------------
(* The theorems.                                                           *)

\* The tables, the stacks of the threads and the PICs agree, whatever devices,
\* exceptions and handlers there are.
THEOREM InterruptsInvariance == Spec => []IInv
<1>1. QED BY InitIInv, NextIInv, PTL DEF Spec

\* The EOIs of irq_int_handler leave nothing in service on either PIC, for an
\* IRQ of the master and for one of the slave.
THEOREM ServiceAlwaysEnds == Spec => []ServiceEnds
<1>1. IInv => ServiceEnds BY DEF IInv, IdleInv, ServiceEnds
<1>2. QED BY <1>1, InterruptsInvariance, PTL

\* The handler that int_handler_stub calls is the one for the device or the
\* exception that interrupted, and only an exception panics.
THEOREM AlwaysDispatched == Spec => []Dispatched
<1>1. ASSUME IInv, vector # NULL
      PROVE  /\ vector = IF cause[1] = "irq" THEN FIRST_IRQ_INT + cause[2] ELSE cause[2]
             /\ panicked => cause \in {<<"vector", v>> : v \in Exceptions}
  <2>1. CASE \E i \in Irqs : ServesIrq(i)
    <3>1. PICK i \in Irqs : ServesIrq(i) BY <2>1
    <3>2. cause[1] = "irq" /\ cause[2] = i BY <3>1 DEF ServesIrq
    <3>3. QED BY <3>1, <3>2 DEF ServesIrq
  <2>2. CASE \E v \in Exceptions \cup {INT_SYSCALL_INTERRUPT} : ServesVector(v)
    <3>1. PICK v \in Exceptions \cup {INT_SYSCALL_INTERRUPT} : ServesVector(v)
      BY <2>2
    <3>2. cause[1] = "vector" /\ cause[2] = v BY <3>1 DEF ServesVector
    <3>3. vector = v /\ cause = <<"vector", v>> /\ (panicked => v \in Exceptions)
      BY <3>1 DEF ServesVector
    <3>4. QED BY <3>2, <3>3
  <2>3. QED BY <1>1, <2>1, <2>2 DEF IInv, BusyInv
<1>2. IInv => Dispatched BY <1>1 DEF Dispatched
<1>3. QED BY <1>2, InterruptsInvariance, PTL

\* irq_int_handler runs every handler of the IRQ, in the order in which they
\* have been registered.
THEOREM AlwaysAllHandlersRun == Spec => []AllHandlersRun
<1>1. ASSUME IInv, vector # NULL, node = <<>>, cause[1] = "irq"
      PROVE  ran = registered[cause[2]]
  <2>1. PICK i \in Irqs : ServesIrq(i)
    <3>1. ASSUME NEW v, ServesVector(v) PROVE FALSE
      <4>1. cause[1] = "vector" BY <3>1 DEF ServesVector
      <4>2. QED BY <1>1, <4>1
    <3>2. QED BY <1>1, <3>1 DEF IInv, BusyInv
  <2>2. cause[2] = i BY <2>1 DEF ServesIrq
  <2>3. PICK z \in Seq(Handlers) : z = registered[i]
    BY <1>1 DEF IInv, TablesInv
  <2>4. ran \in Seq(Handlers) /\ Joins(z, ran, <<>>)
    BY <1>1, <2>1, <2>3 DEF ServesIrq
  <2>5. PICK m \in Nat : m = Len(ran) BY <2>4, LenProperties
  <2>6. Len(z) = Len(ran) /\ \A k \in 1 .. Len(z) : z[k] = ran[k]
    BY <2>4, <2>5, EmptySeq DEF Joins
  <2>7. z = ran BY <2>4, <2>6, SeqEqual
  <2>8. QED BY <2>2, <2>3, <2>7
<1>2. IInv => AllHandlersRun BY <1>1 DEF AllHandlersRun
<1>3. QED BY <1>2, InterruptsInvariance, PTL

\* struct thread_context describes the interrupted thread in every handler,
\* with and without an error code of the CPU.
THEOREM ContextAlwaysFaithful == Spec => []ContextFaithful
<1>1. ASSUME IInv, vector # NULL
      PROVE  /\ \A r \in Registers : Field(stack[current], r) = Live(current)[r]
             /\ Field(stack[current], "int_num") = Number(vector)
  BY <1>1, FieldIs DEF IInv, BusyInv, FrameOf
<1>2. IInv => ContextFaithful BY <1>1 DEF ContextFaithful
<1>3. QED BY <1>2, InterruptsInvariance, PTL

\* A thread finds its registers, its stack and the kernel's flat segments, no
\* matter how often and where it was interrupted, or whether it runs for the
\* first time.
THEOREM ThreadsStayIntact == Spec => []ThreadIntact
<1>1. IInv => ThreadIntact
  BY SegmentsFlat DEF IInv, IdleInv, ThreadIntact
<1>2. QED BY <1>1, InterruptsInvariance, PTL

=============================================================================
