-------------------------- MODULE PageFramesProofs --------------------------
(***************************************************************************)
(* Whatever memory map and modules the boot loader reports: page_alloc     *)
(* returns the lowest free frame, never one that has an owner, and never   *)
(* one that holds a byte of the kernel or of a module.                     *)
(***************************************************************************)
EXTENDS PageFrames, WellFoundedInduction, TLAPS

\* A non-empty set of numbers has a least one, and Min is that one.
LEMMA MinIsLeast ==
  ASSUME NEW T, T \subseteq Nat, T # {}
  PROVE  Min(T) \in T /\ \A y \in T : Min(T) <= y
<1>1. PICK x \in T : \A y \in T : ~ (<<y, x>> \in OpToRel(<, Nat))
  BY NatLessThanWellFounded, WFMin
<1>2. ASSUME NEW y \in T, y < x PROVE FALSE
  <2>1. <<y, x>> \in Nat \X Nat /\ <<y, x>>[1] < <<y, x>>[2]
    BY <1>2
  <2>2. <<y, x>> \in OpToRel(<, Nat)
    BY <2>1 DEF OpToRel
  <2>3. QED BY <1>1, <2>2
<1>3. \E z \in T : \A y \in T : z <= y
  BY <1>2
<1>4. QED BY <1>3, Zenon DEF Min

LEMMA DivMod ==
  ASSUME NEW a \in Nat, NEW b \in Nat, b > 0
  PROVE  /\ a \div b \in Nat /\ a % b \in 0 .. (b - 1)
         /\ a = (a \div b) * b + (a % b)
  OBVIOUS

LEMMA TimesMonotone ==
  ASSUME NEW x \in Nat, NEW y \in Nat, NEW n \in Nat, x <= y
  PROVE  x * n \in Nat /\ y * n \in Nat /\ x * n <= y * n
  OBVIOUS

LEMMA TimesLess ==
  ASSUME NEW x \in Nat, NEW y \in Nat, NEW n \in Nat, x * n < y * n
  PROVE  x < y
  BY TimesMonotone

LEMMA CeilDivFacts ==
  ASSUME NEW a \in Nat, NEW b \in Nat, b > 0
  PROVE  CeilDiv(a, b) \in Nat /\ a <= CeilDiv(a, b) * b
<1>1. a + b - 1 \in Nat
  OBVIOUS
<1>2. /\ CeilDiv(a, b) \in Nat /\ (a + b - 1) % b \in 0 .. (b - 1)
      /\ a + b - 1 = CeilDiv(a, b) * b + ((a + b - 1) % b)
  BY <1>1, DivMod DEF CeilDiv
<1>3. QED BY <1>2

-----------------------------------------------------------------------------
(* bitmap_first_free.                                                      *)

LEMMA WordFacts ==
  /\ BitsPerWord \in Nat /\ BitsPerWord > 0
  /\ PageSize \in Nat /\ PageSize > 0
  /\ ArrayWords * BitsPerByte \in Nat /\ ArrayWords * BitsPerByte > 0
<1>1. \A x, y \in Nat \ {0} : x * y \in Nat /\ x * y > 0
  <2> SUFFICES ASSUME NEW x \in Nat \ {0}, NEW y \in Nat \ {0} PROVE x * y \in Nat /\ x * y > 0
    OBVIOUS
  <2>1. 1 * y <= x * y BY TimesMonotone
  <2>2. QED BY <2>1
<1>2. QED BY <1>1, SizesAssumption DEF BitsPerWord

\* A frame is a bit of a word, and one word's bits lie below the next one's.
LEMMA WordOrder ==
  ASSUME NEW w \in Nat, NEW v \in Nat, w < v
  PROVE  w * BitsPerWord + BitsPerWord <= v * BitsPerWord
<1>1. (w + 1) * BitsPerWord <= v * BitsPerWord
  BY WordFacts, TimesMonotone
<1>2. (w + 1) * BitsPerWord = w * BitsPerWord + BitsPerWord
  BY WordFacts
<1>3. QED BY <1>1, <1>2

LEMMA FirstFreeLowest ==
  ASSUME word_count \in Nat
  PROVE  FirstFreeIsLowest
<1> DEFINE N == BitsPerWord
           Clear(w) == {i \in 0 .. (N - 1) : w * N + i \notin bits}
           words == {w \in 0 .. (word_count - 1) : Clear(w) # {}}
           clear == (0 .. (word_count * N - 1)) \ bits
<1>1. FirstFree(bits) = IF words = {} THEN NONE ELSE Min(words) * N + Min(Clear(Min(words)))
  BY Zenon DEF FirstFree
<1>2. N \in Nat /\ N > 0 /\ word_count * N \in Nat
  BY WordFacts, TimesMonotone
<1>3. ASSUME NEW f \in clear
      PROVE  /\ f \in Nat /\ f \div N \in words /\ f % N \in Clear(f \div N)
             /\ f = (f \div N) * N + (f % N)
  <2>1. f \in Nat /\ f < word_count * N /\ f \notin bits
    BY <1>2
  <2>2. /\ f \div N \in Nat /\ f % N \in 0 .. (N - 1) /\ f = (f \div N) * N + (f % N)
    BY <1>2, <2>1, DivMod
  <2>3. PICK q \in Nat : q = f \div N
    BY <2>2
  <2>4. PICK r \in 0 .. (N - 1) : r = f % N
    BY <2>2
  <2>5. f = q * N + r
    BY <2>2, <2>3, <2>4
  <2>6. r \in Clear(q)
    BY <2>1, <2>5
  <2>7. q < word_count
    <3>1. q * N \in Nat BY <1>2, TimesMonotone
    <3>2. q * N < word_count * N BY <1>2, <2>1, <2>5, <3>1
    <3>3. QED BY <1>2, <3>2, TimesLess
  <2>8. q \in words
    BY <2>6, <2>7
  <2>9. QED BY <2>1, <2>3, <2>4, <2>5, <2>6, <2>8
<1>4. ASSUME NEW w \in words, NEW i \in Clear(w)
      PROVE  w * N + i \in clear
  <2>1. w \in Nat /\ w < word_count /\ i \in Nat /\ i < N
    BY <1>2
  <2>2. w * N \in Nat /\ w * N + N <= word_count * N
    BY <1>2, <2>1, WordOrder, TimesMonotone
  <2>3. QED BY <1>2, <2>1, <2>2
<1>5. CASE words = {}
  <2>1. clear = {} BY <1>3, <1>5
  <2> HIDE DEF words, clear
  <2>2. FirstFree(bits) = IF clear = {} THEN NONE ELSE Min(clear)
    BY <1>1, <1>5, <2>1
  <2>3. QED BY <2>2 DEF FirstFreeIsLowest, clear
<1>6. CASE words # {}
  <2>1. words \subseteq Nat /\ \A w \in words : Clear(w) # {} /\ Clear(w) \subseteq Nat
    BY <1>2
  <2>2. PICK m \in words : m = Min(words) /\ \A w \in words : m <= w
    <3> HIDE DEF words
    <3>1. QED BY <1>6, <2>1, MinIsLeast
  <2>3. PICK k \in Clear(m) : k = Min(Clear(m)) /\ \A i \in Clear(m) : k <= i
    <3>1. Clear(m) \subseteq Nat /\ Clear(m) # {} BY <2>1
    <3> HIDE DEF Clear
    <3>2. QED BY <3>1, MinIsLeast
  <2>4. FirstFree(bits) = m * N + k
    BY <1>1, <1>6, <2>2, <2>3
  <2>5. m * N + k \in clear
    BY <1>4
  <2>6. ASSUME NEW f \in clear PROVE m * N + k <= f
    <3>1. PICK q \in words : \E r \in Clear(q) : f = q * N + r
      BY <1>3
    <3>2. PICK r \in Clear(q) : f = q * N + r
      BY <3>1
    <3>3. m \in Nat /\ q \in Nat /\ k \in 0 .. (N - 1) /\ r \in 0 .. (N - 1) /\ m <= q
      BY <2>2
    <3>4. CASE m = q
      BY <1>2, <2>3, <3>2, <3>3, <3>4
    <3>5. CASE m < q
      <4>1. m * N + N <= q * N BY <3>3, <3>5, WordOrder
      <4>2. m * N \in Nat /\ q * N \in Nat BY <1>2, <3>3, TimesMonotone
      <4>3. QED BY <1>2, <3>2, <3>3, <4>1, <4>2
    <3>6. QED BY <3>3, <3>4, <3>5
  <2>7. clear \subseteq Nat /\ clear # {}
    BY <1>2, <2>5
  <2> HIDE DEF clear
  <2>8. Min(clear) \in clear /\ \A y \in clear : Min(clear) <= y
    BY <2>7, MinIsLeast
  <2>9. m * N + k = Min(clear)
    <3>1. PICK x \in clear : x = m * N + k BY <2>5
    <3>2. x <= Min(clear) BY <2>6, <2>8, <3>1
    <3>3. Min(clear) <= x BY <2>8
    <3>4. x \in Nat /\ Min(clear) \in Nat BY <2>7, <2>8
    <3>5. QED BY <3>1, <3>2, <3>3, <3>4
  <2>10. QED BY <2>4, <2>7, <2>9 DEF FirstFreeIsLowest, clear
<1>7. QED BY <1>5, <1>6

\* The frame that page_alloc takes was free, and is a bit of the bitmap.
LEMMA FirstFreeIsFree ==
  ASSUME word_count \in Nat, FirstFree(bits) # NONE
  PROVE  FirstFree(bits) \in (0 .. (word_count * BitsPerWord - 1)) \ bits
<1> DEFINE clear == (0 .. (word_count * BitsPerWord - 1)) \ bits
<1>1. FirstFree(bits) = IF clear = {} THEN NONE ELSE Min(clear)
  BY FirstFreeLowest, Zenon DEF FirstFreeIsLowest
<1>2. clear \subseteq Nat /\ clear # {}
  BY <1>1
<1>3. Min(clear) \in clear
  <2> HIDE DEF clear
  <2>1. QED BY <1>2, MinIsLeast
<1>4. QED BY <1>1, <1>2, <1>3

-----------------------------------------------------------------------------
(* The regions.                                                            *)

\* Marking [start, start + size) marks every frame that holds one of its bytes,
\* and the byte behind it.
LEMMA RegionCovers ==
  ASSUME NEW r \in ModList, NEW size \in Nat, r.end <= r.start + size + 1
  PROVE  Touched(r) \subseteq RegionBits(r.start, size)
<1> SUFFICES ASSUME NEW f \in Touched(r) PROVE f \in RegionBits(r.start, size)
  OBVIOUS
<1>1. PICK P \in Nat : P = PageSize /\ P > 0
  BY WordFacts
<1>2. PICK a \in Nat, e \in Nat : a = r.start /\ e = r.end
  BY DEF ModList
<1>3. f \in Int /\ f >= 0 /\ f * P < e /\ a < (f + 1) * P
  BY <1>1, <1>2 DEF Touched
<1>4. PICK s \in Nat : s = a \div P /\ s * P <= a /\ a < (s + 1) * P
  <2>1. a \div P \in Nat /\ a % P \in 0 .. (P - 1) /\ a = (a \div P) * P + (a % P)
    BY <1>1, DivMod
  <2>2. PICK s \in Nat : s = a \div P BY <2>1
  <2>3. s * P <= a /\ a < s * P + P BY <1>1, <2>1, <2>2
  <2>4. s * P + P = (s + 1) * P BY <1>1
  <2>5. QED BY <2>2, <2>3, <2>4
<1>5. PICK c \in Nat : c = CeilDiv(size, P) /\ size <= c * P
  BY <1>1, CeilDivFacts
<1>6. s <= f
  <2>1. s * P < (f + 1) * P
    <3>1. s * P \in Nat /\ (f + 1) * P \in Nat BY <1>1, <1>3, TimesMonotone
    <3>2. QED BY <1>3, <1>4, <3>1
  <2>2. s < f + 1 BY <1>1, <1>3, <2>1, TimesLess
  <2>3. QED BY <1>3, <2>2
<1>7. f <= s + c
  <2>1. f * P < (s + 1) * P + c * P
    <3>1. f * P \in Nat /\ (s + 1) * P \in Nat /\ c * P \in Nat
      BY <1>1, <1>3, TimesMonotone
    <3>2. QED BY <1>2, <1>3, <1>4, <1>5, <3>1
  <2>2. (s + 1) * P + c * P = (s + c + 1) * P
    BY <1>1
  <2>3. f < s + c + 1 BY <1>1, <1>3, <2>1, <2>2, TimesLess
  <2>4. QED BY <1>3, <2>3
<1>8. QED BY <1>1, <1>2, <1>3, <1>4, <1>5, <1>6, <1>7 DEF RegionBits

-----------------------------------------------------------------------------
(* The inductive invariant.                                                *)

Steps == {"kinit", "pmm_init", "init_bitmap", "parse", "modules", "ready", "panic"}

StateInv ==
    /\ step \in Steps
    /\ mbi \in BootInfos
    /\ index \in Nat \ {0}
    /\ word_count \in Nat

\* How far pmm_init has come in marking what must not be handed out.
MarkedInv ==
    /\ step \in {"parse", "modules", "ready"} => 0 \in bits \ held
    /\ step \in {"modules", "ready"} => Touched(Kernel) \subseteq bits \ held
    /\ step = "modules" =>
          \A i \in 1 .. Len(mbi.mods) : i < index => Touched(mbi.mods[i]) \subseteq bits
    /\ step = "ready" =>
          \A i \in 1 .. Len(mbi.mods) : Touched(mbi.mods[i]) \subseteq bits \ held

OwnedInv ==
    IF step = "ready"
    THEN /\ bits = reserved \cup held /\ reserved \cap held = {}
         /\ held \subseteq 0 .. (word_count * BitsPerWord - 1)
    ELSE held = {}

IInv == StateInv /\ MarkedInv /\ OwnedInv

LEMMA InitInv == Init => IInv
  BY DEF Init, IInv, StateInv, MarkedInv, OwnedInv, Steps

\* The structure of the boot loader does not change after kinit has it.
LEMMA ModuleFacts ==
  ASSUME StateInv
  PROVE  /\ mbi.mods \in Seq(ModList) /\ Len(mbi.mods) \in Nat
         /\ mbi.mem \in Nat
         /\ \A i \in 1 .. Len(mbi.mods) :
               /\ mbi.mods[i] \in ModList
               /\ mbi.mods[i].end - mbi.mods[i].start - 1 \in Nat
<1>1. IsMultibootInfo(mbi)
  BY BootInfosAssumption DEF StateInv
<1>2. mbi.mods \in Seq(ModList) /\ Len(mbi.mods) \in Nat /\ mbi.mem \in Nat
  BY <1>1 DEF IsMultibootInfo
<1>3. ASSUME NEW i \in 1 .. Len(mbi.mods)
      PROVE  mbi.mods[i] \in ModList /\ mbi.mods[i].end - mbi.mods[i].start - 1 \in Nat
  <2>1. mbi.mods[i] \in ModList /\ mbi.mods[i].start < mbi.mods[i].end
    BY <1>1, <1>2 DEF IsMultibootInfo
  <2>2. QED BY <2>1 DEF ModList
<1>4. QED BY <1>2, <1>3

LEMMA EarlyStep == ASSUME IInv, Kinit \/ PmmInit PROVE IInv'
  BY DEF IInv, StateInv, MarkedInv, OwnedInv, Steps, Kinit, PmmInit

LEMMA PagingInitBitmapStep == ASSUME IInv, PagingInitBitmap PROVE IInv'
<1>1. word_count' \in Nat
  <2>1. mbi.mem \in Nat BY ModuleFacts DEF IInv
  <2>2. CeilDiv(mbi.mem, PageSize) \in Nat BY <2>1, WordFacts, CeilDivFacts
  <2>3. CeilDiv(CeilDiv(mbi.mem, PageSize), BitsPerWord) \in Nat
    BY <2>2, WordFacts, CeilDivFacts
  <2>4. QED BY <2>3 DEF PagingInitBitmap
<1>2. /\ step = "init_bitmap" /\ UNCHANGED <<mbi, index, reserved, held>>
      /\ \/ step' = "parse" /\ bits' = 0 .. (ArrayWords * BitsPerByte - 1)
         \/ step' = "panic" /\ bits' = bits
  BY DEF PagingInitBitmap
<1>3. StateInv' /\ OwnedInv'
  BY <1>1, <1>2 DEF IInv, StateInv, OwnedInv, Steps
<1>4. 0 \in 0 .. (ArrayWords * BitsPerByte - 1)
  BY WordFacts
<1>5. MarkedInv'
  BY <1>2, <1>4 DEF IInv, OwnedInv, MarkedInv
<1>6. QED BY <1>3, <1>5 DEF IInv

LEMMA ParseMemoryMapStep == ASSUME IInv, ParseMemoryMap PROVE IInv'
<1>1. step = "parse" /\ UNCHANGED <<mbi, word_count, reserved, held>> /\ held = {}
  BY DEF ParseMemoryMap, IInv, OwnedInv
<1>2. CASE index <= Len(mbi.map)
  <2>1. step' = step /\ index' = index + 1 /\ 0 \in bits'
    BY <1>1, <1>2 DEF ParseMemoryMap, InitRegion, IInv, MarkedInv
  <2>2. QED BY <1>1, <2>1 DEF IInv, StateInv, MarkedInv, OwnedInv
<1>3. CASE ~(index <= Len(mbi.map))
  <2>1. /\ step' = "modules" /\ index' = 1
        /\ bits' = bits \cup RegionBits(Kernel.start, Kernel.end - Kernel.start)
    BY <1>1, <1>3 DEF ParseMemoryMap, PreserveKernel, DeinitRegion
  <2>2. Touched(Kernel) \subseteq bits'
    <3>1. /\ Kernel \in ModList /\ Kernel.end - Kernel.start \in Nat
          /\ Kernel.end <= Kernel.start + (Kernel.end - Kernel.start) + 1
      BY SizesAssumption DEF ModList
    <3>2. QED BY <2>1, <3>1, RegionCovers
  <2>3. ~\E i \in 1 .. Len(mbi.mods) : i < index'
    BY <2>1
  <2>4. StateInv' /\ OwnedInv'
    BY <1>1, <2>1 DEF IInv, StateInv, OwnedInv, Steps
  <2>5. MarkedInv'
    BY <1>1, <2>1, <2>2, <2>3 DEF IInv, MarkedInv, Touched
  <2>6. QED BY <2>4, <2>5 DEF IInv
<1>4. QED BY <1>2, <1>3

LEMMA PreserveModulesStep == ASSUME IInv, PreserveModules PROVE IInv'
<1>1. /\ step = "modules" /\ UNCHANGED <<mbi, word_count, held>> /\ held = {}
      /\ mbi \in BootInfos /\ index \in Nat \ {0}
  BY DEF PreserveModules, IInv, OwnedInv, StateInv
<1>2. CASE step' = "panic" /\ UNCHANGED <<index, bits, reserved>>
  BY <1>1, <1>2 DEF IInv, StateInv, MarkedInv, OwnedInv, Steps
<1>3. CASE /\ index <= Len(mbi.mods) /\ index' = index + 1
           /\ bits' = DeinitRegion(bits, mbi.mods[index].start,
                                   mbi.mods[index].end - mbi.mods[index].start - 1)
           /\ UNCHANGED <<step, reserved>>
  <2>1. index \in 1 .. Len(mbi.mods)
    BY <1>1, <1>3, ModuleFacts DEF IInv
  <2>2. PICK r \in ModList : r = mbi.mods[index] /\ r.end - r.start - 1 \in Nat
    BY <2>1, ModuleFacts DEF IInv
  <2>3. bits' = bits \cup RegionBits(r.start, r.end - r.start - 1)
    BY <1>3, <2>2 DEF DeinitRegion
  <2>4. Touched(r) \subseteq bits'
    <3>1. r.end <= r.start + (r.end - r.start - 1) + 1
      BY DEF ModList
    <3>2. QED BY <2>2, <2>3, <3>1, RegionCovers
  <2>5. \A i \in 1 .. Len(mbi.mods) : i < index + 1 => Touched(mbi.mods[i]) \subseteq bits'
    BY <1>1, <2>1, <2>2, <2>3, <2>4 DEF IInv, MarkedInv
  <2>6. StateInv' /\ OwnedInv'
    BY <1>1, <1>3 DEF IInv, StateInv, OwnedInv
  <2>7. MarkedInv'
    BY <1>1, <1>3, <2>3, <2>5 DEF IInv, MarkedInv, Touched
  <2>8. QED BY <2>6, <2>7 DEF IInv
<1>4. CASE /\ ~(index <= Len(mbi.mods)) /\ step' = "ready" /\ reserved' = bits
           /\ UNCHANGED <<index, bits>>
  <2>1. \A i \in 1 .. Len(mbi.mods) : i < index
    BY <1>1, <1>4, ModuleFacts DEF IInv
  <2>2. StateInv' /\ OwnedInv'
    BY <1>1, <1>4 DEF IInv, StateInv, OwnedInv, Steps
  <2>3. MarkedInv'
    BY <1>1, <1>4, <2>1 DEF IInv, MarkedInv, Touched
  <2>4. QED BY <2>2, <2>3 DEF IInv
<1>5. QED
  <2>1. CASE mbi.mods # <<>> /\ "MODS" \notin mbi.flags
    BY <1>2, <2>1 DEF PreserveModules
  <2>2. CASE ~(mbi.mods # <<>> /\ "MODS" \notin mbi.flags)
    BY <1>3, <1>4, <2>2 DEF PreserveModules
  <2>3. QED BY <2>1, <2>2

LEMMA PageAllocStep == ASSUME IInv, PageAlloc PROVE IInv'
<1>1. FirstFree(bits) \in (0 .. (word_count * BitsPerWord - 1)) \ bits
  BY FirstFreeIsFree DEF PageAlloc, IInv, StateInv
<1>2. PICK f : /\ f \in (0 .. (word_count * BitsPerWord - 1)) \ bits /\ bits' = bits \cup {f} /\ held' = held \cup {f}
  BY <1>1 DEF PageAlloc
<1>3. step = "ready" /\ UNCHANGED <<step, mbi, index, word_count, reserved>>
  BY DEF PageAlloc
<1>4. StateInv' /\ OwnedInv'
  BY <1>2, <1>3 DEF IInv, StateInv, OwnedInv
<1>5. MarkedInv'
  BY <1>2, <1>3 DEF IInv, MarkedInv, Touched
<1>6. QED BY <1>4, <1>5 DEF IInv

LEMMA PageFreeStep == ASSUME IInv, NEW f \in held, PageFree(f) PROVE IInv'
<1>1. /\ step = "ready" /\ UNCHANGED <<step, mbi, index, word_count, reserved>>
      /\ bits' = bits \ {f} /\ held' = held \ {f}
  BY DEF PageFree
<1>2. StateInv' /\ OwnedInv'
  BY <1>1 DEF IInv, StateInv, OwnedInv
<1>3. MarkedInv'
  BY <1>1 DEF IInv, MarkedInv, Touched
<1>4. QED BY <1>2, <1>3 DEF IInv

LEMMA InvStep == IInv /\ [Next]_vars => IInv'
<1> SUFFICES ASSUME IInv, [Next]_vars PROVE IInv'
  OBVIOUS
<1>1. CASE UNCHANGED vars
  BY <1>1 DEF vars, IInv, StateInv, MarkedInv, OwnedInv, Touched
<1>2. QED
  BY <1>1, EarlyStep, PagingInitBitmapStep, ParseMemoryMapStep, PreserveModulesStep,
     PageAllocStep, PageFreeStep DEF Next

\* The inductive invariant holds for every memory map and every list of
\* modules, pages and words of any size.
THEOREM FramesInvariance == Spec => []IInv
  BY InitInv, InvStep, PTL DEF Spec

\* No frame has two owners and none is lost, after any sequence of page_alloc
\* and page_free.
THEOREM FramesStayConserved == Spec => []FramesConserved
<1>1. IInv => FramesConserved
  BY DEF IInv, OwnedInv, FramesConserved
<1>2. QED BY <1>1, FramesInvariance, PTL

\* page_alloc never returns frame 0 or a frame with a byte of the kernel or of
\* a module, wherever in their pages these begin and end.
THEOREM NeverAllocatesReserved == Spec => []ReservedNeverAllocated
<1>1. IInv => ReservedNeverAllocated
  <2> SUFFICES ASSUME IInv PROVE ReservedNeverAllocated
    OBVIOUS
  <2>1. CASE step = "ready"
    BY <2>1 DEF IInv, MarkedInv, ReservedNeverAllocated
  <2>2. CASE step # "ready"
    BY <2>2 DEF IInv, OwnedInv, ReservedNeverAllocated
  <2>3. QED BY <2>1, <2>2
<1>2. QED BY <1>1, FramesInvariance, PTL

\* bitmap_first_free, which skips full words, finds the lowest clear bit of
\* the whole bitmap, for any width of a word.
THEOREM AllocatesLowest == Spec => []FirstFreeIsLowest
<1>1. IInv => FirstFreeIsLowest
  BY FirstFreeLowest DEF IInv, StateInv
<1>2. QED BY <1>1, FramesInvariance, PTL

=============================================================================
