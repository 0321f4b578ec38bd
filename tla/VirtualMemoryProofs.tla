------------------------ MODULE VirtualMemoryProofs ------------------------
(***************************************************************************)
(* For memories, tables and heaps of any size: only exhaustion stops the   *)
(* machine, the frames of the heap are its own, the bitmap knows the       *)
(* frames in use, the modules stay in place and the TLB is never stale.    *)
(***************************************************************************)
EXTENDS VirtualMemory, FiniteSetTheorems, WellFoundedInduction, TLAPS

-----------------------------------------------------------------------------
(* The inductive invariant.  It speaks of the record m of the memory       *)
(* structures, so that it can be followed through the operations of which  *)
(* an action is made.                                                      *)

Slots == 0 .. (PTES - 1)

Entries == FrameSet \cup {NOPAGE}

IsRecord(m) ==
    m = [bits |-> m.bits, pde |-> m.pde, tab |-> m.tab, placement |-> m.placement,
         size |-> m.size, tlb |-> m.tlb, panic |-> m.panic]

\* Two directory entries have a page table in common only if they are the ones
\* that boot.S set up, and every page table is known to the model.
Tables(m) ==
    /\ IsRecord(m)
    /\ m.pde \in [Slots -> Entries]
    /\ m.pde[0] = BootTable /\ m.pde[KernelDir] = BootTable
    /\ \A d \in Slots \ (UserDirs \cup {0, KernelDir}) : m.pde[d] = NOPAGE
    /\ \A d \in UserDirs : m.pde[d] # NOPAGE =>
          /\ m.pde[d] \in DOMAIN m.tab /\ m.pde[d] # BootTable
          /\ \A e \in UserDirs : m.pde[e] = m.pde[d] => e = d
    /\ BootTable \in DOMAIN m.tab /\ DOMAIN m.tab \subseteq FrameSet
    /\ m.tab \in [DOMAIN m.tab -> [Slots -> Entries]]
    /\ m.size \in Nat /\ m.placement \in Nat

\* The marked frames are the reserved ones, the page tables, the ones mapped
\* and those in F, which an operation has allocated and not yet mapped; a
\* frame that is not reserved has one use.
Owned(m, F) ==
    /\ m.bits = Reserved \cup DOMAIN m.tab \cup F \cup
                {f \in FrameSet : \E v \in UserPages : Entry(m, v) = f}
    /\ F \subseteq FrameSet \ (Reserved \cup DOMAIN m.tab)
    /\ \A v \in UserPages : Entry(m, v) \notin F
    /\ \A i \in Slots : m.tab[BootTable][i] \in {NOPAGE} \cup Reserved \cup DOMAIN m.tab
    /\ \A v \in UserPages : Entry(m, v) \notin {NOPAGE} \cup Reserved =>
          /\ Entry(m, v) \notin DOMAIN m.tab
          /\ \A w \in UserPages : Entry(m, w) = Entry(m, v) => w = v

Used(m) == {d \in UserDirs : m.pde[d] # NOPAGE}

\* The placement heap has handed out a page for each directory entry in use
\* and x others, and there is nothing behind it.
Placed(m, x) ==
    /\ m.placement = Placement + Cardinality(Used(m)) + x
    /\ \A i \in Slots : m.placement - KernelDir * PTES <= i => m.tab[BootTable][i] = NOPAGE

Good(m, x, F) == Tables(m) /\ Owned(m, F) /\ Placed(m, x) /\ m.panic = "none"

Halts == {"none", "out of memory", "heap size"}

\* The TLB holds translations of heap pages, as the page tables have them.
Coherent(m) == \A e \in m.tlb : e[1] \in HeapPages /\ Entry(m, e[1]) = e[2]

\* Every user page that is mapped is in S.
Within(m, S) == \A v \in UserPages : Entry(m, v) # NOPAGE => v \in S

HeapArea(m) == HeapStart .. (HeapStart + m.size - 1)

\* The pages that may be mapped when the boot code is about to do st.
Extent(st) ==
    CASE st = "tty_remap" -> {}
      [] st = "modules"   -> Console
      [] st = "spawn"     -> Console \cup ModulePages
      [] st = "run"       -> Console \cup ModulePages \cup {StackPage}

HeapFresh(m) ==
    /\ m.size <= HeapMax
    /\ \A v \in HeapPages : Entry(m, v) \notin Reserved

VgaLow(m) == \A k \in 1 .. VgaPages : Entry(m, VgaStart + k - 1) # NOPAGE

InPlace(m, i) ==
    /\ \A k \in 0 .. (Modules[i].count - 1) :
          Entry(m, ModulePage[i] + k) = Modules[i].first + k
    /\ Entry(m, ModulePage[i] + Modules[i].count) = NOPAGE

\* Live blocks are mapped, in the part of the heap that was handed out, and
\* out of each other's way.
Live(m, B) ==
    /\ \A b \in B :
          /\ b.start \in Nat /\ b.pages \in Nat
          /\ HeapStart <= b.start /\ b.start + b.pages <= HeapStart + m.size
          /\ \A v \in BlockPages(b) : Entry(m, v) # NOPAGE
    /\ \A b, c \in B : b # c => BlockPages(b) \cap BlockPages(c) = {}

Extra(st) == IF st = "run" THEN 1 ELSE 0

Steps == {"tty_remap", "modules", "spawn", "run"}

\* The module table mt is filled in, and holds; before that there is no heap.
ModulesDone(m, st, B, mt) ==
    IF st \in {"spawn", "run"}
    THEN /\ Len(mt) \in Nat /\ Len(mt) <= Len(Modules)
         /\ \A i \in 1 .. Len(mt) : mt[i] = TableEntry(i) /\ InPlace(m, i)
    ELSE mt = <<>> /\ m.size = 0 /\ B = {}

Sound(m, st, B, mt) ==
    /\ Good(m, Extra(st), {})
    /\ Within(m, Extent(st) \cup HeapArea(m))
    /\ HeapFresh(m)
    /\ st = "tty_remap" => VgaLow(m)
    /\ ModulesDone(m, st, B, mt)
    /\ Live(m, B)

\* A machine that has stopped still has a coherent TLB.
IInvOf(m, st, B, mt) ==
    /\ m.panic \in Halts /\ Coherent(m) /\ st \in Steps
    /\ m.panic = "none" => Sound(m, st, B, mt)

IInv == IInvOf(mm, step, blocks, module_table)

-----------------------------------------------------------------------------
(* Page numbers and table entries.                                         *)

LEMMA Sizes ==
  /\ PTES \in Nat \ {0} /\ KernelDir \in Nat /\ KernelDir # 0 /\ NOPAGE \notin FrameSet
  /\ 0 \in Slots /\ KernelDir \in Slots /\ UserDirs \subseteq Slots
  /\ 0 \notin UserDirs /\ KernelDir \notin UserDirs
  /\ FrameSet \subseteq Nat /\ NOPAGE \in Entries /\ FrameSet \subseteq Entries
  /\ Reserved \subseteq FrameSet /\ BootTable \in Reserved /\ BootTable # NOPAGE
  /\ NOPAGE \notin Reserved /\ HALF \notin Entries /\ BootTable # HALF
  BY ReservedAssumption DEF NOPAGE, HALF, FrameSet, Slots, UserDirs, Entries

LEMMA DivMod ==
  ASSUME NEW v \in Nat, NEW b \in Nat \ {0}
  PROVE  /\ v \div b \in Nat /\ v % b \in 0 .. (b - 1) /\ v = b * (v \div b) + (v % b)
  OBVIOUS

LEMMA Less ==
  ASSUME NEW b \in Nat, NEW q \in Nat, NEW k \in Nat, q < k
  PROVE  b * q + b <= b * k
<1>1. PICK d \in Nat : k = q + 1 + d
  <2>1. k - q - 1 \in Nat /\ k = q + 1 + (k - q - 1) OBVIOUS
  <2>2. QED BY <2>1
<1>2. b * k = b * q + b + b * d BY <1>1
<1>3. b * d \in Nat OBVIOUS
<1>4. QED BY <1>2, <1>3

LEMMA Quotient ==
  ASSUME NEW b \in Nat \ {0}, NEW k \in Nat, NEW i \in 0 .. (b - 1)
  PROVE  (k * b + i) \div b = k /\ (k * b + i) % b = i
<1> DEFINE x == k * b + i
<1>0. x \in Nat /\ b * k \in Nat /\ x = b * k + i OBVIOUS
<1>1. PICK q \in Nat : q = x \div b BY <1>0, DivMod
<1>2. PICK r \in 0 .. (b - 1) : r = x % b BY <1>0, DivMod
<1>3. x = b * q + r /\ b * q \in Nat BY <1>0, <1>1, <1>2, DivMod
<1>4. ~ (q < k)
  <2>1. SUFFICES ASSUME q < k PROVE FALSE OBVIOUS
  <2>2. b * q + b <= b * k BY <2>1, Less
  <2>3. QED BY <1>0, <1>2, <1>3, <2>2
<1>5. ~ (k < q)
  <2>1. SUFFICES ASSUME k < q PROVE FALSE OBVIOUS
  <2>2. b * k + b <= b * q BY <2>1, Less
  <2>3. QED BY <1>0, <1>2, <1>3, <2>2
<1>6. q = k BY <1>4, <1>5
<1>7. r = i BY <1>0, <1>2, <1>3, <1>6
<1>8. QED BY <1>1, <1>2, <1>6, <1>7

LEMMA LowPage == \A i \in Slots : Dir(i) = 0 /\ i % PTES = i
<1>1. ASSUME NEW i \in Slots PROVE Dir(i) = 0 /\ i % PTES = i
  <2>1. i \in 0 .. (PTES - 1) /\ 0 * PTES + i = i BY Sizes DEF Slots
  <2>2. (0 * PTES + i) \div PTES = 0 /\ (0 * PTES + i) % PTES = i BY <2>1, Sizes, Quotient
  <2>3. QED BY <2>1, <2>2 DEF Dir
<1>2. QED BY <1>1

LEMMA KernelPage ==
  \A i \in Slots : Dir(KernelDir * PTES + i) = KernelDir /\ (KernelDir * PTES + i) % PTES = i
  BY Sizes, Quotient DEF Dir, Slots

LEMMA PageIs ==
  ASSUME NEW v \in Pages
  PROVE  Dir(v) \in Slots /\ v % PTES \in Slots /\ v \in Nat
<1>1. v \in Nat /\ v < PTES * PTES BY Sizes DEF Pages
<1>2. PICK q \in Nat : q = Dir(v) BY <1>1, Sizes, DivMod DEF Dir
<1>3. v % PTES \in 0 .. (PTES - 1) /\ v = PTES * q + (v % PTES)
  BY <1>1, <1>2, Sizes, DivMod DEF Dir
<1>4. ~ (PTES <= q)
  <2>1. SUFFICES ASSUME PTES <= q PROVE FALSE OBVIOUS
  <2>2. PTES * PTES <= PTES * q
    <3>1. CASE PTES = q BY <3>1, Sizes
    <3>2. CASE PTES < q
      <4>1. PTES * PTES + PTES <= PTES * q BY <3>2, Sizes, Less
      <4>2. QED BY <4>1, Sizes
    <3>3. QED BY <2>1, <3>1, <3>2, Sizes
  <2>3. PTES * q \in Nat /\ PTES * PTES \in Nat BY Sizes
  <2>4. QED BY <1>1, <1>3, <2>2, <2>3
<1>5. QED BY <1>1, <1>2, <1>3, <1>4, Sizes DEF Slots

LEMMA SamePage ==
  ASSUME NEW v \in Pages, NEW w \in Pages, Dir(v) = Dir(w), v % PTES = w % PTES
  PROVE  v = w
<1>1. v \in Nat /\ w \in Nat BY PageIs
<1>2. /\ v = PTES * (v \div PTES) + (v % PTES)
      /\ w = PTES * (w \div PTES) + (w % PTES)
  BY <1>1, Sizes, DivMod
<1>3. QED BY <1>2 DEF Dir

LEMMA UserPageIs ==
  ASSUME NEW v \in UserPages
  PROVE  v \in Pages /\ Dir(v) \in UserDirs /\ Dir(v) \in Slots /\ v % PTES \in Slots
  BY PageIs, Sizes DEF UserPages

LEMMA EntryIn ==
  ASSUME NEW m, Tables(m), NEW v \in UserPages
  PROVE  Entry(m, v) \in Entries
<1>1. m.pde[Dir(v)] # NOPAGE => m.pde[Dir(v)] \in DOMAIN m.tab
  BY UserPageIs DEF Tables
<1>2. m.tab \in [DOMAIN m.tab -> [Slots -> Entries]] BY DEF Tables
<1>3. QED BY <1>1, <1>2, UserPageIs, Sizes DEF Entry

-----------------------------------------------------------------------------
(* One entry of a page table is written.                                   *)

Write(m, t, i, f, v) == [m EXCEPT !.tab[t][i] = f, !.tlb = FlushTlb(@, v)]

\* s is m with f in entry i of table t, and v flushed.
Written(s, m, t, i, f, v) ==
    /\ IsRecord(s) /\ s.bits = m.bits /\ s.pde = m.pde /\ s.placement = m.placement
    /\ s.size = m.size /\ s.panic = m.panic /\ s.tlb = FlushTlb(m.tlb, v)
    /\ DOMAIN s.tab = DOMAIN m.tab
    /\ s.tab \in [DOMAIN m.tab -> [Slots -> Entries]]
    /\ \A u \in DOMAIN m.tab : \A j \in Slots :
          s.tab[u][j] = IF u = t /\ j = i THEN f ELSE m.tab[u][j]

LEMMA Fields ==
  ASSUME NEW a, NEW b, NEW c, NEW d, NEW e, NEW f, NEW g, NEW s,
         s = [bits |-> a, pde |-> b, tab |-> c, placement |-> d, size |-> e,
              tlb |-> f, panic |-> g]
  PROVE  /\ s.bits = a /\ s.pde = b /\ s.tab = c /\ s.placement = d /\ s.size = e
         /\ s.tlb = f /\ s.panic = g /\ IsRecord(s)
  BY DEF IsRecord

LEMMA WriteIs ==
  ASSUME NEW m, Tables(m), NEW t \in DOMAIN m.tab, NEW i \in Slots, NEW f \in Entries, NEW v,
         NEW s, s = Write(m, t, i, f, v)
  PROVE  Written(s, m, t, i, f, v)
<1>1. PICK old : old = m.tab OBVIOUS
<1>2. old \in [DOMAIN old -> [Slots -> Entries]] /\ IsRecord(m) /\ t \in DOMAIN old
  BY <1>1 DEF Tables
<1>3. PICK new : new = [old EXCEPT ![t][i] = f] OBVIOUS
<1>4. s = [bits |-> m.bits, pde |-> m.pde, tab |-> new, placement |-> m.placement,
           size |-> m.size, tlb |-> FlushTlb(m.tlb, v), panic |-> m.panic]
  BY <1>1, <1>2, <1>3 DEF IsRecord, Write
<1>5. new \in [DOMAIN old -> [Slots -> Entries]] BY <1>2, <1>3
<1>6. DOMAIN new = DOMAIN old BY <1>3
<1>7. \A u \in DOMAIN old : \A j \in Slots :
         new[u][j] = IF u = t /\ j = i THEN f ELSE old[u][j]
  BY <1>2, <1>3
<1>8. /\ s.bits = m.bits /\ s.pde = m.pde /\ s.placement = m.placement /\ s.tab = new
      /\ s.size = m.size /\ s.panic = m.panic /\ s.tlb = FlushTlb(m.tlb, v) /\ IsRecord(s)
  BY <1>4, Fields
<1>9. QED BY <1>1, <1>5, <1>6, <1>7, <1>8, Zenon DEF Written

Same(m, s) == \A w \in UserPages : Entry(s, w) = Entry(m, w)

\* s has the same user pages as m, but for f at v.
Now(m, s, v, f) ==
    \A w \in UserPages : Entry(s, w) = IF w = v THEN f ELSE Entry(m, w)

LEMMA WrittenTables ==
  ASSUME NEW m, Tables(m), NEW s, NEW t, NEW i, NEW f, NEW v, Written(s, m, t, i, f, v)
  PROVE  Tables(s)
  BY DEF Tables, Written

LEMMA WrittenUser ==
  ASSUME NEW m, Tables(m), NEW v \in UserPages, m.pde[Dir(v)] # NOPAGE, NEW s, NEW f,
         Written(s, m, m.pde[Dir(v)], v % PTES, f, v)
  PROVE  /\ Now(m, s, v, f)
         /\ \A j \in Slots : s.tab[BootTable][j] = m.tab[BootTable][j]
<1>1. /\ m.pde[Dir(v)] \in DOMAIN m.tab /\ m.pde[Dir(v)] # BootTable
      /\ \A e \in UserDirs : m.pde[e] = m.pde[Dir(v)] => e = Dir(v)
  BY UserPageIs DEF Tables
<1>2. ASSUME NEW w \in UserPages
      PROVE  Entry(s, w) = IF w = v THEN f ELSE Entry(m, w)
  <2>1. Dir(w) \in UserDirs /\ w % PTES \in Slots /\ w \in Pages /\ v \in Pages
    BY UserPageIs
  <2>2. s.pde = m.pde BY DEF Written
  <2>3. CASE m.pde[Dir(w)] = NOPAGE BY <2>2, <2>3 DEF Entry
  <2>4. CASE m.pde[Dir(w)] # NOPAGE
    <3>1. m.pde[Dir(w)] \in DOMAIN m.tab /\ m.pde[Dir(w)] # HALF
      BY <2>1, <2>4, Sizes DEF Tables
    <3>2. /\ Entry(s, w) = s.tab[m.pde[Dir(w)]][w % PTES]
          /\ Entry(m, w) = m.tab[m.pde[Dir(w)]][w % PTES]
      BY <2>2, <2>4, <3>1 DEF Entry
    <3>3. s.tab[m.pde[Dir(w)]][w % PTES] =
             IF m.pde[Dir(w)] = m.pde[Dir(v)] /\ w % PTES = v % PTES
             THEN f ELSE m.tab[m.pde[Dir(w)]][w % PTES]
      BY <2>1, <3>1 DEF Written
    <3>4. (m.pde[Dir(w)] = m.pde[Dir(v)] /\ w % PTES = v % PTES) <=> w = v
      BY <1>1, <2>1, SamePage
    <3>5. QED BY <3>2, <3>3, <3>4
  <2>5. QED BY <2>3, <2>4
<1>3. BootTable \in DOMAIN m.tab BY DEF Tables
<1>4. \A j \in Slots : s.tab[BootTable][j] = m.tab[BootTable][j] BY <1>1, <1>3 DEF Written
<1>5. QED BY <1>2, <1>4 DEF Now

LEMMA WrittenBoot ==
  ASSUME NEW m, Tables(m), NEW i \in Slots, NEW s, NEW f, NEW v, Written(s, m, BootTable, i, f, v)
  PROVE  /\ Same(m, s)
         /\ \A j \in Slots : s.tab[BootTable][j] = IF j = i THEN f ELSE m.tab[BootTable][j]
<1>1. ASSUME NEW w \in UserPages PROVE Entry(s, w) = Entry(m, w)
  <2>1. Dir(w) \in UserDirs /\ w % PTES \in Slots BY UserPageIs
  <2>2. s.pde = m.pde BY DEF Written
  <2>3. CASE m.pde[Dir(w)] = NOPAGE BY <2>2, <2>3 DEF Entry
  <2>4. CASE m.pde[Dir(w)] # NOPAGE
    <3>1. m.pde[Dir(w)] \in DOMAIN m.tab /\ m.pde[Dir(w)] # BootTable
      BY <2>1, <2>4 DEF Tables
    <3>2. s.tab[m.pde[Dir(w)]][w % PTES] = m.tab[m.pde[Dir(w)]][w % PTES]
      BY <2>1, <3>1 DEF Written
    <3>3. QED BY <2>2, <2>4, <3>2 DEF Entry
  <2>5. QED BY <2>3, <2>4
<1>2. BootTable \in DOMAIN m.tab BY DEF Tables
<1>3. QED BY <1>1, <1>2 DEF Same, Written

\* The entries of the boot table, by their low and by their high address.
LEMMA BootEntry ==
  ASSUME NEW m, m.pde[0] = BootTable, m.pde[KernelDir] = BootTable, NEW i \in Slots
  PROVE  /\ Entry(m, i) = m.tab[BootTable][i]
         /\ Entry(m, KernelDir * PTES + i) = m.tab[BootTable][i]
<1>1. Dir(i) = 0 /\ i % PTES = i BY LowPage
<1>2. Dir(KernelDir * PTES + i) = KernelDir /\ (KernelDir * PTES + i) % PTES = i BY KernelPage
<1>3. Entry(m, i) = m.tab[BootTable][i] BY <1>1, Sizes DEF Entry
<1>4. Entry(m, KernelDir * PTES + i) = m.tab[BootTable][i] BY <1>2, Sizes DEF Entry
<1>5. QED BY <1>3, <1>4

-----------------------------------------------------------------------------
(* Frames are taken from the bitmap.                                       *)

LEMMA HeapIsUser == HeapPages \subseteq UserPages
  BY RegionsAssumption

LEMMA CoherentSame ==
  ASSUME NEW m, NEW s, Coherent(m), Same(m, s), s.tlb \subseteq m.tlb
  PROVE  Coherent(s)
  BY HeapIsUser DEF Coherent, Same

LEMMA CoherentNow ==
  ASSUME NEW m, NEW s, NEW v, NEW f, Coherent(m), Now(m, s, v, f),
         s.tlb = FlushTlb(m.tlb, v)
  PROVE  Coherent(s)
  BY HeapIsUser DEF Coherent, Now, FlushTlb

LEMMA PanicIs ==
  ASSUME NEW m, IsRecord(m), Coherent(m), NEW why, NEW s, s = Panic(m, why)
  PROVE  s.panic = why /\ Coherent(s)
<1>1. s = [bits |-> m.bits, pde |-> m.pde, tab |-> m.tab, placement |-> m.placement,
           size |-> m.size, tlb |-> m.tlb, panic |-> why]
  BY DEF IsRecord, Panic
<1>2. s.pde = m.pde /\ s.tab = m.tab /\ s.panic = why /\ s.tlb = m.tlb
  BY <1>1, Fields
<1>3. Same(m, s) BY <1>2 DEF Same, Entry
<1>4. QED BY <1>2, <1>3, CoherentSame

LEMMA OutOfMemory ==
  ASSUME NEW m, IsRecord(m), Coherent(m), NEW s, s = Panic(m, "out of memory")
  PROVE  s.panic = "out of memory" /\ Coherent(s)
  BY PanicIs

LEMMA LeastExists ==
  ASSUME NEW T, T \subseteq Nat, T # {}
  PROVE  \E z \in T : \A y \in T : z <= y
<1>1. PICK x \in T : \A y \in T : ~ (<<y, x>> \in OpToRel(<, Nat))
  BY NatLessThanWellFounded, WFMin
<1>2. ASSUME NEW y \in T, y < x PROVE FALSE
  <2>1. <<y, x>> \in Nat \X Nat /\ <<y, x>>[1] < <<y, x>>[2] BY <1>2
  <2>2. <<y, x>> \in OpToRel(<, Nat) BY <2>1 DEF OpToRel
  <2>3. QED BY <1>1, <2>2
<1>3. QED BY <1>2

LEMMA FirstFreeIs ==
  ASSUME NEW m, NEW f, f = FirstFree(m), f # NOPAGE
  PROVE  f \in FrameSet \ m.bits
<1>1. PICK T : T = FrameSet \ m.bits OBVIOUS
<1>2. FirstFree(m) = IF T = {} THEN NOPAGE ELSE CHOOSE z \in T : \A y \in T : z <= y
  BY <1>1 DEF FirstFree
<1>3. T # {} BY <1>2
<1>4. T \subseteq Nat BY <1>1, Sizes
<1>5. \E z \in T : \A y \in T : z <= y BY <1>3, <1>4, LeastExists
<1>6. f = CHOOSE z \in T : \A y \in T : z <= y BY <1>2, <1>3, Zenon
<1>7. f \in T BY <1>5, <1>6, Zenon
<1>8. QED BY <1>1, <1>7

Mark(m, f) == [m EXCEPT !.bits = @ \cup {f}]

\* s is m with f marked.
Marked(s, m, f) ==
    /\ IsRecord(s) /\ s.bits = m.bits \cup {f} /\ s.pde = m.pde /\ s.tab = m.tab
    /\ s.placement = m.placement /\ s.size = m.size /\ s.tlb = m.tlb /\ s.panic = m.panic

LEMMA MarkIs ==
  ASSUME NEW m, IsRecord(m), NEW f, NEW s, s = Mark(m, f)
  PROVE  Marked(s, m, f)
<1>1. s = [bits |-> m.bits \cup {f}, pde |-> m.pde, tab |-> m.tab, placement |-> m.placement,
           size |-> m.size, tlb |-> m.tlb, panic |-> m.panic]
  BY DEF IsRecord, Mark
<1>2. /\ s.bits = m.bits \cup {f} /\ s.pde = m.pde /\ s.tab = m.tab /\ s.placement = m.placement
      /\ s.size = m.size /\ s.tlb = m.tlb /\ s.panic = m.panic /\ IsRecord(s)
  BY <1>1, Fields
<1>3. QED BY <1>2 DEF Marked

LEMMA MarkedGood ==
  ASSUME NEW m, NEW x, NEW F, Good(m, x, F), NEW f \in FrameSet \ m.bits,
         NEW s, Marked(s, m, f)
  PROVE  Good(s, x, F \cup {f}) /\ Same(m, s)
<1>1. \A v : Entry(s, v) = Entry(m, v) BY DEF Marked, Entry
<1>2. Same(m, s) BY <1>1 DEF Same
<1>3. Tables(s) BY DEF Good, Tables, Marked
<1>4. Used(s) = Used(m) BY DEF Used, Marked
<1>5. Placed(s, x) /\ s.panic = "none" BY <1>4 DEF Good, Placed, Marked
<1>6. /\ m.bits = Reserved \cup DOMAIN m.tab \cup F \cup
                  {g \in FrameSet : \E v \in UserPages : Entry(m, v) = g}
      /\ F \subseteq FrameSet \ (Reserved \cup DOMAIN m.tab)
      /\ \A v \in UserPages : Entry(m, v) \notin F
  BY DEF Good, Owned
<1>7. f \notin Reserved \cup DOMAIN m.tab \cup F /\ \A v \in UserPages : Entry(m, v) # f
  BY <1>6
<1>8. s.tab = m.tab BY DEF Marked
<1>9. s.bits = Reserved \cup DOMAIN s.tab \cup (F \cup {f}) \cup
               {g \in FrameSet : \E v \in UserPages : Entry(s, v) = g}
  BY <1>1, <1>6, <1>8 DEF Marked
<1>10. Owned(s, F \cup {f})
  <2>1. F \cup {f} \subseteq FrameSet \ (Reserved \cup DOMAIN s.tab) BY <1>6, <1>7, <1>8
  <2>2. \A v \in UserPages : Entry(s, v) \notin F \cup {f} BY <1>1, <1>6, <1>7
  <2>3. \A i \in Slots : s.tab[BootTable][i] \in {NOPAGE} \cup Reserved \cup DOMAIN s.tab
    BY <1>8 DEF Good, Owned
  <2>4. \A v \in UserPages : Entry(s, v) \notin {NOPAGE} \cup Reserved =>
          /\ Entry(s, v) \notin DOMAIN s.tab
          /\ \A w \in UserPages : Entry(s, w) = Entry(s, v) => w = v
    BY <1>1, <1>8 DEF Good, Owned
  <2>5. QED BY <1>9, <2>1, <2>2, <2>3, <2>4 DEF Owned
<1>11. QED BY <1>2, <1>3, <1>5, <1>10 DEF Good

-----------------------------------------------------------------------------
(* A page table comes from the placement heap.                             *)

AddTable(m, f) ==
    [m EXCEPT !.tab = [t \in DOMAIN @ \cup {f} |-> IF t = f THEN Blank ELSE @[t]],
              !.placement = @ + 1]

\* s is m with a blank table in frame f, and one page less to place.
TableAdded(s, m, f) ==
    /\ IsRecord(s) /\ s.bits = m.bits /\ s.pde = m.pde /\ s.placement = m.placement + 1
    /\ s.size = m.size /\ s.tlb = m.tlb /\ s.panic = m.panic
    /\ DOMAIN s.tab = DOMAIN m.tab \cup {f} /\ s.tab[f] = Blank
    /\ \A u \in DOMAIN m.tab : u # f => s.tab[u] = m.tab[u]
    /\ s.tab \in [DOMAIN s.tab -> [Slots -> Entries]]

LEMMA BlankIs == Blank \in [Slots -> Entries] /\ \A i \in Slots : Blank[i] = NOPAGE
  BY Sizes DEF Blank, Slots

LEMMA AddTableIs ==
  ASSUME NEW m, Tables(m), NEW f, NEW s, s = AddTable(m, f)
  PROVE  TableAdded(s, m, f)
<1>1. PICK old : old = m.tab OBVIOUS
<1>2. IsRecord(m) /\ old \in [DOMAIN old -> [Slots -> Entries]] BY <1>1 DEF Tables
<1>3. PICK new : new = [t \in DOMAIN old \cup {f} |-> IF t = f THEN Blank ELSE old[t]] OBVIOUS
<1>4. s = [bits |-> m.bits, pde |-> m.pde, tab |-> new, placement |-> m.placement + 1,
           size |-> m.size, tlb |-> m.tlb, panic |-> m.panic]
  BY <1>1, <1>2, <1>3 DEF IsRecord, AddTable
<1>5. /\ s.bits = m.bits /\ s.pde = m.pde /\ s.tab = new /\ s.placement = m.placement + 1
      /\ s.size = m.size /\ s.tlb = m.tlb /\ s.panic = m.panic /\ IsRecord(s)
  BY <1>4, Fields
<1>6. /\ DOMAIN new = DOMAIN old \cup {f} /\ new[f] = Blank
      /\ \A u \in DOMAIN old : u # f => new[u] = old[u]
  BY <1>3
<1>7. new \in [DOMAIN new -> [Slots -> Entries]] BY <1>2, <1>3, <1>6, BlankIs
<1>8. QED BY <1>1, <1>5, <1>6, <1>7 DEF TableAdded

\* The low and high mappings of the boot table that are present in m are in s.
LowKept(m, s) ==
    \A i \in Slots : m.tab[BootTable][i] # NOPAGE => s.tab[BootTable][i] = m.tab[BootTable][i]

\* Frame f has become a page table, blank and not in use.
NewTable(m, s, f) ==
    /\ Same(m, s) /\ LowKept(m, s) /\ s.size = m.size /\ s.pde = m.pde /\ m.bits \subseteq s.bits
    /\ Entry(s, m.placement) = f
    /\ f \in DOMAIN s.tab /\ f \notin m.bits /\ s.tab[f] = Blank

\* The next page of the placement heap, as an entry of the boot table.
Room(m) == m.placement - KernelDir * PTES \in Slots

LEMMA StructureAllocSteps ==
  ASSUME NEW m, NEW x, NEW F, Good(m, x, F), Room(m), NEW f, f = FirstFree(m), f # NOPAGE,
         NEW s, s = StructureAlloc(m)
  PROVE  \E a, b : /\ Marked(a, m, f)
                   /\ Written(b, a, BootTable, m.placement - KernelDir * PTES, f, m.placement)
                   /\ TableAdded(s, b, f) /\ Tables(a) /\ Tables(b)
<1>1. PICK a : a = Mark(m, f) OBVIOUS
<1>2. Marked(a, m, f) BY <1>1, MarkIs DEF Good, Tables
<1>3. f \in FrameSet \ m.bits BY FirstFreeIs
<1>4. Good(a, x, F \cup {f}) BY <1>2, <1>3, MarkedGood
<1>5. PICK i \in Slots : i = m.placement - KernelDir * PTES BY DEF Room
<1>6. m.placement = KernelDir * PTES + i
  <2>1. m.placement \in Int BY DEF Good, Tables
  <2>2. KernelDir * PTES \in Int BY Sizes
  <2>3. QED BY <1>5, <2>1, <2>2
<1>7. a.pde[0] = BootTable /\ a.pde[KernelDir] = BootTable /\ a.tab = m.tab /\ Tables(a)
  BY <1>2, <1>4 DEF Good, Tables, Marked
<1>8. m.tab[BootTable][i] = NOPAGE BY <1>5, Sizes DEF Good, Placed, Slots
<1>9. Entry(a, m.placement) = NOPAGE BY <1>6, <1>7, <1>8, BootEntry
<1>10. a.pde[Dir(m.placement)] = BootTable /\ m.placement % PTES = i
  BY <1>6, <1>7, KernelPage
<1>11. PICK b : b = Write(a, BootTable, i, f, m.placement) OBVIOUS
<1>12. SetEntry(a, f, m.placement) = b
  <2>1. a.pde[Dir(m.placement)] \notin {NOPAGE, HALF} BY <1>10, Sizes
  <2>2. QED BY <1>9, <1>10, <1>11, <2>1, Zenon DEF SetEntry, Write
<1>13. BootTable \in DOMAIN a.tab /\ f \in Entries BY <1>3, <1>7, Sizes DEF Tables
<1>14. Written(b, a, BootTable, i, f, m.placement) BY <1>7, <1>11, <1>13, WriteIs
<1>15. Tables(b) BY <1>7, <1>14, WrittenTables
<1>16. s = AddTable(b, f)
  <2>1. s = [b EXCEPT !.tab = [t \in DOMAIN @ \cup {f} |-> IF t = f THEN Blank ELSE @[t]],
                      !.placement = @ + 1]
    BY <1>1, <1>12, Zenon DEF StructureAlloc, Mark
  <2>2. QED BY <2>1, Zenon DEF AddTable
<1>17. TableAdded(s, b, f) BY <1>15, <1>16, AddTableIs
<1>18. QED BY <1>2, <1>5, <1>7, <1>14, <1>15, <1>17

\* paging_structure_alloc keeps the invariant and every user page.
LEMMA StructureAllocIs ==
  ASSUME NEW m, NEW x \in Nat, NEW F, Good(m, x, F), Coherent(m), Room(m),
         NEW s, s = StructureAlloc(m)
  PROVE  /\ Coherent(s)
         /\ \/ s.panic = "out of memory"
            \/ Good(s, x + 1, F) /\ \E f : NewTable(m, s, f)
<1>1. PICK f : f = FirstFree(m) OBVIOUS
<1>2. CASE f = NOPAGE
  <2>1. s = Panic(m, "out of memory") BY <1>1, <1>2, Zenon DEF StructureAlloc
  <2>2. IsRecord(m) BY DEF Good, Tables
  <2>3. QED BY <2>1, <2>2, OutOfMemory
<1>3. CASE f # NOPAGE
  <2>0. PICK i \in Slots : i = m.placement - KernelDir * PTES BY DEF Room
  <2>1. \E a, b : /\ Marked(a, m, f) /\ Written(b, a, BootTable, i, f, m.placement)
                  /\ TableAdded(s, b, f) /\ Tables(a) /\ Tables(b)
    BY <1>1, <1>3, <2>0, StructureAllocSteps
  <2>2. PICK a : \E b : /\ Marked(a, m, f) /\ Written(b, a, BootTable, i, f, m.placement)
                        /\ TableAdded(s, b, f) /\ Tables(a) /\ Tables(b)
    BY <2>1
  <2>3. PICK b : /\ Marked(a, m, f) /\ Written(b, a, BootTable, i, f, m.placement)
                 /\ TableAdded(s, b, f) /\ Tables(a) /\ Tables(b)
    BY <2>2
  <2>4. f \in FrameSet \ m.bits BY <1>1, <1>3, FirstFreeIs
  <2>5. Good(a, x, F \cup {f}) /\ Same(m, a) BY <2>3, <2>4, MarkedGood
  <2>6. /\ Same(a, b)
        /\ \A j \in Slots : b.tab[BootTable][j] = IF j = i THEN f ELSE a.tab[BootTable][j]
    BY <2>3, WrittenBoot
  <2>7. /\ m.bits = Reserved \cup DOMAIN m.tab \cup F \cup
                    {g \in FrameSet : \E v \in UserPages : Entry(m, v) = g}
        /\ F \subseteq FrameSet \ (Reserved \cup DOMAIN m.tab)
        /\ \A v \in UserPages : Entry(m, v) \notin F
    BY DEF Good, Owned
  <2>8. /\ f \notin Reserved \cup DOMAIN m.tab \cup F /\ \A v \in UserPages : Entry(m, v) # f
        /\ f # BootTable
    BY <2>4, <2>7, Sizes
  <2>9. /\ b.pde = m.pde /\ DOMAIN b.tab = DOMAIN m.tab /\ b.bits = m.bits \cup {f}
        /\ b.placement = m.placement /\ b.size = m.size /\ b.panic = "none"
        /\ b.tlb = FlushTlb(m.tlb, m.placement)
    BY <2>3 DEF Marked, Written, Good
  <2>10. /\ s.pde = m.pde /\ DOMAIN s.tab = DOMAIN m.tab \cup {f} /\ s.bits = m.bits \cup {f}
         /\ s.placement = m.placement + 1 /\ s.size = m.size /\ s.panic = "none"
         /\ s.tlb = FlushTlb(m.tlb, m.placement) /\ IsRecord(s) /\ s.tab[f] = Blank
         /\ \A u \in DOMAIN m.tab : s.tab[u] = b.tab[u]
         /\ s.tab \in [DOMAIN s.tab -> [Slots -> Entries]]
    BY <2>3, <2>8, <2>9 DEF TableAdded
  <2>11. BootTable \in DOMAIN m.tab BY DEF Good, Tables
  <2>12. \A j \in Slots : s.tab[BootTable][j] = IF j = i THEN f ELSE m.tab[BootTable][j]
    BY <2>3, <2>6, <2>10, <2>11 DEF Marked
  <2>13. Same(b, s)
    <3>1. ASSUME NEW w \in UserPages PROVE Entry(s, w) = Entry(b, w)
      <4>1. m.pde[Dir(w)] # NOPAGE => m.pde[Dir(w)] \in DOMAIN m.tab
        BY UserPageIs DEF Good, Tables
      <4>2. QED BY <2>9, <2>10, <4>1 DEF Entry
    <3>2. QED BY <3>1 DEF Same
  <2>14. Same(m, s) BY <2>5, <2>6, <2>13 DEF Same
  <2>15. Coherent(s) BY <2>10, <2>14, CoherentSame DEF FlushTlb
  <2>16. Tables(s)
    <3>1. DOMAIN s.tab \subseteq FrameSet BY <2>4, <2>10 DEF Good, Tables
    <3>2. s.size \in Nat /\ s.placement \in Nat BY <2>10 DEF Good, Tables
    <3>3. \A d \in UserDirs : s.pde[d] # NOPAGE =>
            /\ s.pde[d] \in DOMAIN s.tab /\ s.pde[d] # BootTable
            /\ \A e \in UserDirs : s.pde[e] = s.pde[d] => e = d
      BY <2>10 DEF Good, Tables
    <3>4. /\ s.pde \in [Slots -> Entries] /\ s.pde[0] = BootTable /\ s.pde[KernelDir] = BootTable
          /\ \A d \in Slots \ (UserDirs \cup {0, KernelDir}) : s.pde[d] = NOPAGE
      BY <2>10 DEF Good, Tables
    <3>5. QED BY <2>10, <2>11, <3>1, <3>2, <3>3, <3>4 DEF Tables
  <2>17. Owned(s, F)
    <3>1. s.bits = Reserved \cup DOMAIN s.tab \cup F \cup
                   {g \in FrameSet : \E v \in UserPages : Entry(s, v) = g}
      BY <2>7, <2>10, <2>14 DEF Same
    <3>2. F \subseteq FrameSet \ (Reserved \cup DOMAIN s.tab) BY <2>7, <2>8, <2>10
    <3>3. \A v \in UserPages : Entry(s, v) \notin F BY <2>7, <2>14 DEF Same
    <3>4. \A j \in Slots : s.tab[BootTable][j] \in {NOPAGE} \cup Reserved \cup DOMAIN s.tab
      BY <2>10, <2>12 DEF Good, Owned
    <3>5. \A v \in UserPages : Entry(s, v) \notin {NOPAGE} \cup Reserved =>
            /\ Entry(s, v) \notin DOMAIN s.tab
            /\ \A w \in UserPages : Entry(s, w) = Entry(s, v) => w = v
      BY <2>8, <2>10, <2>14 DEF Good, Owned, Same
    <3>6. QED BY <3>1, <3>2, <3>3, <3>4, <3>5 DEF Owned
  <2>18. Placed(s, x + 1)
    <3>1. Used(s) = Used(m) BY <2>10 DEF Used
    <3>2. PICK c : c = Cardinality(Used(m)) OBVIOUS
    <3>3. c \in Nat
      <4>1. IsFiniteSet(UserDirs) BY Sizes, FS_Interval DEF UserDirs
      <4>2. Used(m) \subseteq UserDirs BY DEF Used
      <4>3. QED BY <3>2, <4>1, <4>2, FS_Subset, FS_CardinalityType
    <3>4. m.placement = Placement + c + x BY <3>2 DEF Good, Placed
    <3>5. s.placement = Placement + c + (x + 1)
      BY <2>10, <3>3, <3>4, PlacementAssumption
    <3>6. ASSUME NEW j \in Slots, s.placement - KernelDir * PTES <= j
          PROVE  s.tab[BootTable][j] = NOPAGE
      <4>1. PICK p \in Nat : p = m.placement BY DEF Good, Tables
      <4>2. PICK q \in Int : q = KernelDir * PTES BY Sizes
      <4>3. p + 1 - q <= j /\ i = p - q BY <2>0, <2>10, <3>6, <4>1, <4>2
      <4>4. j # i /\ p - q <= j BY <4>1, <4>2, <4>3, Sizes DEF Slots
      <4>5. m.tab[BootTable][j] = NOPAGE BY <4>1, <4>2, <4>4 DEF Good, Placed
      <4>6. QED BY <2>12, <4>4, <4>5
    <3>7. QED BY <3>1, <3>2, <3>5, <3>6 DEF Placed
  <2>19. LowKept(m, s)
    <3>1. m.tab[BootTable][i] = NOPAGE
      <4>1. m.placement - KernelDir * PTES <= i BY <2>0, Sizes DEF Slots
      <4>2. QED BY <4>1 DEF Good, Placed
    <3>2. QED BY <2>12, <3>1 DEF LowKept
  <2>20. Entry(s, m.placement) = f
    <3>1. m.placement = KernelDir * PTES + i
      <4>1. m.placement \in Int /\ KernelDir * PTES \in Int BY Sizes DEF Good, Tables
      <4>2. QED BY <2>0, <4>1
    <3>2. QED BY <2>12, <2>16, <3>1, BootEntry DEF Tables
  <2>21. NewTable(m, s, f) BY <2>4, <2>10, <2>14, <2>19, <2>20 DEF NewTable
  <2>22. QED BY <2>10, <2>15, <2>16, <2>17, <2>18, <2>21 DEF Good
<1>4. QED BY <1>2, <1>3

-----------------------------------------------------------------------------
(* page_map.                                                               *)

\* Frame f is mapped at v; if it was waiting in F, it no longer is.
MapDone(m, s, x, F, v, f) ==
    /\ Good(s, x, F \ {f}) /\ Coherent(s) /\ Now(m, s, v, f)
    /\ LowKept(m, s) /\ s.size = m.size

NoMemory(s) == s.panic = "out of memory" /\ Coherent(s)

\* The entry is written when the page table is there.
LEMMA SetEntryIs ==
  ASSUME NEW m, NEW x, NEW F, Good(m, x, F), Coherent(m), NEW f \in Reserved \cup F,
         NEW v \in UserPages, m.pde[Dir(v)] # NOPAGE, Entry(m, v) = NOPAGE,
         NEW s, s = SetEntry(m, f, v)
  PROVE  MapDone(m, s, x, F, v, f)
<1>1. Tables(m) /\ m.pde[Dir(v)] \in DOMAIN m.tab /\ v % PTES \in Slots
  BY UserPageIs DEF Good, Tables
<1>2. /\ m.bits = Reserved \cup DOMAIN m.tab \cup F \cup
                  {g \in FrameSet : \E w \in UserPages : Entry(m, w) = g}
      /\ F \subseteq FrameSet \ (Reserved \cup DOMAIN m.tab)
      /\ \A w \in UserPages : Entry(m, w) \notin F
  BY DEF Good, Owned
<1>3. f \in FrameSet /\ f \in Entries /\ f # NOPAGE BY <1>2, Sizes
<1>4. s = Write(m, m.pde[Dir(v)], v % PTES, f, v)
  <2>1. m.pde[Dir(v)] \notin {NOPAGE, HALF} BY <1>1, Sizes DEF Tables
  <2>2. QED BY <2>1, Zenon DEF SetEntry, Write
<1>5. Written(s, m, m.pde[Dir(v)], v % PTES, f, v) BY <1>1, <1>3, <1>4, WriteIs
<1>6. Tables(s) BY <1>1, <1>5, WrittenTables
<1>7. Now(m, s, v, f) /\ \A j \in Slots : s.tab[BootTable][j] = m.tab[BootTable][j]
  BY <1>1, <1>5, WrittenUser
<1>8. /\ s.bits = m.bits /\ s.pde = m.pde /\ s.placement = m.placement /\ s.size = m.size
      /\ s.panic = m.panic /\ s.tlb = FlushTlb(m.tlb, v) /\ DOMAIN s.tab = DOMAIN m.tab
  BY <1>5 DEF Written
<1>9. Coherent(s) BY <1>7, <1>8, CoherentNow
<1>10. Placed(s, x)
  <2>1. Used(s) = Used(m) BY <1>8 DEF Used
  <2>2. QED BY <1>7, <1>8, <2>1 DEF Good, Placed
<1>11. Owned(s, F \ {f})
  <2>1. Entry(s, v) = f /\ \A w \in UserPages : w # v => Entry(s, w) = Entry(m, w)
    BY <1>7 DEF Now
  <2>2. {g \in FrameSet : \E w \in UserPages : Entry(s, w) = g} =
        {g \in FrameSet : \E w \in UserPages : Entry(m, w) = g} \cup {f}
    <3>1. NOPAGE \notin FrameSet BY Sizes
    <3>2. QED BY <1>3, <2>1, <3>1
  <2>3. s.bits = Reserved \cup DOMAIN s.tab \cup (F \ {f}) \cup
                 {g \in FrameSet : \E w \in UserPages : Entry(s, w) = g}
    BY <1>2, <1>8, <2>2
  <2>4. F \ {f} \subseteq FrameSet \ (Reserved \cup DOMAIN s.tab) BY <1>2, <1>8
  <2>5. \A w \in UserPages : Entry(s, w) \notin F \ {f} BY <1>2, <2>1
  <2>6. \A j \in Slots : s.tab[BootTable][j] \in {NOPAGE} \cup Reserved \cup DOMAIN s.tab
    BY <1>7, <1>8 DEF Good, Owned
  <2>7. \A w \in UserPages : Entry(m, w) \notin {NOPAGE} \cup Reserved =>
          /\ Entry(m, w) \notin DOMAIN m.tab
          /\ \A u \in UserPages : Entry(m, u) = Entry(m, w) => u = w
    BY DEF Good, Owned
  <2>8. ASSUME NEW w \in UserPages, Entry(s, w) \notin {NOPAGE} \cup Reserved
        PROVE  /\ Entry(s, w) \notin DOMAIN s.tab
               /\ \A u \in UserPages : Entry(s, u) = Entry(s, w) => u = w
    <3>1. CASE w = v
      <4>1. f \in F BY <2>1, <2>8, <3>1
      <4>2. \A u \in UserPages : u # v => Entry(s, u) # f BY <1>2, <2>1, <4>1
      <4>3. QED BY <1>2, <1>8, <2>1, <3>1, <4>1, <4>2
    <3>2. CASE w # v
      <4>1. Entry(s, w) = Entry(m, w) /\ Entry(m, w) \notin DOMAIN m.tab BY <2>1, <2>7, <2>8, <3>2
      <4>2. Entry(m, w) # f BY <1>2, <2>8, <4>1
      <4>3. QED BY <1>8, <2>1, <2>7, <2>8, <4>1, <4>2
    <3>3. QED BY <3>1, <3>2
  <2>9. QED BY <2>3, <2>4, <2>5, <2>6, <2>8 DEF Owned
<1>12. LowKept(m, s) BY <1>7 DEF LowKept
<1>13. QED BY <1>6, <1>7, <1>8, <1>9, <1>10, <1>11, <1>12 DEF Good, MapDone

Install(m, d, f) == [m EXCEPT !.pde[d] = f]

Installed(m, s, x, F, d) ==
    /\ Good(s, x, F) /\ Coherent(s) /\ Same(m, s) /\ s.pde[d] # NOPAGE
    /\ LowKept(m, s) /\ s.size = m.size

\* A blank table is entered into the directory.
LEMMA InstallIs ==
  ASSUME NEW m, NEW x \in Nat, NEW F, Good(m, x + 1, F), Coherent(m), NEW d \in UserDirs,
         m.pde[d] = NOPAGE, NEW f \in DOMAIN m.tab, f # BootTable, m.tab[f] = Blank,
         \A e \in UserDirs : m.pde[e] # f,
         NEW s, s = Install(m, d, f)
  PROVE  Installed(m, s, x, F, d)
<1>1. Tables(m) /\ IsRecord(m) /\ m.pde \in [Slots -> Entries] /\ DOMAIN m.tab \subseteq FrameSet
  BY DEF Good, Tables
<1>2. d \in Slots /\ d # 0 /\ d # KernelDir /\ f \in Entries /\ f # NOPAGE /\ 0 \in Slots
      /\ KernelDir \in Slots
  BY <1>1, Sizes
<1>3. PICK new : new = [m.pde EXCEPT ![d] = f] OBVIOUS
<1>4. s = [bits |-> m.bits, pde |-> new, tab |-> m.tab, placement |-> m.placement,
           size |-> m.size, tlb |-> m.tlb, panic |-> m.panic]
  BY <1>1, <1>3 DEF IsRecord, Install
<1>5. /\ s.bits = m.bits /\ s.pde = new /\ s.tab = m.tab /\ s.placement = m.placement
      /\ s.size = m.size /\ s.tlb = m.tlb /\ s.panic = m.panic /\ IsRecord(s)
  BY <1>4, Fields
<1>6. /\ new \in [Slots -> Entries] /\ new[d] = f
      /\ \A e \in Slots : e # d => new[e] = m.pde[e]
  BY <1>1, <1>2, <1>3
<1>7. Same(m, s)
  <2>1. ASSUME NEW w \in UserPages PROVE Entry(s, w) = Entry(m, w)
    <3>1. Dir(w) \in Slots /\ w % PTES \in Slots BY UserPageIs
    <3>2. CASE Dir(w) = d
      <4>1. f # HALF BY <1>2, Sizes
      <4>2. Entry(s, w) = Blank[w % PTES] BY <1>2, <1>5, <1>6, <3>2, <4>1 DEF Entry
      <4>3. Entry(m, w) = NOPAGE BY <3>2 DEF Entry
      <4>4. QED BY <3>1, <4>2, <4>3, BlankIs
    <3>3. CASE Dir(w) # d BY <1>5, <1>6, <3>1, <3>3 DEF Entry
    <3>4. QED BY <3>2, <3>3
  <2>2. QED BY <2>1 DEF Same
<1>8. Tables(s)
  <2>1. s.pde[0] = BootTable /\ s.pde[KernelDir] = BootTable
    BY <1>1, <1>2, <1>5, <1>6 DEF Tables
  <2>2. \A e \in Slots \ (UserDirs \cup {0, KernelDir}) : s.pde[e] = NOPAGE
    BY <1>1, <1>5, <1>6 DEF Tables
  <2>3. ASSUME NEW e \in UserDirs, s.pde[e] # NOPAGE
        PROVE  /\ s.pde[e] \in DOMAIN s.tab /\ s.pde[e] # BootTable
               /\ \A g \in UserDirs : s.pde[g] = s.pde[e] => g = e
    <3>1. UserDirs \subseteq Slots BY Sizes
    <3>2. CASE e = d BY <1>5, <1>6, <3>1, <3>2
    <3>3. CASE e # d
      <4>1. s.pde[e] = m.pde[e] BY <1>5, <1>6, <3>1, <3>3
      <4>2. QED BY <1>1, <1>5, <1>6, <2>3, <3>1, <3>3, <4>1 DEF Tables
    <3>4. QED BY <3>2, <3>3
  <2>4. /\ BootTable \in DOMAIN s.tab /\ DOMAIN s.tab \subseteq FrameSet
        /\ s.tab \in [DOMAIN s.tab -> [Slots -> Entries]]
        /\ s.size \in Nat /\ s.placement \in Nat
    BY <1>1, <1>5 DEF Tables
  <2>5. QED BY <1>5, <1>6, <2>1, <2>2, <2>3, <2>4 DEF Tables
<1>9. Owned(s, F) BY <1>5, <1>7 DEF Good, Owned, Same
<1>10. Placed(s, x)
  <2>1. Used(s) = Used(m) \cup {d}
    <3>1. UserDirs \subseteq Slots BY Sizes
    <3>2. QED BY <1>2, <1>5, <1>6, <3>1 DEF Used
  <2>2. IsFiniteSet(Used(m)) /\ d \notin Used(m)
    <3>1. IsFiniteSet(UserDirs) BY Sizes, FS_Interval DEF UserDirs
    <3>2. Used(m) \subseteq UserDirs BY DEF Used
    <3>3. QED BY <3>1, <3>2, FS_Subset DEF Used
  <2>3. PICK c \in Nat : c = Cardinality(Used(m)) BY <2>2, FS_CardinalityType
  <2>4. Cardinality(Used(s)) = c + 1 BY <2>1, <2>2, <2>3, FS_AddElement
  <2>5. m.placement = Placement + c + (x + 1) BY <2>3 DEF Good, Placed
  <2>6. s.placement = Placement + Cardinality(Used(s)) + x
    BY <1>5, <2>4, <2>5, PlacementAssumption
  <2>7. \A i \in Slots : s.placement - KernelDir * PTES <= i => s.tab[BootTable][i] = NOPAGE
    BY <1>5 DEF Good, Placed
  <2>8. QED BY <2>6, <2>7 DEF Placed
<1>11. Coherent(s) BY <1>5, <1>7, CoherentSame
<1>12. s.panic = "none" BY <1>5 DEF Good
<1>13. LowKept(m, s) BY <1>5 DEF LowKept
<1>14. s.pde[d] # NOPAGE BY <1>2, <1>5, <1>6
<1>15. QED BY <1>5, <1>7, <1>8, <1>9, <1>10, <1>11, <1>12, <1>13, <1>14 DEF Good, Installed

\* The placement heap has a page for every directory entry and for a task.
LEMMA RoomIs ==
  ASSUME NEW m, NEW x \in Nat, NEW F, Good(m, x, F),
         x = 0 \/ (x = 1 /\ \E d \in UserDirs : m.pde[d] = NOPAGE)
  PROVE  Room(m)
<1>1. IsFiniteSet(UserDirs) /\ Cardinality(UserDirs) = PTES - 2 - KernelDir
  <2>1. KernelDir + 1 <= PTES - 2 + 1 /\ KernelDir + 1 \in Int /\ PTES - 2 \in Int
    BY ReservedAssumption
  <2>2. PICK a \in Int, b \in Int : a = KernelDir + 1 /\ b = PTES - 2 BY <2>1
  <2>3. /\ IsFiniteSet(a .. b)
        /\ Cardinality(a .. b) = IF a > b THEN 0 ELSE b - a + 1
    BY FS_Interval, Zenon
  <2>4. Cardinality(a .. b) = PTES - 2 - KernelDir BY <2>1, <2>2, <2>3, Sizes
  <2>5. QED BY <2>2, <2>3, <2>4 DEF UserDirs
<1>2. Used(m) \subseteq UserDirs BY DEF Used
<1>3. PICK c \in Nat : c = Cardinality(Used(m))
  BY <1>1, <1>2, FS_Subset, FS_CardinalityType
<1>4. c + x <= PTES - 1 - KernelDir
  <2>1. c <= PTES - 2 - KernelDir BY <1>1, <1>2, <1>3, FS_Subset
  <2>2. CASE x = 0 BY <2>1, <2>2, Sizes
  <2>3. CASE x = 1 BY <2>1, <2>3, Sizes
  <2>4. QED BY <2>2, <2>3
<1>5. m.placement = Placement + c + x BY <1>3 DEF Good, Placed
<1>6. PICK q \in Nat : q = KernelDir * PTES BY Sizes
<1>7. (KernelDir + 1) * PTES = q + PTES BY <1>6, Sizes
<1>8. q <= Placement /\ Placement \in Nat /\ Placement + (PTES - KernelDir) <= q + PTES
  BY <1>6, <1>7, PlacementAssumption
<1>9. m.placement - q \in 0 .. (PTES - 1) BY <1>4, <1>5, <1>8, Sizes
<1>10. QED BY <1>6, <1>9 DEF Room, Slots

LEMMA FirstFreeSame ==
  ASSUME NEW m, NEW s, s.bits = m.bits
  PROVE  FirstFree(s) = FirstFree(m)
<1>1. PICK T : T = FrameSet \ m.bits OBVIOUS
<1>2. FirstFree(m) = IF T = {} THEN NOPAGE ELSE CHOOSE z \in T : \A y \in T : z <= y
  BY <1>1 DEF FirstFree
<1>3. FirstFree(s) = IF T = {} THEN NOPAGE ELSE CHOOSE z \in T : \A y \in T : z <= y
  BY <1>1 DEF FirstFree
<1>4. CASE T = {} BY <1>2, <1>3, <1>4
<1>5. CASE T # {}
  <2>1. FirstFree(m) = CHOOSE z \in T : \A y \in T : z <= y BY <1>2, <1>5, Zenon
  <2>2. FirstFree(s) = CHOOSE z \in T : \A y \in T : z <= y BY <1>3, <1>5, Zenon
  <2>3. QED BY <2>1, <2>2, Zenon
<1>6. QED BY <1>4, <1>5

LEMMA AddTableRecord ==
  ASSUME NEW m, IsRecord(m), NEW f, NEW old, old = m.tab,
         NEW new, new = [t \in DOMAIN old \cup {f} |-> IF t = f THEN Blank ELSE old[t]],
         NEW s, s = AddTable(m, f)
  PROVE  s = [bits |-> m.bits, pde |-> m.pde, tab |-> new, placement |-> m.placement + 1,
              size |-> m.size, tlb |-> m.tlb, panic |-> m.panic]
  BY DEF IsRecord, AddTable

Half(m, d) == [m EXCEPT !.pde[d] = HALF]

\* s is m with directory entry d half made.
HalfMade(s, m, d) ==
    s = [bits |-> m.bits, pde |-> [m.pde EXCEPT ![d] = HALF], tab |-> m.tab,
         placement |-> m.placement, size |-> m.size, tlb |-> m.tlb, panic |-> m.panic]

LEMMA HalfMadeIs ==
  ASSUME NEW m, IsRecord(m), NEW d
  PROVE  HalfMade(Half(m, d), m, d)
  BY DEF IsRecord, Half, HalfMade

\* paging_structure_alloc does not look at the entry that is being made: it
\* maps its page through the kernel's own.
LEMMA HalfAlloc ==
  ASSUME NEW m, NEW x, NEW F, Good(m, x, F), Room(m), NEW d \in UserDirs, m.pde[d] = NOPAGE,
         NEW a, a = StructureAlloc(m), NEW s, s = StructureAlloc(Half(m, d))
  PROVE  IsRecord(a) /\ a.pde = m.pde /\ HalfMade(s, a, d)
<1>1. PICK h : h = Half(m, d) OBVIOUS
<1>2. IsRecord(m) /\ m.pde \in [Slots -> Entries] /\ m.pde[KernelDir] = BootTable
  BY DEF Good, Tables
<1>3. PICK pde : pde = [m.pde EXCEPT ![d] = HALF] OBVIOUS
<1>4. h = [bits |-> m.bits, pde |-> pde, tab |-> m.tab, placement |-> m.placement,
           size |-> m.size, tlb |-> m.tlb, panic |-> m.panic]
  BY <1>1, <1>2, <1>3, HalfMadeIs DEF HalfMade
<1>5. /\ h.bits = m.bits /\ h.pde = pde /\ h.tab = m.tab /\ h.placement = m.placement
      /\ h.size = m.size /\ h.tlb = m.tlb /\ h.panic = m.panic /\ IsRecord(h)
  BY <1>4, Fields
<1>6. pde[KernelDir] = BootTable BY <1>2, <1>3, Sizes
<1>7. PICK f : f = FirstFree(m) OBVIOUS
<1>8. FirstFree(h) = f BY <1>5, <1>7, FirstFreeSame
<1>9. CASE f = NOPAGE
  <2>0. PICK why : why = "out of memory" OBVIOUS
  <2>1. a = Panic(m, why) /\ s = Panic(h, why)
    BY <1>1, <1>7, <1>8, <1>9, <2>0, Zenon DEF StructureAlloc
  <2>2. a = [bits |-> m.bits, pde |-> m.pde, tab |-> m.tab, placement |-> m.placement,
             size |-> m.size, tlb |-> m.tlb, panic |-> why]
    BY <1>2, <2>1 DEF IsRecord, Panic
  <2>3. s = [bits |-> m.bits, pde |-> pde, tab |-> m.tab, placement |-> m.placement,
             size |-> m.size, tlb |-> m.tlb, panic |-> why]
    BY <1>4, <2>1 DEF Panic
  <2>4. /\ a.bits = m.bits /\ a.pde = m.pde /\ a.tab = m.tab /\ a.placement = m.placement
        /\ a.size = m.size /\ a.tlb = m.tlb /\ a.panic = why /\ IsRecord(a)
    BY <2>2, Fields
  <2>5. QED BY <1>3, <2>3, <2>4 DEF HalfMade
<1>10. CASE f # NOPAGE
  <2>1. PICK i \in Slots : i = m.placement - KernelDir * PTES BY DEF Room
  <2>2. m.placement = KernelDir * PTES + i
    <3>1. m.placement \in Int /\ KernelDir * PTES \in Int BY Sizes DEF Good, Tables
    <3>2. QED BY <2>1, <3>1
  <2>3. Dir(m.placement) = KernelDir /\ m.placement % PTES = i BY <2>2, KernelPage
  <2>4. m.tab[BootTable][i] = NOPAGE BY <2>1, Sizes DEF Good, Placed, Slots
  <2>5. PICK t1 : t1 = [m.tab EXCEPT ![BootTable][i] = f] OBVIOUS
  <2>6. PICK t2 : t2 = [t \in DOMAIN t1 \cup {f} |-> IF t = f THEN Blank ELSE t1[t]] OBVIOUS
  <2>7. PICK tlb : tlb = FlushTlb(m.tlb, m.placement) OBVIOUS
  \* The same for m and for h, of which only the directory p differs.
  <2>8. ASSUME NEW z, NEW p, p[KernelDir] = BootTable,
               z = [bits |-> m.bits, pde |-> p, tab |-> m.tab, placement |-> m.placement,
                    size |-> m.size, tlb |-> m.tlb, panic |-> m.panic]
        PROVE  StructureAlloc(z) =
                 [bits |-> m.bits \cup {f}, pde |-> p, tab |-> t2, placement |-> m.placement + 1,
                  size |-> m.size, tlb |-> tlb, panic |-> m.panic]
    <3>1. z.bits = m.bits /\ z.pde = p /\ z.placement = m.placement BY <2>8, Fields
    <3>2. FirstFree(z) = f BY <1>7, <3>1, FirstFreeSame
    <3>3. PICK y : y = [z EXCEPT !.bits = @ \cup {f}] OBVIOUS
    <3>4. y = [bits |-> m.bits \cup {f}, pde |-> p, tab |-> m.tab, placement |-> m.placement,
               size |-> m.size, tlb |-> m.tlb, panic |-> m.panic]
      BY <2>8, <3>3
    <3>5. y.pde = p /\ y.tab = m.tab BY <3>4, Fields
    <3>6. y.pde[Dir(m.placement)] = BootTable /\ BootTable \notin {NOPAGE, HALF}
      BY <2>3, <2>8, <3>5, Sizes
    <3>7. Entry(y, m.placement) = NOPAGE BY <2>3, <2>4, <3>5, <3>6 DEF Entry
    <3>8. PICK w : w = SetEntry(y, f, m.placement) OBVIOUS
    <3>9. w = Write(y, BootTable, i, f, m.placement)
      BY <2>3, <3>6, <3>7, <3>8, Zenon DEF SetEntry, Write
    <3>10. w = [bits |-> m.bits \cup {f}, pde |-> p, tab |-> t1, placement |-> m.placement,
                size |-> m.size, tlb |-> tlb, panic |-> m.panic]
      BY <2>5, <2>7, <3>4, <3>9 DEF Write
    <3>11. StructureAlloc(z) = AddTable(w, f)
      <4>1. StructureAlloc(z) =
              [w EXCEPT !.tab = [t \in DOMAIN @ \cup {f} |-> IF t = f THEN Blank ELSE @[t]],
                        !.placement = @ + 1]
        BY <1>10, <3>1, <3>2, <3>3, <3>8, Zenon DEF StructureAlloc
      <4>2. QED BY <4>1, Zenon DEF AddTable
    <3>12. /\ w.bits = m.bits \cup {f} /\ w.pde = p /\ w.tab = t1
           /\ w.placement = m.placement /\ w.size = m.size /\ w.tlb = tlb
           /\ w.panic = m.panic /\ IsRecord(w)
      BY <3>10, Fields
    <3>13. AddTable(w, f) =
             [bits |-> w.bits, pde |-> w.pde, tab |-> t2, placement |-> w.placement + 1,
              size |-> w.size, tlb |-> w.tlb, panic |-> w.panic]
      BY <2>6, <3>12, AddTableRecord
    <3>14. QED BY <3>11, <3>12, <3>13
  <2>9. a = [bits |-> m.bits \cup {f}, pde |-> m.pde, tab |-> t2, placement |-> m.placement + 1,
             size |-> m.size, tlb |-> tlb, panic |-> m.panic]
    BY <1>2, <2>8 DEF IsRecord
  <2>10. s = [bits |-> m.bits \cup {f}, pde |-> pde, tab |-> t2, placement |-> m.placement + 1,
              size |-> m.size, tlb |-> tlb, panic |-> m.panic]
    BY <1>1, <1>4, <1>6, <2>8
  <2>11. /\ a.bits = m.bits \cup {f} /\ a.pde = m.pde /\ a.tab = t2
         /\ a.placement = m.placement + 1 /\ a.size = m.size /\ a.tlb = tlb
         /\ a.panic = m.panic /\ IsRecord(a)
    BY <2>9, Fields
  <2>12. QED BY <1>3, <2>10, <2>11 DEF HalfMade
<1>11. QED BY <1>9, <1>10

\* The half-made entry has no pages.
LEMMA HalfEmpty ==
  ASSUME NEW a, IsRecord(a), a.pde \in [Slots -> Entries], NEW d \in UserDirs,
         a.pde[d] = NOPAGE, NEW s, HalfMade(s, a, d)
  PROVE  /\ s.panic = a.panic /\ s.tlb = a.tlb
         /\ \A v : Dir(v) \in Slots => Entry(s, v) = Entry(a, v)
<1>1. PICK old : old = a.pde OBVIOUS
<1>2. PICK new : new = [old EXCEPT ![d] = HALF] OBVIOUS
<1>3. /\ new[d] = HALF /\ \A e \in Slots : e # d => new[e] = old[e]
  BY <1>1, <1>2, Sizes
<1>4. s = [bits |-> a.bits, pde |-> new, tab |-> a.tab, placement |-> a.placement,
           size |-> a.size, tlb |-> a.tlb, panic |-> a.panic]
  BY <1>1, <1>2 DEF HalfMade
<1>5. s.pde = new /\ s.tab = a.tab /\ s.tlb = a.tlb /\ s.panic = a.panic
  BY <1>4, Fields
<1>6. \A v : Dir(v) \in Slots => Entry(s, v) = Entry(a, v)
  BY <1>1, <1>3, <1>5 DEF Entry
<1>7. QED BY <1>5, <1>6

\* It is forgotten once it is made.
LEMMA HalfForgotten ==
  ASSUME NEW a, IsRecord(a), a.pde \in [Slots -> Entries], NEW d \in UserDirs,
         NEW s, HalfMade(s, a, d), NEW g
  PROVE  Install(s, d, g) = Install(a, d, g)
<1>1. PICK old : old = a.pde OBVIOUS
<1>2. PICK new : new = [old EXCEPT ![d] = HALF] OBVIOUS
<1>3. [new EXCEPT ![d] = g] = [old EXCEPT ![d] = g] BY <1>1, <1>2, Sizes
<1>4. s = [bits |-> a.bits, pde |-> new, tab |-> a.tab, placement |-> a.placement,
           size |-> a.size, tlb |-> a.tlb, panic |-> a.panic]
  BY <1>1, <1>2 DEF HalfMade
<1>5. Install(s, d, g) =
        [bits |-> a.bits, pde |-> [new EXCEPT ![d] = g], tab |-> a.tab,
         placement |-> a.placement, size |-> a.size, tlb |-> a.tlb, panic |-> a.panic]
  BY <1>4 DEF Install
<1>6. Install(a, d, g) =
        [bits |-> a.bits, pde |-> [old EXCEPT ![d] = g], tab |-> a.tab,
         placement |-> a.placement, size |-> a.size, tlb |-> a.tlb, panic |-> a.panic]
  BY <1>1 DEF IsRecord, Install
<1>7. QED BY <1>3, <1>5, <1>6

\* page_map of a frame that has an owner or was just allocated.
LEMMA PageMapIs ==
  ASSUME NEW m, NEW x \in {0, 1}, NEW F, Good(m, x, F), Coherent(m),
         NEW f \in Reserved \cup F, NEW v \in UserPages, Entry(m, v) = NOPAGE,
         NEW s, s = PageMap(m, f, v)
  PROVE  NoMemory(s) \/ MapDone(m, s, x, F, v, f)
<1>1. m.panic = "none" /\ f \in m.bits BY DEF Good, Owned
<1>2. Dir(v) \in UserDirs /\ v % PTES \in Slots BY UserPageIs
<1>3. CASE m.pde[Dir(v)] # NOPAGE
  <2>1. s = SetEntry(m, f, v) BY <1>1, <1>3 DEF PageMap
  <2>2. QED BY <1>3, <2>1, SetEntryIs, Zenon
<1>4. CASE m.pde[Dir(v)] = NOPAGE
  <2>1. PICK a : a = StructureAlloc(m) OBVIOUS
  <2>2. Room(m) BY <1>2, <1>4, RoomIs
  <2>3. /\ Coherent(a)
        /\ \/ a.panic = "out of memory"
           \/ Good(a, x + 1, F) /\ \E g : NewTable(m, a, g)
    BY <2>1, <2>2, StructureAllocIs
  <2>4. PICK h : h = StructureAlloc(Half(m, Dir(v))) OBVIOUS
  <2>5. IsRecord(a) /\ a.pde = m.pde /\ HalfMade(h, a, Dir(v))
    BY <1>2, <1>4, <2>1, <2>2, <2>4, HalfAlloc, Zenon
  <2>6. /\ h.panic = a.panic /\ h.tlb = a.tlb
        /\ \A w : Dir(w) \in Slots => Entry(h, w) = Entry(a, w)
        /\ a.pde \in [Slots -> Entries]
    <3>1. a.pde \in [Slots -> Entries] /\ a.pde[Dir(v)] = NOPAGE
      BY <1>4, <2>5 DEF Good, Tables
    <3>2. QED BY <1>2, <2>5, <3>1, HalfEmpty
  <2>7. s = IF h.panic # "none" THEN h
             ELSE SetEntry([h EXCEPT !.pde[Dir(v)] = Entry(h, m.placement)], f, v)
    BY <1>1, <1>4, <2>4, Zenon DEF PageMap, Half
  <2>8. CASE a.panic = "out of memory"
    <3>1. s = h BY <2>8, <2>6, <2>7
    <3>2. Same(a, h) BY <2>6, UserPageIs DEF Same
    <3>3. Coherent(h) BY <2>3, <2>6, <3>2, CoherentSame
    <3>4. QED BY <2>8, <2>6, <3>1, <3>3 DEF NoMemory
  <2>9. CASE Good(a, x + 1, F) /\ \E g : NewTable(m, a, g)
    <3>1. PICK g : NewTable(m, a, g) BY <2>9
    <3>2. a.panic = "none" BY <2>9 DEF Good
    <3>3. PICK b : b = Install(a, Dir(v), g) OBVIOUS
    <3>4. Entry(a, m.placement) = g BY <3>1 DEF NewTable
    <3>5. s = SetEntry(b, f, v)
      <4>1. Dir(m.placement) = KernelDir
        <5>1. PICK i \in Slots : i = m.placement - KernelDir * PTES BY <2>2 DEF Room
        <5>2. m.placement \in Int /\ KernelDir * PTES \in Int BY Sizes DEF Good, Tables
        <5>3. m.placement = KernelDir * PTES + i BY <5>1, <5>2
        <5>4. QED BY <5>3, KernelPage
      <4>2. Entry(h, m.placement) = g
        <5>1. Dir(m.placement) \in Slots BY <4>1, Sizes
        <5>2. QED BY <2>6, <3>4, <5>1, Zenon
      <4>3. Install(h, Dir(v), g) = b BY <1>2, <2>5, <2>6, <3>3, HalfForgotten
      <4>4. s = SetEntry([h EXCEPT !.pde[Dir(v)] = Entry(h, m.placement)], f, v)
        BY <2>6, <2>7, <3>2, Zenon
      <4>5. QED BY <4>2, <4>3, <4>4, Zenon DEF Install
    <3>6. DOMAIN m.tab \subseteq m.bits BY DEF Good, Owned
    <3>7. g # BootTable /\ \A e \in UserDirs : a.pde[e] # g
      <4>1. BootTable \in m.bits BY DEF Good, Owned, Tables
      <4>2. \A e \in UserDirs : m.pde[e] # NOPAGE => m.pde[e] \in m.bits
        BY <3>6 DEF Good, Tables
      <4>3. g # NOPAGE
        <5>1. DOMAIN a.tab \subseteq FrameSet BY <2>9 DEF Good, Tables
        <5>2. QED BY <3>1, <5>1, Sizes DEF NewTable
      <4>4. QED BY <3>1, <4>1, <4>2, <4>3 DEF NewTable
    <3>8. a.pde[Dir(v)] = NOPAGE /\ g \in DOMAIN a.tab /\ a.tab[g] = Blank
      BY <1>4, <3>1 DEF NewTable
    <3>9. /\ Good(b, x, F) /\ Coherent(b) /\ Same(a, b) /\ b.pde[Dir(v)] # NOPAGE
          /\ LowKept(a, b) /\ b.size = a.size
      <4>1. x \in Nat OBVIOUS
      <4>2. Installed(a, b, x, F, Dir(v))
        BY <1>2, <2>3, <2>9, <3>3, <3>7, <3>8, <4>1, InstallIs, Zenon
      <4>3. QED BY <4>2 DEF Installed
    <3>10. Same(m, b) /\ Entry(b, v) = NOPAGE BY <3>1, <3>9 DEF NewTable, Same
    <3>11. /\ Good(s, x, F \ {f}) /\ Coherent(s) /\ Now(b, s, v, f)
           /\ LowKept(b, s) /\ s.size = b.size
      <4>1. MapDone(b, s, x, F, v, f) BY <3>5, <3>9, <3>10, SetEntryIs, Zenon
      <4>2. QED BY <4>1 DEF MapDone
    <3>12. Now(m, s, v, f) BY <3>10, <3>11 DEF Now, Same
    <3>13. LowKept(m, s)
      <4>1. LowKept(m, a) BY <3>1 DEF NewTable
      <4>2. QED BY <3>9, <3>11, <4>1 DEF LowKept
    <3>14. s.size = m.size BY <3>1, <3>9, <3>11 DEF NewTable
    <3>15. QED BY <3>11, <3>12, <3>13, <3>14 DEF MapDone
  <2>10. QED BY <2>3, <2>8, <2>9
<1>5. QED BY <1>3, <1>4

\* page_alloc and page_map of what it returns.
LEMMA AllocAndMapIs ==
  ASSUME NEW m, NEW x \in {0, 1}, Good(m, x, {}), Coherent(m),
         NEW v \in UserPages, Entry(m, v) = NOPAGE, NEW s, s = AllocAndMap(m, v)
  PROVE  NoMemory(s) \/ \E f \in FrameSet \ Reserved : MapDone(m, s, x, {}, v, f)
<1>1. PICK f : f = FirstFree(m) OBVIOUS
<1>2. m.panic = "none" /\ IsRecord(m) BY DEF Good, Tables
<1>3. CASE f = NOPAGE
  <2>1. s = Panic(m, "out of memory") BY <1>1, <1>2, <1>3, Zenon DEF AllocAndMap
  <2>2. QED BY <1>2, <2>1, OutOfMemory DEF NoMemory
<1>4. CASE f # NOPAGE
  <2>1. f \in FrameSet \ m.bits BY <1>1, <1>4, FirstFreeIs
  <2>2. PICK a : a = Mark(m, f) OBVIOUS
  <2>3. s = PageMap(a, f, v) BY <1>1, <1>2, <1>4, <2>2, Zenon DEF AllocAndMap, Mark
  <2>4. Marked(a, m, f) BY <1>2, <2>2, MarkIs
  <2>5. PICK F : F = {f} OBVIOUS
  <2>6. Good(a, x, F) /\ Same(m, a)
    <3>1. Good(a, x, {} \cup {f}) /\ Same(m, a) BY <2>1, <2>4, MarkedGood
    <3>2. {} \cup {f} = F BY <2>5
    <3>3. QED BY <3>1, <3>2
  <2>7. Coherent(a) BY <2>4, <2>6, CoherentSame DEF Marked
  <2>8. Entry(a, v) = NOPAGE /\ f \in Reserved \cup F BY <2>5, <2>6 DEF Same
  <2>9. NoMemory(s) \/ MapDone(a, s, x, F, v, f)
    BY <2>3, <2>6, <2>7, <2>8, PageMapIs, Zenon
  <2>10. CASE MapDone(a, s, x, F, v, f)
    <3>1. F \ {f} = {} /\ {} \ {f} = {} BY <2>5
    <3>2. Good(s, x, {}) /\ Coherent(s) /\ Now(a, s, v, f) /\ LowKept(a, s) /\ s.size = a.size
      BY <2>10, <3>1 DEF MapDone
    <3>3. Now(m, s, v, f) BY <2>6, <3>2 DEF Now, Same
    <3>4. LowKept(m, s) /\ s.size = m.size BY <2>4, <3>2 DEF LowKept, Marked
    <3>5. f \in FrameSet \ Reserved BY <2>1 DEF Good, Owned
    <3>6. MapDone(m, s, x, {}, v, f) BY <3>1, <3>2, <3>3, <3>4 DEF MapDone
    <3>7. QED BY <3>5, <3>6
  <2>11. QED BY <2>9, <2>10
<1>5. QED BY <1>3, <1>4

-----------------------------------------------------------------------------
(* page_unmap.                                                             *)

LEMMA PageUnmapIs ==
  ASSUME NEW m, m.panic = "none", NEW v, Entry(m, v) # NOPAGE
  PROVE  PageUnmap(m, v) = Write(m, m.pde[Dir(v)], v % PTES, NOPAGE, v)
  BY Zenon DEF PageUnmap, Write

\* The page v is gone, and so is the frame behind it.
ReleaseDone(m, s, x, v) ==
    Good(s, x, {}) /\ Coherent(s) /\ Now(m, s, v, NOPAGE) /\ s.size = m.size

\* One round of liballoc_free: the frame had this one use.
LEMMA ReleaseIs ==
  ASSUME NEW m, NEW x, Good(m, x, {}), Coherent(m), NEW v \in UserPages,
         Entry(m, v) \notin {NOPAGE} \cup Reserved, NEW s, s = Release(m, v)
  PROVE  ReleaseDone(m, s, x, v)
<1>1. PICK f : f = Entry(m, v) OBVIOUS
<1>2. Tables(m) /\ m.panic = "none" BY DEF Good
<1>3. m.pde[Dir(v)] # NOPAGE BY <1>1 DEF Entry
<1>4. m.pde[Dir(v)] \in DOMAIN m.tab /\ v % PTES \in Slots BY <1>2, <1>3, UserPageIs DEF Tables
<1>5. PICK a : a = PageUnmap(m, v) OBVIOUS
<1>6. a = Write(m, m.pde[Dir(v)], v % PTES, NOPAGE, v) BY <1>2, <1>5, PageUnmapIs
<1>7. Written(a, m, m.pde[Dir(v)], v % PTES, NOPAGE, v) BY <1>2, <1>4, <1>6, Sizes, WriteIs
<1>8. Tables(a) BY <1>2, <1>7, WrittenTables
<1>9. Now(m, a, v, NOPAGE) /\ \A j \in Slots : a.tab[BootTable][j] = m.tab[BootTable][j]
  BY <1>2, <1>3, <1>7, WrittenUser
<1>10. /\ a.bits = m.bits /\ a.pde = m.pde /\ a.placement = m.placement /\ a.size = m.size
       /\ a.panic = "none" /\ a.tlb = FlushTlb(m.tlb, v) /\ DOMAIN a.tab = DOMAIN m.tab
       /\ IsRecord(a)
  BY <1>2, <1>7 DEF Written
<1>11. s = [bits |-> m.bits \ {f}, pde |-> a.pde, tab |-> a.tab, placement |-> a.placement,
            size |-> a.size, tlb |-> a.tlb, panic |-> a.panic]
  <2>1. s = [a EXCEPT !.bits = IF a.panic = "none" THEN @ \ {f} ELSE @]
    BY <1>1, <1>5, Zenon DEF Release
  <2>2. QED BY <1>10, <2>1 DEF IsRecord
<1>12. /\ s.bits = m.bits \ {f} /\ s.pde = a.pde /\ s.tab = a.tab /\ s.placement = a.placement
       /\ s.size = a.size /\ s.tlb = a.tlb /\ s.panic = a.panic /\ IsRecord(s)
  BY <1>11, Fields
<1>13. Tables(s) BY <1>8, <1>12 DEF Tables
<1>14. Now(m, s, v, NOPAGE) BY <1>9, <1>12 DEF Now, Entry
<1>15. Coherent(s) BY <1>10, <1>12, <1>14, CoherentNow
<1>16. Placed(s, x)
  <2>1. Used(s) = Used(m) BY <1>10, <1>12 DEF Used
  <2>2. QED BY <1>9, <1>10, <1>12, <2>1 DEF Good, Placed
<1>17. Owned(s, {})
  <2>1. /\ m.bits = Reserved \cup DOMAIN m.tab \cup {} \cup
                    {g \in FrameSet : \E w \in UserPages : Entry(m, w) = g}
        /\ \A w \in UserPages : Entry(m, w) \notin {NOPAGE} \cup Reserved =>
              /\ Entry(m, w) \notin DOMAIN m.tab
              /\ \A u \in UserPages : Entry(m, u) = Entry(m, w) => u = w
    BY DEF Good, Owned
  <2>2. f \notin DOMAIN m.tab /\ f \notin Reserved /\ \A u \in UserPages : Entry(m, u) = f => u = v
    BY <1>1, <2>1
  <2>3. Entry(s, v) = NOPAGE /\ \A w \in UserPages : w # v => Entry(s, w) = Entry(m, w)
    BY <1>14 DEF Now
  <2>4. {g \in FrameSet : \E w \in UserPages : Entry(s, w) = g} =
        {g \in FrameSet : \E w \in UserPages : Entry(m, w) = g} \ {f}
    <3>1. NOPAGE \notin FrameSet BY Sizes
    <3>2. QED BY <1>1, <2>2, <2>3, <3>1
  <2>5. DOMAIN s.tab = DOMAIN m.tab BY <1>10, <1>12
  <2>6. s.bits = Reserved \cup DOMAIN s.tab \cup {} \cup
                 {g \in FrameSet : \E w \in UserPages : Entry(s, w) = g}
    BY <1>12, <2>1, <2>2, <2>4, <2>5
  <2>7. \A i \in Slots : s.tab[BootTable][i] \in {NOPAGE} \cup Reserved \cup DOMAIN s.tab
    BY <1>9, <1>12, <2>5 DEF Good, Owned
  <2>8. \A w \in UserPages : Entry(s, w) \notin {NOPAGE} \cup Reserved =>
          /\ Entry(s, w) \notin DOMAIN s.tab
          /\ \A u \in UserPages : Entry(s, u) = Entry(s, w) => u = w
    BY <2>1, <2>3, <2>5
  <2>9. QED BY <2>6, <2>7, <2>8 DEF Owned
<1>18. QED BY <1>10, <1>12, <1>13, <1>14, <1>15, <1>16, <1>17 DEF ReleaseDone, Good

\* An entry of the boot table is gone, for both addresses it was mapped at.
LowUnmapDone(m, s, x, i) ==
    /\ Good(s, x, {}) /\ Coherent(s) /\ Same(m, s) /\ s.size = m.size
    /\ \A j \in Slots : j # i => s.tab[BootTable][j] = m.tab[BootTable][j]

LEMMA LowUnmapIs ==
  ASSUME NEW m, NEW x, Good(m, x, {}), Coherent(m), NEW i \in Slots,
         m.tab[BootTable][i] # NOPAGE, NEW s, s = PageUnmap(m, i)
  PROVE  LowUnmapDone(m, s, x, i)
<1>1. /\ Tables(m) /\ m.panic = "none" /\ BootTable \in DOMAIN m.tab
      /\ m.pde[0] = BootTable /\ m.pde[KernelDir] = BootTable
  BY DEF Good, Tables
<1>2. Entry(m, i) # NOPAGE BY <1>1, BootEntry
<1>3. Dir(i) = 0 /\ i % PTES = i BY LowPage
<1>4. s = Write(m, m.pde[Dir(i)], i % PTES, NOPAGE, i) BY <1>1, <1>2, PageUnmapIs
<1>5. s = Write(m, BootTable, i, NOPAGE, i) BY <1>1, <1>3, <1>4
<1>6. Written(s, m, BootTable, i, NOPAGE, i) BY <1>1, <1>5, Sizes, WriteIs
<1>7. Tables(s) BY <1>1, <1>6, WrittenTables
<1>8. /\ Same(m, s)
      /\ \A j \in Slots : s.tab[BootTable][j] = IF j = i THEN NOPAGE ELSE m.tab[BootTable][j]
  BY <1>1, <1>6, WrittenBoot
<1>9. /\ s.bits = m.bits /\ s.pde = m.pde /\ s.placement = m.placement /\ s.size = m.size
      /\ s.panic = "none" /\ s.tlb = FlushTlb(m.tlb, i) /\ DOMAIN s.tab = DOMAIN m.tab
  BY <1>1, <1>6 DEF Written
<1>10. Coherent(s) BY <1>8, <1>9, CoherentSame DEF FlushTlb
<1>11. Placed(s, x)
  <2>1. Used(s) = Used(m) BY <1>9 DEF Used
  <2>2. QED BY <1>8, <1>9, <2>1 DEF Good, Placed
<1>12. Owned(s, {}) BY <1>8, <1>9 DEF Good, Owned, Same
<1>13. QED BY <1>7, <1>8, <1>9, <1>10, <1>11, <1>12 DEF LowUnmapDone, Good

-----------------------------------------------------------------------------
(* Loops.                                                                  *)

LEMMA Climb ==
  ASSUME NEW n \in Nat, NEW T, 0 \in T, \A k \in 1 .. n : k - 1 \in T => k \in T
  PROVE  0 .. n \subseteq T
<1>1. PICK out : out = (0 .. n) \ T OBVIOUS
<1>2. SUFFICES ASSUME out # {} PROVE FALSE BY <1>1
<1>3. out \subseteq Nat BY <1>1
<1>4. PICK z \in out : \A y \in out : z <= y BY <1>2, <1>3, LeastExists
<1>5. z \in 1 .. n BY <1>1, <1>4
<1>6. z - 1 \in out BY <1>1, <1>4, <1>5
<1>7. QED BY <1>4, <1>5, <1>6

\* The states of the loop in MapRange, from m on.
MapRun(g, m, f, v, n) ==
    g[0] = m /\ \A k \in 1 .. n : g[k] = PageMap(g[k - 1], f + k - 1, v + k - 1)

LEMMA MapRuns ==
  ASSUME NEW m, NEW f, NEW v, NEW n \in Nat
  PROVE  \E g : MapRun(g, m, f, v, n) /\ MapRange(m, f, v, n) = g[n]
<1> DEFINE Run(g, j) == g[0] = m /\ \A k \in 1 .. j : g[k] = PageMap(g[k - 1], f + k - 1, v + k - 1)
<1> DEFINE T == {j \in 0 .. n : \E g : Run(g, j)}
<1> DEFINE Eq(g) == g = [k \in 0 .. n |-> IF k = 0 THEN m ELSE PageMap(g[k - 1], f + k - 1, v + k - 1)]
<1>1. 0 \in T
  <2>1. PICK g : g = [k \in {0} |-> m] OBVIOUS
  <2>2. Run(g, 0) BY <2>1
  <2>3. QED BY <2>2
<1>2. ASSUME NEW j \in 1 .. n, j - 1 \in T PROVE j \in T
  <2>1. PICK g : Run(g, j - 1) BY <1>2
  <2>2. PICK e : e = PageMap(g[j - 1], f + j - 1, v + j - 1) OBVIOUS
  <2>3. PICK h : h = [k \in 0 .. j |-> IF k = j THEN e ELSE g[k]] OBVIOUS
  <2>4. h[0] = m BY <2>1, <2>3
  <2>5. ASSUME NEW k \in 1 .. j PROVE h[k] = PageMap(h[k - 1], f + k - 1, v + k - 1)
    <3>1. k - 1 \in 0 .. j /\ k - 1 # j /\ k \in 0 .. j OBVIOUS
    <3>2. h[k - 1] = g[k - 1] BY <2>3, <3>1
    <3>3. CASE k = j BY <2>2, <2>3, <3>1, <3>2, <3>3
    <3>4. CASE k # j
      <4>1. k \in 1 .. (j - 1) BY <3>4
      <4>2. h[k] = g[k] BY <2>3, <3>1, <3>4
      <4>3. g[k] = PageMap(g[k - 1], f + k - 1, v + k - 1) BY <2>1, <4>1
      <4>4. QED BY <3>2, <4>2, <4>3
    <3>5. QED BY <3>3, <3>4
  <2>6. Run(h, j) BY <2>4, <2>5
  <2>7. j \in 0 .. n OBVIOUS
  <2>8. QED BY <2>6, <2>7
<1>3. n \in T
  <2> HIDE DEF T
  <2>1. 0 .. n \subseteq T BY <1>1, <1>2, Climb
  <2>2. QED BY <2>1
<1>4. \E g : Eq(g)
  <2>1. PICK h : Run(h, n) BY <1>3
  <2>2. PICK g : g = [k \in 0 .. n |-> h[k]] OBVIOUS
  <2>3. ASSUME NEW k \in 0 .. n PROVE g[k] = IF k = 0 THEN m ELSE PageMap(g[k - 1], f + k - 1, v + k - 1)
    <3>1. CASE k = 0 BY <2>1, <2>2, <3>1
    <3>2. CASE k # 0
      <4>1. k \in 1 .. n /\ k - 1 \in 0 .. n BY <3>2
      <4>2. g[k] = h[k] /\ g[k - 1] = h[k - 1] BY <2>2, <4>1
      <4>3. h[k] = PageMap(h[k - 1], f + k - 1, v + k - 1) BY <2>1, <4>1
      <4>4. QED BY <3>2, <4>2, <4>3
    <3>3. QED BY <3>1, <3>2
  <2>4. g = [k \in 0 .. n |-> g[k]] BY <2>2
  <2>5. Eq(g) BY <2>3, <2>4
  <2>6. QED BY <2>5
<1>5. PICK g : g = CHOOSE h : Eq(h) OBVIOUS
<1>6. Eq(g) BY <1>4, <1>5, Zenon
<1>7. MapRange(m, f, v, n) = g[n] BY <1>5, Zenon DEF MapRange
<1>8. \A k \in 0 .. n : g[k] = IF k = 0 THEN m ELSE PageMap(g[k - 1], f + k - 1, v + k - 1) BY <1>6, Zenon
<1>9. g[0] = m /\ \A k \in 1 .. n : g[k] = PageMap(g[k - 1], f + k - 1, v + k - 1)
  <2>1. g[0] = m BY <1>8
  <2>2. ASSUME NEW k \in 1 .. n PROVE g[k] = PageMap(g[k - 1], f + k - 1, v + k - 1)
    <3>1. k \in 0 .. n /\ k # 0 OBVIOUS
    <3>2. QED BY <1>8, <3>1, Zenon
  <2>3. QED BY <2>1, <2>2
<1>10. QED BY <1>7, <1>9 DEF MapRun

\* The states of the loop in UnmapRange, from m on.
UnmapRun(g, m, v, n) ==
    g[0] = m /\ \A k \in 1 .. n : g[k] = PageUnmap(g[k - 1], v + k - 1)

LEMMA UnmapRuns ==
  ASSUME NEW m, NEW v, NEW n \in Nat
  PROVE  \E g : UnmapRun(g, m, v, n) /\ UnmapRange(m, v, n) = g[n]
<1> DEFINE Run(g, j) == g[0] = m /\ \A k \in 1 .. j : g[k] = PageUnmap(g[k - 1], v + k - 1)
<1> DEFINE T == {j \in 0 .. n : \E g : Run(g, j)}
<1> DEFINE Eq(g) == g = [k \in 0 .. n |-> IF k = 0 THEN m ELSE PageUnmap(g[k - 1], v + k - 1)]
<1>1. 0 \in T
  <2>1. PICK g : g = [k \in {0} |-> m] OBVIOUS
  <2>2. Run(g, 0) BY <2>1
  <2>3. QED BY <2>2
<1>2. ASSUME NEW j \in 1 .. n, j - 1 \in T PROVE j \in T
  <2>1. PICK g : Run(g, j - 1) BY <1>2
  <2>2. PICK e : e = PageUnmap(g[j - 1], v + j - 1) OBVIOUS
  <2>3. PICK h : h = [k \in 0 .. j |-> IF k = j THEN e ELSE g[k]] OBVIOUS
  <2>4. h[0] = m BY <2>1, <2>3
  <2>5. ASSUME NEW k \in 1 .. j PROVE h[k] = PageUnmap(h[k - 1], v + k - 1)
    <3>1. k - 1 \in 0 .. j /\ k - 1 # j /\ k \in 0 .. j OBVIOUS
    <3>2. h[k - 1] = g[k - 1] BY <2>3, <3>1
    <3>3. CASE k = j BY <2>2, <2>3, <3>1, <3>2, <3>3
    <3>4. CASE k # j
      <4>1. k \in 1 .. (j - 1) BY <3>4
      <4>2. h[k] = g[k] BY <2>3, <3>1, <3>4
      <4>3. g[k] = PageUnmap(g[k - 1], v + k - 1) BY <2>1, <4>1
      <4>4. QED BY <3>2, <4>2, <4>3
    <3>5. QED BY <3>3, <3>4
  <2>6. Run(h, j) BY <2>4, <2>5
  <2>7. j \in 0 .. n OBVIOUS
  <2>8. QED BY <2>6, <2>7
<1>3. n \in T
  <2> HIDE DEF T
  <2>1. 0 .. n \subseteq T BY <1>1, <1>2, Climb
  <2>2. QED BY <2>1
<1>4. \E g : Eq(g)
  <2>1. PICK h : Run(h, n) BY <1>3
  <2>2. PICK g : g = [k \in 0 .. n |-> h[k]] OBVIOUS
  <2>3. ASSUME NEW k \in 0 .. n PROVE g[k] = IF k = 0 THEN m ELSE PageUnmap(g[k - 1], v + k - 1)
    <3>1. CASE k = 0 BY <2>1, <2>2, <3>1
    <3>2. CASE k # 0
      <4>1. k \in 1 .. n /\ k - 1 \in 0 .. n BY <3>2
      <4>2. g[k] = h[k] /\ g[k - 1] = h[k - 1] BY <2>2, <4>1
      <4>3. h[k] = PageUnmap(h[k - 1], v + k - 1) BY <2>1, <4>1
      <4>4. QED BY <3>2, <4>2, <4>3
    <3>3. QED BY <3>1, <3>2
  <2>4. g = [k \in 0 .. n |-> g[k]] BY <2>2
  <2>5. Eq(g) BY <2>3, <2>4
  <2>6. QED BY <2>5
<1>5. PICK g : g = CHOOSE h : Eq(h) OBVIOUS
<1>6. Eq(g) BY <1>4, <1>5, Zenon
<1>7. UnmapRange(m, v, n) = g[n] BY <1>5, Zenon DEF UnmapRange
<1>8. \A k \in 0 .. n : g[k] = IF k = 0 THEN m ELSE PageUnmap(g[k - 1], v + k - 1) BY <1>6, Zenon
<1>9. g[0] = m /\ \A k \in 1 .. n : g[k] = PageUnmap(g[k - 1], v + k - 1)
  <2>1. g[0] = m BY <1>8
  <2>2. ASSUME NEW k \in 1 .. n PROVE g[k] = PageUnmap(g[k - 1], v + k - 1)
    <3>1. k \in 0 .. n /\ k # 0 OBVIOUS
    <3>2. QED BY <1>8, <3>1, Zenon
  <2>3. QED BY <2>1, <2>2
<1>10. QED BY <1>7, <1>9 DEF UnmapRun

\* The states of the loop in Grown, from m on.
GrowRun(g, m, n) ==
    g[0] = m /\ \A k \in 1 .. n : g[k] = GrowHeap(g[k - 1])

LEMMA GrowRuns ==
  ASSUME NEW m, NEW n \in Nat
  PROVE  \E g : GrowRun(g, m, n) /\ Grown(m, n) = g[n]
<1> DEFINE Run(g, j) == g[0] = m /\ \A k \in 1 .. j : g[k] = GrowHeap(g[k - 1])
<1> DEFINE T == {j \in 0 .. n : \E g : Run(g, j)}
<1> DEFINE Eq(g) == g = [k \in 0 .. n |-> IF k = 0 THEN m ELSE GrowHeap(g[k - 1])]
<1>1. 0 \in T
  <2>1. PICK g : g = [k \in {0} |-> m] OBVIOUS
  <2>2. Run(g, 0) BY <2>1
  <2>3. QED BY <2>2
<1>2. ASSUME NEW j \in 1 .. n, j - 1 \in T PROVE j \in T
  <2>1. PICK g : Run(g, j - 1) BY <1>2
  <2>2. PICK e : e = GrowHeap(g[j - 1]) OBVIOUS
  <2>3. PICK h : h = [k \in 0 .. j |-> IF k = j THEN e ELSE g[k]] OBVIOUS
  <2>4. h[0] = m BY <2>1, <2>3
  <2>5. ASSUME NEW k \in 1 .. j PROVE h[k] = GrowHeap(h[k - 1])
    <3>1. k - 1 \in 0 .. j /\ k - 1 # j /\ k \in 0 .. j OBVIOUS
    <3>2. h[k - 1] = g[k - 1] BY <2>3, <3>1
    <3>3. CASE k = j BY <2>2, <2>3, <3>1, <3>2, <3>3
    <3>4. CASE k # j
      <4>1. k \in 1 .. (j - 1) BY <3>4
      <4>2. h[k] = g[k] BY <2>3, <3>1, <3>4
      <4>3. g[k] = GrowHeap(g[k - 1]) BY <2>1, <4>1
      <4>4. QED BY <3>2, <4>2, <4>3
    <3>5. QED BY <3>3, <3>4
  <2>6. Run(h, j) BY <2>4, <2>5
  <2>7. j \in 0 .. n OBVIOUS
  <2>8. QED BY <2>6, <2>7
<1>3. n \in T
  <2> HIDE DEF T
  <2>1. 0 .. n \subseteq T BY <1>1, <1>2, Climb
  <2>2. QED BY <2>1
<1>4. \E g : Eq(g)
  <2>1. PICK h : Run(h, n) BY <1>3
  <2>2. PICK g : g = [k \in 0 .. n |-> h[k]] OBVIOUS
  <2>3. ASSUME NEW k \in 0 .. n PROVE g[k] = IF k = 0 THEN m ELSE GrowHeap(g[k - 1])
    <3>1. CASE k = 0 BY <2>1, <2>2, <3>1
    <3>2. CASE k # 0
      <4>1. k \in 1 .. n /\ k - 1 \in 0 .. n BY <3>2
      <4>2. g[k] = h[k] /\ g[k - 1] = h[k - 1] BY <2>2, <4>1
      <4>3. h[k] = GrowHeap(h[k - 1]) BY <2>1, <4>1
      <4>4. QED BY <3>2, <4>2, <4>3
    <3>3. QED BY <3>1, <3>2
  <2>4. g = [k \in 0 .. n |-> g[k]] BY <2>2
  <2>5. Eq(g) BY <2>3, <2>4
  <2>6. QED BY <2>5
<1>5. PICK g : g = CHOOSE h : Eq(h) OBVIOUS
<1>6. Eq(g) BY <1>4, <1>5, Zenon
<1>7. Grown(m, n) = g[n] BY <1>5, Zenon DEF Grown
<1>8. \A k \in 0 .. n : g[k] = IF k = 0 THEN m ELSE GrowHeap(g[k - 1]) BY <1>6, Zenon
<1>9. g[0] = m /\ \A k \in 1 .. n : g[k] = GrowHeap(g[k - 1])
  <2>1. g[0] = m BY <1>8
  <2>2. ASSUME NEW k \in 1 .. n PROVE g[k] = GrowHeap(g[k - 1])
    <3>1. k \in 0 .. n /\ k # 0 OBVIOUS
    <3>2. QED BY <1>8, <3>1, Zenon
  <2>3. QED BY <2>1, <2>2
<1>10. QED BY <1>7, <1>9 DEF GrowRun

\* The states of the loop in Released, from m on.
ReleaseRun(g, m, v, n) ==
    g[0] = m /\ \A k \in 1 .. n : g[k] = Release(g[k - 1], v + n - k)

LEMMA ReleaseRuns ==
  ASSUME NEW m, NEW v, NEW n \in Nat
  PROVE  \E g : ReleaseRun(g, m, v, n) /\ Released(m, v, n) = g[n]
<1> DEFINE Run(g, j) == g[0] = m /\ \A k \in 1 .. j : g[k] = Release(g[k - 1], v + n - k)
<1> DEFINE T == {j \in 0 .. n : \E g : Run(g, j)}
<1> DEFINE Eq(g) == g = [k \in 0 .. n |-> IF k = 0 THEN m ELSE Release(g[k - 1], v + n - k)]
<1>1. 0 \in T
  <2>1. PICK g : g = [k \in {0} |-> m] OBVIOUS
  <2>2. Run(g, 0) BY <2>1
  <2>3. QED BY <2>2
<1>2. ASSUME NEW j \in 1 .. n, j - 1 \in T PROVE j \in T
  <2>1. PICK g : Run(g, j - 1) BY <1>2
  <2>2. PICK e : e = Release(g[j - 1], v + n - j) OBVIOUS
  <2>3. PICK h : h = [k \in 0 .. j |-> IF k = j THEN e ELSE g[k]] OBVIOUS
  <2>4. h[0] = m BY <2>1, <2>3
  <2>5. ASSUME NEW k \in 1 .. j PROVE h[k] = Release(h[k - 1], v + n - k)
    <3>1. k - 1 \in 0 .. j /\ k - 1 # j /\ k \in 0 .. j OBVIOUS
    <3>2. h[k - 1] = g[k - 1] BY <2>3, <3>1
    <3>3. CASE k = j BY <2>2, <2>3, <3>1, <3>2, <3>3
    <3>4. CASE k # j
      <4>1. k \in 1 .. (j - 1) BY <3>4
      <4>2. h[k] = g[k] BY <2>3, <3>1, <3>4
      <4>3. g[k] = Release(g[k - 1], v + n - k) BY <2>1, <4>1
      <4>4. QED BY <3>2, <4>2, <4>3
    <3>5. QED BY <3>3, <3>4
  <2>6. Run(h, j) BY <2>4, <2>5
  <2>7. j \in 0 .. n OBVIOUS
  <2>8. QED BY <2>6, <2>7
<1>3. n \in T
  <2> HIDE DEF T
  <2>1. 0 .. n \subseteq T BY <1>1, <1>2, Climb
  <2>2. QED BY <2>1
<1>4. \E g : Eq(g)
  <2>1. PICK h : Run(h, n) BY <1>3
  <2>2. PICK g : g = [k \in 0 .. n |-> h[k]] OBVIOUS
  <2>3. ASSUME NEW k \in 0 .. n PROVE g[k] = IF k = 0 THEN m ELSE Release(g[k - 1], v + n - k)
    <3>1. CASE k = 0 BY <2>1, <2>2, <3>1
    <3>2. CASE k # 0
      <4>1. k \in 1 .. n /\ k - 1 \in 0 .. n BY <3>2
      <4>2. g[k] = h[k] /\ g[k - 1] = h[k - 1] BY <2>2, <4>1
      <4>3. h[k] = Release(h[k - 1], v + n - k) BY <2>1, <4>1
      <4>4. QED BY <3>2, <4>2, <4>3
    <3>3. QED BY <3>1, <3>2
  <2>4. g = [k \in 0 .. n |-> g[k]] BY <2>2
  <2>5. Eq(g) BY <2>3, <2>4
  <2>6. QED BY <2>5
<1>5. PICK g : g = CHOOSE h : Eq(h) OBVIOUS
<1>6. Eq(g) BY <1>4, <1>5, Zenon
<1>7. Released(m, v, n) = g[n] BY <1>5, Zenon DEF Released
<1>8. \A k \in 0 .. n : g[k] = IF k = 0 THEN m ELSE Release(g[k - 1], v + n - k) BY <1>6, Zenon
<1>9. g[0] = m /\ \A k \in 1 .. n : g[k] = Release(g[k - 1], v + n - k)
  <2>1. g[0] = m BY <1>8
  <2>2. ASSUME NEW k \in 1 .. n PROVE g[k] = Release(g[k - 1], v + n - k)
    <3>1. k \in 0 .. n /\ k # 0 OBVIOUS
    <3>2. QED BY <1>8, <3>1, Zenon
  <2>3. QED BY <2>1, <2>2
<1>10. QED BY <1>7, <1>9 DEF ReleaseRun

\* The states of the loop in MapModules, from m on.
ModuleRun(g, m, n) ==
    g[0] = m /\ \A k \in 1 .. n : g[k] = MapRange(g[k - 1], Modules[k].first, ModulePage[k], Modules[k].count)

LEMMA ModuleRuns ==
  ASSUME NEW m, NEW n \in Nat
  PROVE  \E g : ModuleRun(g, m, n) /\ MapModules(m, n) = g[n]
<1> DEFINE Run(g, j) == g[0] = m /\ \A k \in 1 .. j : g[k] = MapRange(g[k - 1], Modules[k].first, ModulePage[k], Modules[k].count)
<1> DEFINE T == {j \in 0 .. n : \E g : Run(g, j)}
<1> DEFINE Eq(g) == g = [k \in 0 .. n |-> IF k = 0 THEN m ELSE MapRange(g[k - 1], Modules[k].first, ModulePage[k], Modules[k].count)]
<1>1. 0 \in T
  <2>1. PICK g : g = [k \in {0} |-> m] OBVIOUS
  <2>2. Run(g, 0) BY <2>1
  <2>3. QED BY <2>2
<1>2. ASSUME NEW j \in 1 .. n, j - 1 \in T PROVE j \in T
  <2>1. PICK g : Run(g, j - 1) BY <1>2
  <2>2. PICK e : e = MapRange(g[j - 1], Modules[j].first, ModulePage[j], Modules[j].count) OBVIOUS
  <2>3. PICK h : h = [k \in 0 .. j |-> IF k = j THEN e ELSE g[k]] OBVIOUS
  <2>4. h[0] = m BY <2>1, <2>3
  <2>5. ASSUME NEW k \in 1 .. j PROVE h[k] = MapRange(h[k - 1], Modules[k].first, ModulePage[k], Modules[k].count)
    <3>1. k - 1 \in 0 .. j /\ k - 1 # j /\ k \in 0 .. j OBVIOUS
    <3>2. h[k - 1] = g[k - 1] BY <2>3, <3>1
    <3>3. CASE k = j BY <2>2, <2>3, <3>1, <3>2, <3>3
    <3>4. CASE k # j
      <4>1. k \in 1 .. (j - 1) BY <3>4
      <4>2. h[k] = g[k] BY <2>3, <3>1, <3>4
      <4>3. g[k] = MapRange(g[k - 1], Modules[k].first, ModulePage[k], Modules[k].count) BY <2>1, <4>1
      <4>4. QED BY <3>2, <4>2, <4>3
    <3>5. QED BY <3>3, <3>4
  <2>6. Run(h, j) BY <2>4, <2>5
  <2>7. j \in 0 .. n OBVIOUS
  <2>8. QED BY <2>6, <2>7
<1>3. n \in T
  <2> HIDE DEF T
  <2>1. 0 .. n \subseteq T BY <1>1, <1>2, Climb
  <2>2. QED BY <2>1
<1>4. \E g : Eq(g)
  <2>1. PICK h : Run(h, n) BY <1>3
  <2>2. PICK g : g = [k \in 0 .. n |-> h[k]] OBVIOUS
  <2>3. ASSUME NEW k \in 0 .. n PROVE g[k] = IF k = 0 THEN m ELSE MapRange(g[k - 1], Modules[k].first, ModulePage[k], Modules[k].count)
    <3>1. CASE k = 0 BY <2>1, <2>2, <3>1
    <3>2. CASE k # 0
      <4>1. k \in 1 .. n /\ k - 1 \in 0 .. n BY <3>2
      <4>2. g[k] = h[k] /\ g[k - 1] = h[k - 1] BY <2>2, <4>1
      <4>3. h[k] = MapRange(h[k - 1], Modules[k].first, ModulePage[k], Modules[k].count) BY <2>1, <4>1
      <4>4. QED BY <3>2, <4>2, <4>3
    <3>3. QED BY <3>1, <3>2
  <2>4. g = [k \in 0 .. n |-> g[k]] BY <2>2
  <2>5. Eq(g) BY <2>3, <2>4
  <2>6. QED BY <2>5
<1>5. PICK g : g = CHOOSE h : Eq(h) OBVIOUS
<1>6. Eq(g) BY <1>4, <1>5, Zenon
<1>7. MapModules(m, n) = g[n] BY <1>5, Zenon DEF MapModules
<1>8. \A k \in 0 .. n : g[k] = IF k = 0 THEN m ELSE MapRange(g[k - 1], Modules[k].first, ModulePage[k], Modules[k].count) BY <1>6, Zenon
<1>9. g[0] = m /\ \A k \in 1 .. n : g[k] = MapRange(g[k - 1], Modules[k].first, ModulePage[k], Modules[k].count)
  <2>1. g[0] = m BY <1>8
  <2>2. ASSUME NEW k \in 1 .. n PROVE g[k] = MapRange(g[k - 1], Modules[k].first, ModulePage[k], Modules[k].count)
    <3>1. k \in 0 .. n /\ k # 0 OBVIOUS
    <3>2. QED BY <1>8, <3>1, Zenon
  <2>3. QED BY <2>1, <2>2
<1>10. QED BY <1>7, <1>9 DEF ModuleRun

-----------------------------------------------------------------------------
(* What the loops do.                                                      *)

\* The machine has stopped for want of memory.
Stopped(s) == s.panic \in {"out of memory", "heap size"} /\ Coherent(s)

LEMMA StoppedStays ==
  ASSUME NEW m, Stopped(m), NEW f, NEW v
  PROVE  PageMap(m, f, v) = m /\ PageUnmap(m, v) = m /\ GrowHeap(m) = m
<1>1. m.panic # "none" BY DEF Stopped
<1>2. PageMap(m, f, v) = m BY <1>1 DEF PageMap
<1>3. PageUnmap(m, v) = m BY <1>1 DEF PageUnmap
<1>4. \A w : AllocAndMap(m, w) = m BY <1>1, Zenon DEF AllocAndMap
<1>5. PICK a : a = AllocAndMap(m, HeapStart + m.size) OBVIOUS
<1>6. a = m BY <1>4, <1>5
<1>7. GrowHeap(m) = m BY <1>1, <1>5, <1>6 DEF GrowHeap
<1>8. QED BY <1>2, <1>3, <1>7

LEMMA NoMemoryStops == ASSUME NEW s, NoMemory(s) PROVE Stopped(s)
  BY DEF NoMemory, Stopped

\* k frames from f on are mapped from v on.
RangeDone(m, s, x, f, v, k) ==
    /\ Good(s, x, {}) /\ Coherent(s) /\ s.size = m.size /\ LowKept(m, s)
    /\ \A w \in UserPages :
          Entry(s, w) = IF w \in v .. (v + k - 1) THEN f + (w - v) ELSE Entry(m, w)

LEMMA MapRangeStopped ==
  ASSUME NEW m, Stopped(m), NEW f, NEW v, NEW n \in Nat
  PROVE  MapRange(m, f, v, n) = m
<1>1. PICK g : MapRun(g, m, f, v, n) /\ MapRange(m, f, v, n) = g[n] BY MapRuns
<1>2. g[0] = m /\ \A k \in 1 .. n : g[k] = PageMap(g[k - 1], f + k - 1, v + k - 1)
  BY <1>1 DEF MapRun
<1>3. PICK T : T = {k \in 0 .. n : g[k] = m} OBVIOUS
<1>4. \A k \in 1 .. n : k - 1 \in T => k \in T BY <1>2, <1>3, StoppedStays
<1>5. 0 \in T BY <1>2, <1>3
<1>6. 0 .. n \subseteq T BY <1>4, <1>5, Climb
<1>7. QED BY <1>1, <1>3, <1>6

LEMMA MapRangeIs ==
  ASSUME NEW m, NEW x \in {0, 1}, NEW f \in Nat, NEW v \in Nat, NEW n \in Nat,
         Good(m, x, {}), Coherent(m), \A w \in v .. (v + n - 1) : Entry(m, w) = NOPAGE,
         f .. (f + n - 1) \subseteq Reserved, v .. (v + n - 1) \subseteq UserPages
  PROVE  Stopped(MapRange(m, f, v, n)) \/ RangeDone(m, MapRange(m, f, v, n), x, f, v, n)
<1>1. PICK g : MapRun(g, m, f, v, n) /\ MapRange(m, f, v, n) = g[n] BY MapRuns
<1>2. g[0] = m /\ \A k \in 1 .. n : g[k] = PageMap(g[k - 1], f + k - 1, v + k - 1)
  BY <1>1 DEF MapRun
<1> DEFINE T == {k \in 0 .. n : Stopped(g[k]) \/ RangeDone(m, g[k], x, f, v, k)}
<1>3. 0 \in T
  <2>1. \A w \in UserPages : w \notin v .. (v + 0 - 1) OBVIOUS
  <2>2. LowKept(m, m) BY DEF LowKept
  <2>3. RangeDone(m, m, x, f, v, 0) BY <2>1, <2>2 DEF RangeDone
  <2>4. QED BY <1>2, <2>3
<1>4. ASSUME NEW k \in 1 .. n, k - 1 \in T PROVE k \in T
  <2>1. PICK a : a = g[k - 1] OBVIOUS
  <2>2. PICK s : s = g[k] OBVIOUS
  <2>3. s = PageMap(a, f + k - 1, v + k - 1) BY <1>2, <2>1, <2>2
  <2>4. CASE Stopped(a)
    <3>1. s = a BY <2>3, <2>4, StoppedStays
    <3>2. Stopped(g[k]) BY <2>2, <2>4, <3>1, Zenon
    <3>3. k \in 0 .. n OBVIOUS
    <3>4. QED BY <3>2, <3>3
  <2>5. CASE RangeDone(m, a, x, f, v, k - 1) /\ ~ Stopped(a)
    <3>1. PICK p \in Nat : p = v + k - 1 OBVIOUS
    <3>2. PICK q \in Nat : q = f + k - 1 OBVIOUS
    <3>3. p \in v .. (v + n - 1) /\ q \in f .. (f + n - 1) BY <3>1, <3>2
    <3>4. p \in UserPages /\ q \in Reserved \cup {} BY <3>3
    <3>5. p \notin v .. (v + (k - 1) - 1) BY <3>1
    <3>6. Good(a, x, {}) /\ Coherent(a) /\ a.size = m.size /\ LowKept(m, a)
      BY <2>5 DEF RangeDone
    <3>7. \A w \in UserPages : Entry(a, w) = IF w \in v .. (v + (k - 1) - 1)
                                             THEN f + (w - v) ELSE Entry(m, w)
      BY <2>5 DEF RangeDone
    <3>8. Entry(m, p) = NOPAGE BY <3>3
    <3>9. Entry(a, p) = NOPAGE BY <3>4, <3>5, <3>7, <3>8
    <3>10. s = PageMap(a, q, p) BY <2>3, <3>1, <3>2
    <3>11. NoMemory(s) \/ MapDone(a, s, x, {}, p, q)
      BY <3>4, <3>6, <3>9, <3>10, PageMapIs
    <3>12. CASE MapDone(a, s, x, {}, p, q)
      <4>1. {} \ {q} = {} OBVIOUS
      <4>2. /\ Good(s, x, {}) /\ Coherent(s) /\ Now(a, s, p, q) /\ LowKept(a, s)
            /\ s.size = a.size
        BY <3>12, <4>1 DEF MapDone
      <4>3. LowKept(m, s) BY <3>6, <4>2 DEF LowKept
      <4>4. ASSUME NEW w \in UserPages
            PROVE  Entry(s, w) = IF w \in v .. (v + k - 1) THEN f + (w - v) ELSE Entry(m, w)
        <5>1. w \in Nat BY UserPageIs, PageIs
        <5>2. Entry(s, w) = IF w = p THEN q ELSE Entry(a, w) BY <4>2 DEF Now
        <5>3. CASE w = p
          <6>1. w \in v .. (v + k - 1) /\ f + (w - v) = q BY <3>1, <3>2, <5>3
          <6>2. QED BY <5>2, <5>3, <6>1
        <5>4. CASE w # p
          <6>1. w \in v .. (v + k - 1) <=> w \in v .. (v + (k - 1) - 1) BY <3>1, <5>1, <5>4
          <6>2. QED BY <3>7, <5>2, <5>4, <6>1
        <5>5. QED BY <5>3, <5>4
      <4>5. RangeDone(m, s, x, f, v, k) BY <3>6, <4>2, <4>3, <4>4 DEF RangeDone
      <4>6. QED BY <2>2, <4>5
    <3>13. CASE NoMemory(s)
      <4>1. Stopped(s) BY <3>13, NoMemoryStops
      <4>2. QED BY <2>2, <4>1
    <3>14. QED BY <3>11, <3>12, <3>13
  <2>6. QED BY <1>4, <2>1, <2>4, <2>5
<1>5. n \in T
  <2> HIDE DEF T
  <2>1. 0 .. n \subseteq T BY <1>3, <1>4, Climb
  <2>2. QED BY <2>1
<1>6. QED BY <1>1, <1>5

LEMMA UnmapRangeStopped ==
  ASSUME NEW m, Stopped(m), NEW v, NEW n \in Nat
  PROVE  UnmapRange(m, v, n) = m
<1>1. PICK g : UnmapRun(g, m, v, n) /\ UnmapRange(m, v, n) = g[n] BY UnmapRuns
<1>2. g[0] = m /\ \A k \in 1 .. n : g[k] = PageUnmap(g[k - 1], v + k - 1)
  BY <1>1 DEF UnmapRun
<1>3. PICK T : T = {k \in 0 .. n : g[k] = m} OBVIOUS
<1>4. \A k \in 1 .. n : k - 1 \in T => k \in T BY <1>2, <1>3, StoppedStays
<1>5. 0 \in T BY <1>2, <1>3
<1>6. 0 .. n \subseteq T BY <1>4, <1>5, Climb
<1>7. QED BY <1>1, <1>3, <1>6

\* k entries of the boot table are gone, from v on.
LowRangeDone(m, s, x, v, k) ==
    /\ Good(s, x, {}) /\ Coherent(s) /\ s.size = m.size /\ Same(m, s)
    /\ \A i \in Slots : i \notin v .. (v + k - 1) => s.tab[BootTable][i] = m.tab[BootTable][i]

LEMMA UnmapRangeIs ==
  ASSUME NEW m, NEW x, NEW v \in Nat, NEW n \in Nat, Good(m, x, {}), Coherent(m),
         v .. (v + n - 1) \subseteq Slots,
         \A i \in v .. (v + n - 1) : m.tab[BootTable][i] # NOPAGE
  PROVE  LowRangeDone(m, UnmapRange(m, v, n), x, v, n)
<1>1. PICK g : UnmapRun(g, m, v, n) /\ UnmapRange(m, v, n) = g[n] BY UnmapRuns
<1>2. g[0] = m /\ \A k \in 1 .. n : g[k] = PageUnmap(g[k - 1], v + k - 1)
  BY <1>1 DEF UnmapRun
<1> DEFINE T == {k \in 0 .. n : LowRangeDone(m, g[k], x, v, k)}
<1>3. 0 \in T
  <2>1. LowRangeDone(m, m, x, v, 0) BY DEF LowRangeDone, Same
  <2>2. QED BY <1>2, <2>1
<1>4. ASSUME NEW k \in 1 .. n, k - 1 \in T PROVE k \in T
  <2>1. PICK a : a = g[k - 1] OBVIOUS
  <2>2. PICK s : s = g[k] OBVIOUS
  <2>3. s = PageUnmap(a, v + k - 1) BY <1>2, <2>1, <2>2
  <2>4. LowRangeDone(m, a, x, v, k - 1) BY <1>4, <2>1
  <2>5. PICK p \in Nat : p = v + k - 1 OBVIOUS
  <2>6. p \in v .. (v + n - 1) /\ p \notin v .. (v + (k - 1) - 1) BY <2>5
  <2>7. /\ Good(a, x, {}) /\ Coherent(a) /\ a.size = m.size /\ Same(m, a)
        /\ \A i \in Slots : i \notin v .. (v + (k - 1) - 1) =>
              a.tab[BootTable][i] = m.tab[BootTable][i]
    BY <2>4 DEF LowRangeDone
  <2>8. p \in Slots /\ a.tab[BootTable][p] # NOPAGE BY <2>6, <2>7
  <2>9. s = PageUnmap(a, p) BY <2>3, <2>5
  <2>10. LowUnmapDone(a, s, x, p) BY <2>7, <2>8, <2>9, LowUnmapIs
  <2>11. /\ Good(s, x, {}) /\ Coherent(s) /\ Same(a, s) /\ s.size = a.size
         /\ \A j \in Slots : j # p => s.tab[BootTable][j] = a.tab[BootTable][j]
    BY <2>10 DEF LowUnmapDone
  <2>12. ASSUME NEW i \in Slots, i \notin v .. (v + k - 1)
         PROVE  s.tab[BootTable][i] = m.tab[BootTable][i]
    <3>1. i # p /\ i \notin v .. (v + (k - 1) - 1) BY <2>5, <2>12
    <3>2. QED BY <2>7, <2>11, <3>1
  <2>13. Same(m, s) BY <2>7, <2>11 DEF Same
  <2>14. LowRangeDone(m, s, x, v, k) BY <2>7, <2>11, <2>12, <2>13 DEF LowRangeDone
  <2>15. QED BY <2>2, <2>14
<1>5. n \in T
  <2> HIDE DEF T
  <2>1. 0 .. n \subseteq T BY <1>3, <1>4, Climb
  <2>2. QED BY <2>1
<1>6. QED BY <1>1, <1>5

\* The n pages from v on are gone, with the frames behind them.
FreeDone(m, s, x, v, n, k) ==
    /\ Good(s, x, {}) /\ Coherent(s) /\ s.size = m.size
    /\ \A w \in UserPages :
          Entry(s, w) = IF w \in (v + n - k) .. (v + n - 1) THEN NOPAGE ELSE Entry(m, w)

LEMMA ReleasedIs ==
  ASSUME NEW m, NEW x, NEW v \in Nat, NEW n \in Nat, Good(m, x, {}), Coherent(m),
         v .. (v + n - 1) \subseteq UserPages,
         \A w \in v .. (v + n - 1) : Entry(m, w) \notin {NOPAGE} \cup Reserved
  PROVE  FreeDone(m, Released(m, v, n), x, v, n, n)
<1>1. PICK g : ReleaseRun(g, m, v, n) /\ Released(m, v, n) = g[n] BY ReleaseRuns
<1>2. g[0] = m /\ \A k \in 1 .. n : g[k] = Release(g[k - 1], v + n - k)
  BY <1>1 DEF ReleaseRun
<1> DEFINE T == {k \in 0 .. n : FreeDone(m, g[k], x, v, n, k)}
<1>3. 0 \in T
  <2>1. \A w \in UserPages : w \notin (v + n - 0) .. (v + n - 1) OBVIOUS
  <2>2. FreeDone(m, m, x, v, n, 0) BY <2>1 DEF FreeDone
  <2>3. QED BY <1>2, <2>2
<1>4. ASSUME NEW k \in 1 .. n, k - 1 \in T PROVE k \in T
  <2>1. PICK a : a = g[k - 1] OBVIOUS
  <2>2. PICK s : s = g[k] OBVIOUS
  <2>3. s = Release(a, v + n - k) BY <1>2, <2>1, <2>2
  <2>4. FreeDone(m, a, x, v, n, k - 1) BY <1>4, <2>1
  <2>5. PICK p \in Nat : p = v + n - k OBVIOUS
  <2>6. p \in v .. (v + n - 1) /\ p \notin (v + n - (k - 1)) .. (v + n - 1) BY <2>5
  <2>7. /\ Good(a, x, {}) /\ Coherent(a) /\ a.size = m.size
        /\ \A w \in UserPages : Entry(a, w) = IF w \in (v + n - (k - 1)) .. (v + n - 1)
                                              THEN NOPAGE ELSE Entry(m, w)
    BY <2>4 DEF FreeDone
  <2>8. p \in UserPages /\ Entry(a, p) \notin {NOPAGE} \cup Reserved BY <2>6, <2>7
  <2>9. s = Release(a, p) BY <2>3, <2>5
  <2>10. ReleaseDone(a, s, x, p) BY <2>7, <2>8, <2>9, ReleaseIs
  <2>11. Good(s, x, {}) /\ Coherent(s) /\ Now(a, s, p, NOPAGE) /\ s.size = a.size
    BY <2>10 DEF ReleaseDone
  <2>12. ASSUME NEW w \in UserPages
         PROVE  Entry(s, w) = IF w \in (v + n - k) .. (v + n - 1) THEN NOPAGE ELSE Entry(m, w)
    <3>1. w \in Nat BY UserPageIs, PageIs
    <3>2. Entry(s, w) = IF w = p THEN NOPAGE ELSE Entry(a, w) BY <2>11 DEF Now
    <3>3. CASE w = p
      <4>1. w \in (v + n - k) .. (v + n - 1) BY <2>5, <3>3
      <4>2. QED BY <3>2, <3>3, <4>1
    <3>4. CASE w # p
      <4>1. w \in (v + n - k) .. (v + n - 1) <=> w \in (v + n - (k - 1)) .. (v + n - 1)
        BY <2>5, <3>1, <3>4
      <4>2. QED BY <2>7, <3>2, <3>4, <4>1
    <3>5. QED BY <3>3, <3>4
  <2>13. FreeDone(m, s, x, v, n, k) BY <2>7, <2>11, <2>12 DEF FreeDone
  <2>14. QED BY <2>2, <2>13
<1>5. n \in T
  <2> HIDE DEF T
  <2>1. 0 .. n \subseteq T BY <1>3, <1>4, Climb
  <2>2. QED BY <2>1
<1>6. QED BY <1>1, <1>5

Bigger(m) == [m EXCEPT !.size = @ + 1]

LEMMA BiggerIs ==
  ASSUME NEW m, NEW x, Good(m, x, {}), Coherent(m), NEW s, s = Bigger(m)
  PROVE  /\ Good(s, x, {}) /\ Coherent(s) /\ s.size = m.size + 1 /\ Same(m, s)
         /\ IsRecord(s)
<1>1. IsRecord(m) /\ m.size \in Nat /\ m.panic = "none" BY DEF Good, Tables
<1>2. s = [bits |-> m.bits, pde |-> m.pde, tab |-> m.tab, placement |-> m.placement,
           size |-> m.size + 1, tlb |-> m.tlb, panic |-> m.panic]
  BY <1>1 DEF IsRecord, Bigger
<1>3. /\ s.bits = m.bits /\ s.pde = m.pde /\ s.tab = m.tab /\ s.placement = m.placement
      /\ s.size = m.size + 1 /\ s.tlb = m.tlb /\ s.panic = m.panic /\ IsRecord(s)
  BY <1>2, Fields
<1>4. \A v : Entry(s, v) = Entry(m, v) BY <1>3 DEF Entry
<1>5. Same(m, s) BY <1>4 DEF Same
<1>6. Coherent(s) BY <1>3, <1>5, CoherentSame
<1>7. Tables(s) BY <1>1, <1>3 DEF Good, Tables
<1>8. Owned(s, {}) BY <1>3, <1>4 DEF Good, Owned
<1>9. Placed(s, x)
  <2>1. Used(s) = Used(m) BY <1>3 DEF Used
  <2>2. QED BY <1>3, <2>1 DEF Good, Placed
<1>10. QED BY <1>1, <1>3, <1>5, <1>6, <1>7, <1>8, <1>9 DEF Good

\* k pages are added to the heap, with frames of their own.
GrowDone(m, s, x, k) ==
    /\ Good(s, x, {}) /\ Coherent(s) /\ s.size = m.size + k /\ s.size <= HeapMax
    /\ \A w \in UserPages :
          IF w \in (HeapStart + m.size) .. (HeapStart + m.size + k - 1)
          THEN Entry(s, w) \in FrameSet \ Reserved
          ELSE Entry(s, w) = Entry(m, w)

\* One round of liballoc_alloc.
LEMMA GrowHeapIs ==
  ASSUME NEW m, NEW x \in {0, 1}, Good(m, x, {}), Coherent(m), m.size <= HeapMax,
         Entry(m, HeapStart + m.size) = NOPAGE, NEW s, s = GrowHeap(m)
  PROVE  Stopped(s) \/ GrowDone(m, s, x, 1)
<1>1. PICK c \in Nat : c = m.size BY DEF Good, Tables
<1>2. PICK v \in Nat : v = HeapStart + c BY RegionsAssumption
<1>3. v \in UserPages
  <2>1. v \in HeapPages BY <1>1, <1>2, RegionsAssumption DEF HeapPages
  <2>2. QED BY <2>1, HeapIsUser
<1>4. PICK a : a = AllocAndMap(m, v) OBVIOUS
<1>5. Entry(m, v) = NOPAGE BY <1>1, <1>2
<1>6. NoMemory(a) \/ \E f \in FrameSet \ Reserved : MapDone(m, a, x, {}, v, f)
  BY <1>3, <1>4, <1>5, AllocAndMapIs
<1>7. /\ a.panic # "none" => s = a
      /\ a.panic = "none" /\ a.size + 1 > HeapMax => s = Panic(Bigger(a), "heap size")
      /\ a.panic = "none" /\ ~ (a.size + 1 > HeapMax) => s = Bigger(a)
  <2>1. a = AllocAndMap(m, HeapStart + m.size) BY <1>1, <1>2, <1>4
  <2>2. QED BY <2>1, Zenon DEF GrowHeap, Bigger
<1>8. CASE NoMemory(a)
  <2>1. Stopped(a) /\ a.panic # "none" BY <1>8 DEF NoMemory, Stopped
  <2>2. s = a BY <1>7, <2>1
  <2>3. QED BY <2>1, <2>2
<1>9. ASSUME NEW f \in FrameSet \ Reserved, MapDone(m, a, x, {}, v, f)
      PROVE  Stopped(s) \/ GrowDone(m, s, x, 1)
  <2>1. {} \ {f} = {} OBVIOUS
  <2>2. Good(a, x, {}) /\ Coherent(a) /\ Now(m, a, v, f) /\ a.size = m.size
    BY <1>9, <2>1 DEF MapDone
  <2>3. a.panic = "none" BY <2>2 DEF Good
  <2>4. PICK b : b = Bigger(a) OBVIOUS
  <2>5. /\ Good(b, x, {}) /\ Coherent(b) /\ b.size = a.size + 1 /\ Same(a, b) /\ IsRecord(b)
    BY <2>2, <2>4, BiggerIs
  <2>6. CASE a.size + 1 > HeapMax
    <3>1. s = Panic(b, "heap size") BY <1>7, <2>3, <2>4, <2>6
    <3>2. PICK why : why = "heap size" OBVIOUS
    <3>3. s = Panic(b, why) BY <3>1, <3>2
    <3>4. s.panic = why /\ Coherent(s) BY <2>5, <3>3, PanicIs
    <3>5. QED BY <3>2, <3>4 DEF Stopped
  <2>7. CASE ~ (a.size + 1 > HeapMax)
    <3>1. s = b BY <1>7, <2>3, <2>4, <2>7
    <3>2. b.size = m.size + 1 /\ b.size <= HeapMax
      BY <1>1, <2>2, <2>5, <2>7, RegionsAssumption
    <3>3. ASSUME NEW w \in UserPages
          PROVE  IF w \in (HeapStart + m.size) .. (HeapStart + m.size + 1 - 1)
                 THEN Entry(b, w) \in FrameSet \ Reserved
                 ELSE Entry(b, w) = Entry(m, w)
      <4>1. w \in Nat BY UserPageIs, PageIs
      <4>2. w \in (HeapStart + m.size) .. (HeapStart + m.size + 1 - 1) <=> w = v
        BY <1>1, <1>2, <4>1, RegionsAssumption
      <4>3. Entry(b, w) = IF w = v THEN f ELSE Entry(m, w) BY <2>2, <2>5 DEF Now, Same
      <4>4. QED BY <1>9, <4>2, <4>3
    <3>4. GrowDone(m, b, x, 1) BY <2>5, <3>2, <3>3 DEF GrowDone
    <3>5. QED BY <3>1, <3>4
  <2>8. QED BY <2>6, <2>7
<1>10. QED BY <1>6, <1>8, <1>9

LEMMA GrownIs ==
  ASSUME NEW m, NEW x \in {0, 1}, NEW n \in Nat, Good(m, x, {}), Coherent(m),
         m.size <= HeapMax,
         \A w \in HeapPages : HeapStart + m.size <= w => Entry(m, w) = NOPAGE
  PROVE  Stopped(Grown(m, n)) \/ GrowDone(m, Grown(m, n), x, n)
<1>0. PICK c \in Nat : c = m.size BY DEF Good, Tables
<1>1. PICK g : GrowRun(g, m, n) /\ Grown(m, n) = g[n] BY GrowRuns
<1>2. g[0] = m /\ \A k \in 1 .. n : g[k] = GrowHeap(g[k - 1]) BY <1>1 DEF GrowRun
<1> DEFINE T == {k \in 0 .. n : Stopped(g[k]) \/ GrowDone(m, g[k], x, k)}
<1>3. 0 \in T
  <2>1. \A w \in UserPages : w \notin (HeapStart + m.size) .. (HeapStart + m.size + 0 - 1)
    BY <1>0, RegionsAssumption
  <2>2. m.size = m.size + 0 BY <1>0
  <2>3. GrowDone(m, m, x, 0) BY <2>1, <2>2 DEF GrowDone
  <2>4. QED BY <1>2, <2>3
<1>4. ASSUME NEW k \in 1 .. n, k - 1 \in T PROVE k \in T
  <2>0. k \in 0 .. n OBVIOUS
  <2>1. PICK a : a = g[k - 1] OBVIOUS
  <2>2. PICK s : s = g[k] OBVIOUS
  <2>3. s = GrowHeap(a) BY <1>2, <2>1, <2>2
  <2>4. CASE Stopped(a)
    <3>1. s = a BY <2>3, <2>4, StoppedStays
    <3>2. Stopped(g[k]) BY <2>2, <2>4, <3>1, Zenon
    <3>3. QED BY <2>0, <3>2
  <2>5. CASE GrowDone(m, a, x, k - 1)
    <3>1. Good(a, x, {}) /\ Coherent(a) /\ a.size = c + (k - 1) /\ a.size <= HeapMax
      BY <1>0, <2>5 DEF GrowDone
    <3>2. PICK v \in Nat : v = HeapStart + c + (k - 1) BY <1>0, RegionsAssumption
    <3>3. v = HeapStart + a.size /\ v \in HeapPages /\ HeapStart + m.size <= v
      BY <1>0, <3>1, <3>2, RegionsAssumption DEF HeapPages
    <3>4. \A w \in UserPages :
             IF w \in (HeapStart + c) .. (HeapStart + c + (k - 1) - 1)
             THEN Entry(a, w) \in FrameSet \ Reserved
             ELSE Entry(a, w) = Entry(m, w)
      BY <1>0, <2>5 DEF GrowDone
    <3>5. v \notin (HeapStart + c) .. (HeapStart + c + (k - 1) - 1) /\ v \in UserPages
      BY <1>0, <3>2, <3>3, HeapIsUser, RegionsAssumption
    <3>6. Entry(a, HeapStart + a.size) = NOPAGE BY <3>3, <3>4, <3>5
    <3>7. Stopped(s) \/ GrowDone(a, s, x, 1) BY <2>3, <3>1, <3>6, GrowHeapIs
    <3>8. CASE GrowDone(a, s, x, 1)
      <4>1. Good(s, x, {}) /\ Coherent(s) /\ s.size = a.size + 1 /\ s.size <= HeapMax
        BY <3>8 DEF GrowDone
      <4>2. s.size = m.size + k BY <1>0, <3>1, <4>1
      <4>3. \A w \in UserPages :
               IF w \in v .. (v + 1 - 1)
               THEN Entry(s, w) \in FrameSet \ Reserved
               ELSE Entry(s, w) = Entry(a, w)
        BY <3>3, <3>8 DEF GrowDone
      <4>4. ASSUME NEW w \in UserPages
            PROVE  IF w \in (HeapStart + c) .. (HeapStart + c + k - 1)
                   THEN Entry(s, w) \in FrameSet \ Reserved
                   ELSE Entry(s, w) = Entry(m, w)
        <5>1. w \in Nat BY UserPageIs, PageIs
        <5>2. CASE w = v
          <6>1. w \in (HeapStart + c) .. (HeapStart + c + k - 1) /\ w \in v .. (v + 1 - 1)
            BY <1>0, <3>2, <5>2, RegionsAssumption
          <6>2. QED BY <4>3, <6>1
        <5>3. CASE w # v
          <6>1. w \notin v .. (v + 1 - 1) BY <5>1, <5>3
          <6>2. w \in (HeapStart + c) .. (HeapStart + c + k - 1) <=>
                w \in (HeapStart + c) .. (HeapStart + c + (k - 1) - 1)
            BY <1>0, <3>2, <5>1, <5>3, RegionsAssumption
          <6>3. Entry(s, w) = Entry(a, w) BY <4>3, <6>1
          <6>4. QED BY <3>4, <6>2, <6>3
        <5>4. QED BY <5>2, <5>3
      <4>5. GrowDone(m, s, x, k) BY <1>0, <4>1, <4>2, <4>4 DEF GrowDone
      <4>6. QED BY <2>0, <2>2, <4>5
    <3>9. CASE Stopped(s) BY <2>0, <2>2, <3>9
    <3>10. QED BY <3>7, <3>8, <3>9
  <2>6. QED BY <1>4, <2>1, <2>4, <2>5
<1>5. n \in T
  <2> HIDE DEF T
  <2>1. 0 .. n \subseteq T BY <1>3, <1>4, Climb
  <2>2. QED BY <2>1
<1>6. QED BY <1>1, <1>5

-----------------------------------------------------------------------------
(* The modules.                                                            *)

\* A quotient that is rounded up.
LEMMA RoundUp ==
  ASSUME NEW e \in Nat, NEW P \in Nat \ {0}
  PROVE  \E c \in Nat : c = (e + (P - 1)) \div P /\ e <= P * c /\ P * c < e + P
<1>1. PICK z \in Nat : z = e + (P - 1) OBVIOUS
<1>2. PICK c \in Nat : c = z \div P BY <1>1, DivMod
<1>3. PICK t \in 0 .. (P - 1) : t = z % P BY <1>1, DivMod
<1>4. z = P * c + t /\ P * c \in Nat BY <1>1, <1>2, <1>3, DivMod
<1>5. e <= P * c /\ P * c < e + P BY <1>1, <1>3, <1>4
<1>6. QED BY <1>1, <1>2, <1>5

\* The frames of module i, from the one with its first byte to the one with its
\* last.
LEMMA RoundOne ==
  ASSUME NEW i \in 1 .. Len(Mods)
  PROVE  /\ Mods[i].start \in Nat /\ Mods[i].end \in Nat /\ Mods[i].start < Mods[i].end
         /\ Modules[i] \in [first : Nat, count : Nat]
         /\ Modules[i].first = Mods[i].start \div PageBytes
         /\ Mods[i].end <= PageBytes * (Modules[i].first + Modules[i].count)
         /\ PageBytes * (Modules[i].first + Modules[i].count) < Mods[i].end + PageBytes
<1>1. PICK P \in Nat \ {0} : P = PageBytes BY ReservedAssumption
<1>2. Mods[i].start \in Nat /\ Mods[i].end \in Nat /\ Mods[i].start < Mods[i].end
  <2>1. PICK S : S = [start : Nat, end : Nat] OBVIOUS
  <2>2. Mods \in Seq(S) BY <2>1, ReservedAssumption
  <2>3. Mods[i] \in S BY <2>2
  <2>4. QED BY <2>1, <2>3, ReservedAssumption
<1>3. PICK a \in Nat, e \in Nat : a = Mods[i].start /\ e = Mods[i].end /\ a < e BY <1>2
<1>4. PICK q \in Nat : q = a \div P BY DivMod
<1>5. PICK r \in 0 .. (P - 1) : r = a % P BY DivMod
<1>6. a = P * q + r /\ P * q \in Nat BY <1>4, <1>5, DivMod
<1>7. PICK c \in Nat : c = (e + (P - 1)) \div P /\ e <= P * c /\ P * c < e + P BY RoundUp
<1>8. q <= c
  <2>1. SUFFICES ASSUME c < q PROVE FALSE OBVIOUS
  <2>2. P * c + P <= P * q BY <2>1, Less
  <2>3. PICK y \in Nat, z \in Nat : y = P * c /\ z = P * q OBVIOUS
  <2>4. e <= y /\ a = z + r /\ y + P <= z BY <1>6, <1>7, <2>2, <2>3
  <2>5. a < e BY <1>3
  <2>6. QED BY <2>4, <2>5
<1>9. Modules[i] = [first |-> q, count |-> c - q]
  BY <1>1, <1>3, <1>4, <1>7, Zenon DEF Modules
<1>10. PICK k \in Nat : k = c - q /\ q + k = c BY <1>8
<1>11. Modules[i].first = q /\ Modules[i].count = k /\ Modules[i] \in [first : Nat, count : Nat]
  BY <1>9, <1>10
<1>12. PageBytes * (Modules[i].first + Modules[i].count) = P * c BY <1>1, <1>10, <1>11
<1>13. QED BY <1>1, <1>2, <1>3, <1>4, <1>7, <1>11, <1>12

LEMMA RoundIs == Modules \in Seq([first : Nat, count : Nat]) /\ Len(Modules) = Len(Mods)
<1>1. PICK n \in Nat : n = Len(Mods) BY ReservedAssumption
<1>2. PICK S : S = [first : Nat, count : Nat] OBVIOUS
<1>3. DOMAIN Modules = 1 .. n BY <1>1 DEF Modules
<1>4. Modules = [i \in 1 .. n |-> Modules[i]] BY <1>1 DEF Modules
<1>5. \A i \in 1 .. n : Modules[i] \in S BY <1>1, <1>2, RoundOne
<1>6. Modules \in Seq(S)
  <2>1. Modules \in [1 .. n -> S] BY <1>4, <1>5
  <2>2. QED BY <2>1
<1>7. Len(Modules) = n BY <1>3, <1>6
<1>8. QED BY <1>1, <1>2, <1>6, <1>7

LEMMA ModuleIs ==
  /\ Len(Modules) \in Nat
  /\ \A i \in 1 .. Len(Modules) :
        /\ Modules[i].first \in Nat /\ Modules[i].count \in Nat
        /\ Modules[i].first .. (Modules[i].first + Modules[i].count - 1) \subseteq Reserved
<1>1. Modules \in Seq([first : Nat, count : Nat]) /\ Len(Modules) = Len(Mods)
  BY RoundIs
<1>2. Len(Modules) \in Nat BY <1>1
<1>3. \A i \in 1 .. Len(Modules) : Modules[i] \in [first : Nat, count : Nat]
  <2>1. PICK S : S = [first : Nat, count : Nat] OBVIOUS
  <2>2. Modules \in Seq(S) BY <1>1, <2>1
  <2>3. \A i \in 1 .. Len(Modules) : Modules[i] \in S BY <2>2
  <2>4. QED BY <2>1, <2>3
<1>4. \A i \in 1 .. Len(Modules) : Modules[i].first \in Nat /\ Modules[i].count \in Nat BY <1>3
<1>5. QED BY <1>2, <1>4, ReservedAssumption

\* The addresses of the modules, counted from 0.
OffsetRun(g, n) ==
    g[0] = ModStart /\ \A k \in 1 .. n : g[k] = g[k - 1] + Modules[k].count + 1

LEMMA OffsetsExist ==
  ASSUME NEW n \in Nat
  PROVE  \E g : OffsetRun(g, n)
<1>1. PICK T : T = {j \in 0 .. n : \E g : OffsetRun(g, j)} OBVIOUS
<1>2. 0 \in T
  <2>1. PICK g : g = [k \in {0} |-> ModStart] OBVIOUS
  <2>2. OffsetRun(g, 0) BY <2>1 DEF OffsetRun
  <2>3. QED BY <1>1, <2>2
<1>3. ASSUME NEW j \in 1 .. n, j - 1 \in T PROVE j \in T
  <2>1. PICK g : OffsetRun(g, j - 1) BY <1>1, <1>3
  <2>2. PICK e : e = g[j - 1] + Modules[j].count + 1 OBVIOUS
  <2>3. PICK h : h = [k \in 0 .. j |-> IF k = j THEN e ELSE g[k]] OBVIOUS
  <2>4. h[0] = ModStart BY <2>1, <2>3 DEF OffsetRun
  <2>5. ASSUME NEW k \in 1 .. j PROVE h[k] = h[k - 1] + Modules[k].count + 1
    <3>1. k - 1 \in 0 .. j /\ k - 1 # j /\ k \in 0 .. j OBVIOUS
    <3>2. h[k - 1] = g[k - 1] BY <2>3, <3>1
    <3>3. CASE k = j BY <2>2, <2>3, <3>1, <3>2, <3>3
    <3>4. CASE k # j
      <4>1. k \in 1 .. (j - 1) BY <3>4
      <4>2. h[k] = g[k] BY <2>3, <3>1, <3>4
      <4>3. g[k] = g[k - 1] + Modules[k].count + 1 BY <2>1, <4>1 DEF OffsetRun
      <4>4. QED BY <3>2, <4>2, <4>3
    <3>5. QED BY <3>3, <3>4
  <2>6. OffsetRun(h, j) BY <2>4, <2>5 DEF OffsetRun
  <2>7. j \in 0 .. n OBVIOUS
  <2>8. QED BY <1>1, <2>6, <2>7
<1>4. 0 .. n \subseteq T BY <1>2, <1>3, Climb
<1>5. QED BY <1>1, <1>4

LEMMA ModulePageIs ==
  /\ ModulePage[1] = ModStart
  /\ \A i \in 1 .. Len(Modules) : ModulePage[i + 1] = ModulePage[i] + Modules[i].count + 1
<1>0. PICK n \in Nat : n = Len(Modules) BY ModuleIs
<1> DEFINE Eq(g) == g = [i \in 1 .. (Len(Modules) + 1) |->
                            IF i = 1 THEN ModStart ELSE g[i - 1] + Modules[i - 1].count + 1]
<1>1. \E g : Eq(g)
  <2>1. PICK h : OffsetRun(h, n) BY OffsetsExist
  <2>2. PICK g : g = [i \in 1 .. (n + 1) |-> h[i - 1]] OBVIOUS
  <2>3. ASSUME NEW i \in 1 .. (n + 1)
        PROVE  g[i] = IF i = 1 THEN ModStart ELSE g[i - 1] + Modules[i - 1].count + 1
    <3>1. CASE i = 1
      <4>1. g[i] = h[0] BY <2>2, <3>1
      <4>2. QED BY <2>1, <3>1, <4>1 DEF OffsetRun
    <3>2. CASE i # 1
      <4>1. PICK k \in 1 .. n : k = i - 1 BY <3>2
      <4>2. g[i] = h[k] /\ g[i - 1] = h[k - 1] BY <2>2, <3>2, <4>1
      <4>3. h[k] = h[k - 1] + Modules[k].count + 1 BY <2>1 DEF OffsetRun
      <4>4. QED BY <3>2, <4>1, <4>2, <4>3
    <3>3. QED BY <3>1, <3>2
  <2>4. g = [i \in 1 .. (n + 1) |-> g[i]] BY <2>2
  <2>5. Eq(g) BY <1>0, <2>3, <2>4
  <2>6. QED BY <2>5
<1>2. PICK g : g = CHOOSE h : Eq(h) OBVIOUS
<1>3. Eq(g) BY <1>1, <1>2, Zenon
<1>4. ModulePage = g BY <1>2, Zenon DEF ModulePage
<1>5. \A i \in 1 .. (n + 1) :
         g[i] = IF i = 1 THEN ModStart ELSE g[i - 1] + Modules[i - 1].count + 1
  BY <1>0, <1>3, Zenon
<1>6. g[1] = ModStart
  <2>1. 1 \in 1 .. (n + 1) OBVIOUS
  <2>2. QED BY <1>5, <2>1, Zenon
<1>7. ASSUME NEW i \in 1 .. n PROVE g[i + 1] = g[i] + Modules[i].count + 1
  <2>1. i + 1 \in 1 .. (n + 1) /\ i + 1 # 1 /\ (i + 1) - 1 = i BY <1>0
  <2>2. QED BY <1>5, <2>1
<1>8. QED BY <1>0, <1>4, <1>6, <1>7

LEMMA ModulePageInNat ==
  \A i \in 1 .. (Len(Modules) + 1) : ModulePage[i] \in Nat /\ ModStart <= ModulePage[i]
<1>0. PICK n \in Nat : n = Len(Modules) BY ModuleIs
<1>1. PICK T : T = {k \in 0 .. n : ModulePage[k + 1] \in Nat /\ ModStart <= ModulePage[k + 1]}
  OBVIOUS
<1>2. 0 \in T
  <2>1. 0 + 1 = 1 OBVIOUS
  <2>2. QED BY <1>0, <1>1, <2>1, ModulePageIs, RegionsAssumption
<1>3. ASSUME NEW k \in 1 .. n, k - 1 \in T PROVE k \in T
  <2>1. (k - 1) + 1 = k OBVIOUS
  <2>2. ModulePage[k] \in Nat /\ ModStart <= ModulePage[k] BY <1>1, <1>3, <2>1
  <2>3. ModulePage[k + 1] = ModulePage[k] + Modules[k].count + 1 /\ Modules[k].count \in Nat
    BY <1>0, ModulePageIs, ModuleIs
  <2>4. QED BY <1>1, <2>2, <2>3, RegionsAssumption
<1>4. 0 .. n \subseteq T BY <1>2, <1>3, Climb
<1>5. ASSUME NEW i \in 1 .. (n + 1) PROVE ModulePage[i] \in Nat /\ ModStart <= ModulePage[i]
  <2>1. i - 1 \in T /\ (i - 1) + 1 = i BY <1>4
  <2>2. QED BY <1>1, <2>1
<1>6. QED BY <1>0, <1>5

LEMMA ModulePageBelow ==
  \A i \in 1 .. (Len(Modules) + 1) : ModulePage[i] <= ModulePage[Len(Modules) + 1]
<1>0. PICK n \in Nat : n = Len(Modules) BY ModuleIs
<1>1. PICK T : T = {k \in 0 .. n : ModulePage[n + 1 - k] <= ModulePage[n + 1]} OBVIOUS
<1>2. 0 \in T
  <2>1. n + 1 - 0 = n + 1 /\ n + 1 \in 1 .. (n + 1) OBVIOUS
  <2>2. ModulePage[n + 1] \in Nat BY <1>0, <2>1, ModulePageInNat
  <2>3. QED BY <1>1, <2>1, <2>2
<1>3. ASSUME NEW k \in 1 .. n, k - 1 \in T PROVE k \in T
  <2>1. PICK i \in 1 .. n : i = n + 1 - k OBVIOUS
  <2>2. n + 1 - (k - 1) = i + 1 /\ i \in 1 .. (n + 1) /\ n + 1 \in 1 .. (n + 1) BY <2>1
  <2>3. ModulePage[i + 1] <= ModulePage[n + 1] BY <1>1, <1>3, <2>2
  <2>4. ModulePage[i + 1] = ModulePage[i] + Modules[i].count + 1 /\ Modules[i].count \in Nat
    BY <1>0, ModulePageIs, ModuleIs
  <2>5. ModulePage[i] \in Nat /\ ModulePage[n + 1] \in Nat BY <1>0, <2>2, ModulePageInNat
  <2>6. ModulePage[i] <= ModulePage[n + 1] BY <2>3, <2>4, <2>5
  <2>7. QED BY <1>1, <2>1, <2>6
<1>4. 0 .. n \subseteq T BY <1>2, <1>3, Climb
<1>5. ASSUME NEW i \in 1 .. (n + 1) PROVE ModulePage[i] <= ModulePage[n + 1]
  <2>1. n + 1 - i \in T /\ n + 1 - (n + 1 - i) = i BY <1>4
  <2>2. QED BY <1>1, <2>1
<1>6. QED BY <1>0, <1>5

\* A module and the page behind it are in the modules' part of memory.
LEMMA ModuleSpan ==
  ASSUME NEW i \in 1 .. Len(Modules), NEW k \in 0 .. Modules[i].count
  PROVE  ModulePage[i] + k \in ModulePages /\ ModulePage[i] + k \in UserPages
<1>0. PICK n \in Nat : n = Len(Modules) BY ModuleIs
<1>1. i \in 1 .. n /\ i \in 1 .. (n + 1) /\ i + 1 \in 1 .. (n + 1) /\ n + 1 \in 1 .. (n + 1)
  BY <1>0
<1>2. /\ ModulePage[i] \in Nat /\ ModStart <= ModulePage[i] /\ ModulePage[n + 1] \in Nat
      /\ ModulePage[i + 1] <= ModulePage[n + 1]
  BY <1>0, <1>1, ModulePageInNat, ModulePageBelow
<1>3. ModulePage[i + 1] = ModulePage[i] + Modules[i].count + 1 /\ Modules[i].count \in Nat
  BY ModulePageIs, ModuleIs
<1>4. ModStart \in Nat BY RegionsAssumption
<1>5. ModulePage[i] + k \in ModStart .. (ModulePage[n + 1] - 1) BY <1>2, <1>3, <1>4
<1>6. ModulePage[i] + k \in ModulePages BY <1>0, <1>5 DEF ModulePages
<1>7. QED BY <1>6, RegionsAssumption

\* The first i modules are mapped, and nothing behind them.
ModulesMapped(m, s, x, i) ==
    /\ Good(s, x, {}) /\ Coherent(s) /\ s.size = m.size
    /\ \A w \in UserPages \ ModulePages : Entry(s, w) = Entry(m, w)
    /\ \A w \in ModulePages : ModulePage[i + 1] <= w => Entry(s, w) = NOPAGE
    /\ \A j \in 1 .. i :
          InPlace(s, j) /\ ModulePage[j] + Modules[j].count < ModulePage[i + 1]

\* InPlace only depends on the module's own pages.
LEMMA InPlaceKept ==
  ASSUME NEW m, NEW s, NEW j \in 1 .. Len(Modules), InPlace(m, j),
         \A k \in 0 .. Modules[j].count :
            Entry(s, ModulePage[j] + k) = Entry(m, ModulePage[j] + k)
  PROVE  InPlace(s, j)
<1>1. PICK c \in Nat : c = Modules[j].count BY ModuleIs
<1>2. c \in 0 .. c /\ \A k \in 0 .. (c - 1) : k \in 0 .. c OBVIOUS
<1>3. Entry(s, ModulePage[j] + c) = NOPAGE BY <1>1, <1>2 DEF InPlace
<1>4. \A k \in 0 .. (c - 1) : Entry(s, ModulePage[j] + k) = Modules[j].first + k
  BY <1>1, <1>2 DEF InPlace
<1>5. QED BY <1>1, <1>3, <1>4 DEF InPlace

\* One round of the loop in module_table_init.
LEMMA MapModuleIs ==
  ASSUME NEW m, NEW x \in {0, 1}, NEW i \in 1 .. Len(Modules), NEW a,
         ModulesMapped(m, a, x, i - 1), NEW s,
         s = MapRange(a, Modules[i].first, ModulePage[i], Modules[i].count)
  PROVE  Stopped(s) \/ ModulesMapped(m, s, x, i)
<1>0. PICK n \in Nat : n = Len(Modules) BY ModuleIs
<1>1. PICK c \in Nat : c = Modules[i].count BY ModuleIs
<1>2. PICK f \in Nat : f = Modules[i].first BY ModuleIs
<1>3. i \in 1 .. n /\ i \in 1 .. (n + 1) /\ i + 1 \in 1 .. (n + 1) /\ (i - 1) + 1 = i BY <1>0
<1>4. PICK v \in Nat : v = ModulePage[i] BY <1>0, <1>3, ModulePageInNat
<1>5. ModulePage[i + 1] = v + c + 1 BY <1>1, <1>4, ModulePageIs
<1>6. \A k \in 0 .. c : v + k \in ModulePages /\ v + k \in UserPages
  BY <1>1, <1>4, ModuleSpan
<1>7. ASSUME NEW w \in v .. (v + c - 1)
      PROVE  w \in ModulePages /\ w \in UserPages /\ Entry(a, w) = NOPAGE
  <2>1. w - v \in 0 .. c /\ v + (w - v) = w /\ v <= w OBVIOUS
  <2>2. w \in ModulePages /\ w \in UserPages BY <1>6, <2>1
  <2>3. QED BY <1>3, <1>4, <2>1, <2>2 DEF ModulesMapped
<1>8. f .. (f + c - 1) \subseteq Reserved BY <1>1, <1>2, ModuleIs
<1>9. v .. (v + c - 1) \subseteq UserPages BY <1>7
<1>10. Good(a, x, {}) /\ Coherent(a) /\ a.size = m.size BY DEF ModulesMapped
<1>11. s = MapRange(a, f, v, c) BY <1>1, <1>2, <1>4
<1>12. Stopped(s) \/ RangeDone(a, s, x, f, v, c)
  BY <1>7, <1>8, <1>9, <1>10, <1>11, MapRangeIs
<1>13. CASE RangeDone(a, s, x, f, v, c)
  <2>1. /\ Good(s, x, {}) /\ Coherent(s) /\ s.size = a.size
        /\ \A w \in UserPages :
              Entry(s, w) = IF w \in v .. (v + c - 1) THEN f + (w - v) ELSE Entry(a, w)
    BY <1>13 DEF RangeDone
  <2>2. \A w \in UserPages \ ModulePages : Entry(s, w) = Entry(m, w)
    BY <1>7, <2>1 DEF ModulesMapped
  <2>3. ASSUME NEW w \in ModulePages, ModulePage[i + 1] <= w PROVE Entry(s, w) = NOPAGE
    <3>1. w \in UserPages BY RegionsAssumption
    <3>2. w \in Nat BY <3>1, UserPageIs, PageIs
    <3>3. w \notin v .. (v + c - 1) /\ v <= w BY <1>5, <2>3, <3>2
    <3>4. Entry(a, w) = NOPAGE BY <1>3, <1>4, <3>3 DEF ModulesMapped
    <3>5. QED BY <2>1, <3>1, <3>3, <3>4
  <2>4. InPlace(s, i)
    <3>1. ASSUME NEW k \in 0 .. (c - 1) PROVE Entry(s, v + k) = f + k
      <4>1. PICK w \in Nat : w = v + k OBVIOUS
      <4>2. w \in v .. (v + c - 1) /\ f + (w - v) = f + k BY <4>1
      <4>3. w \in UserPages BY <1>9, <4>2
      <4>4. QED BY <2>1, <4>1, <4>2, <4>3
    <3>2. Entry(s, v + c) = NOPAGE
      <4>1. c \in 0 .. c OBVIOUS
      <4>2. PICK w \in Nat : w = v + c OBVIOUS
      <4>3. w \in ModulePages /\ w \in UserPages BY <1>6, <4>1, <4>2
      <4>4. w \notin v .. (v + c - 1) /\ v <= w BY <4>2
      <4>5. Entry(a, w) = NOPAGE BY <1>3, <1>4, <4>3, <4>4 DEF ModulesMapped
      <4>6. QED BY <2>1, <4>2, <4>3, <4>4, <4>5
    <3>3. QED BY <1>1, <1>2, <1>4, <3>1, <3>2 DEF InPlace
  <2>5. ASSUME NEW j \in 1 .. i
        PROVE  InPlace(s, j) /\ ModulePage[j] + Modules[j].count < ModulePage[i + 1]
    <3>1. CASE j = i BY <1>1, <1>4, <1>5, <2>4, <3>1
    <3>2. CASE j # i
      <4>1. j \in 1 .. (i - 1) /\ j \in 1 .. n /\ j \in 1 .. (n + 1) BY <1>3, <3>2
      <4>2. PICK d \in Nat : d = Modules[j].count BY <1>0, <4>1, ModuleIs
      <4>3. PICK u \in Nat : u = ModulePage[j] BY <1>0, <4>1, ModulePageInNat
      <4>4. InPlace(a, j) /\ u + d < v
        BY <1>3, <1>4, <4>1, <4>2, <4>3 DEF ModulesMapped
      <4>5. ASSUME NEW k \in 0 .. d PROVE Entry(s, u + k) = Entry(a, u + k)
        <5>1. u + k \in UserPages BY <1>0, <4>1, <4>2, <4>3, ModuleSpan
        <5>2. u + k \notin v .. (v + c - 1) BY <4>4
        <5>3. QED BY <2>1, <5>1, <5>2
      <4>6. InPlace(s, j) BY <1>0, <4>1, <4>2, <4>3, <4>4, <4>5, InPlaceKept
      <4>7. QED BY <1>5, <4>2, <4>3, <4>4, <4>6
    <3>3. QED BY <3>1, <3>2
  <2>6. s.size = m.size BY <1>10, <2>1
  <2>7. ModulesMapped(m, s, x, i) BY <2>1, <2>2, <2>3, <2>5, <2>6 DEF ModulesMapped
  <2>8. QED BY <2>7
<1>14. QED BY <1>12, <1>13

LEMMA MapModulesIs ==
  ASSUME NEW m, NEW x \in {0, 1}, Good(m, x, {}), Coherent(m),
         \A w \in ModulePages : Entry(m, w) = NOPAGE
  PROVE  \/ Stopped(MapModules(m, Len(Modules)))
         \/ ModulesMapped(m, MapModules(m, Len(Modules)), x, Len(Modules))
<1>0. PICK n \in Nat : n = Len(Modules) BY ModuleIs
<1>1. PICK g : ModuleRun(g, m, n) /\ MapModules(m, n) = g[n] BY ModuleRuns
<1>2. g[0] = m /\ \A k \in 1 .. n :
         g[k] = MapRange(g[k - 1], Modules[k].first, ModulePage[k], Modules[k].count)
  BY <1>1 DEF ModuleRun
<1> DEFINE T == {k \in 0 .. n : Stopped(g[k]) \/ ModulesMapped(m, g[k], x, k)}
<1>3. 0 \in T
  <2>1. ModulesMapped(m, m, x, 0) BY DEF ModulesMapped
  <2>2. QED BY <1>2, <2>1
<1>4. ASSUME NEW k \in 1 .. n, k - 1 \in T PROVE k \in T
  <2>0. k \in 0 .. n /\ k \in 1 .. Len(Modules) BY <1>0
  <2>1. PICK a : a = g[k - 1] OBVIOUS
  <2>2. PICK s : s = g[k] OBVIOUS
  <2>3. s = MapRange(a, Modules[k].first, ModulePage[k], Modules[k].count)
    BY <1>2, <2>1, <2>2
  <2>4. CASE Stopped(a)
    <3>1. Modules[k].count \in Nat BY <2>0, ModuleIs
    <3>2. s = a BY <2>3, <2>4, <3>1, MapRangeStopped
    <3>3. Stopped(g[k]) BY <2>2, <2>4, <3>2, Zenon
    <3>4. QED BY <2>0, <3>3
  <2>5. CASE ModulesMapped(m, a, x, k - 1)
    <3>1. Stopped(s) \/ ModulesMapped(m, s, x, k) BY <2>0, <2>3, <2>5, MapModuleIs
    <3>2. QED BY <2>0, <2>2, <3>1
  <2>6. QED BY <1>4, <2>1, <2>4, <2>5
<1>5. n \in T
  <2> HIDE DEF T
  <2>1. 0 .. n \subseteq T BY <1>3, <1>4, Climb
  <2>2. QED BY <2>1
<1>6. QED BY <1>0, <1>1, <1>5

LEMMA MapModulesStopped ==
  ASSUME NEW m, Stopped(m)
  PROVE  MapModules(m, Len(Modules)) = m
<1>0. PICK n \in Nat : n = Len(Modules) BY ModuleIs
<1>1. PICK g : ModuleRun(g, m, n) /\ MapModules(m, n) = g[n] BY ModuleRuns
<1>2. g[0] = m /\ \A k \in 1 .. n :
         g[k] = MapRange(g[k - 1], Modules[k].first, ModulePage[k], Modules[k].count)
  BY <1>1 DEF ModuleRun
<1>3. PICK T : T = {k \in 0 .. n : g[k] = m} OBVIOUS
<1>4. ASSUME NEW k \in 1 .. n, k - 1 \in T PROVE k \in T
  <2>1. Modules[k].count \in Nat BY <1>0, ModuleIs
  <2>2. g[k - 1] = m BY <1>3, <1>4
  <2>3. g[k] = m BY <1>2, <2>1, <2>2, MapRangeStopped
  <2>4. QED BY <1>3, <2>3
<1>5. 0 \in T BY <1>2, <1>3
<1>6. 0 .. n \subseteq T BY <1>4, <1>5, Climb
<1>7. QED BY <1>0, <1>1, <1>3, <1>6

-----------------------------------------------------------------------------
(* The actions.                                                            *)

LEMMA Regions ==
  /\ Console \subseteq UserPages /\ ModulePages \subseteq UserPages /\ StackPage \in UserPages
  /\ HeapPages \subseteq UserPages /\ UserPages \subseteq Nat
  /\ \A w \in Console : w \notin HeapPages /\ w \notin ModulePages /\ w # StackPage
  /\ \A w \in HeapPages : w \notin ModulePages /\ w # StackPage
  /\ StackPage \notin ModulePages
<1>1. UserPages \subseteq Nat BY UserPageIs, PageIs
<1>2. QED BY <1>1, RegionsAssumption

LEMMA HeapAreaIs ==
  ASSUME NEW m, m.size \in Nat, m.size <= HeapMax
  PROVE  HeapArea(m) \subseteq HeapPages
<1>1. PICK c \in Nat : c = m.size OBVIOUS
<1>2. QED BY <1>1, RegionsAssumption DEF HeapArea, HeapPages

LEMMA StoppedSound ==
  ASSUME NEW s, Stopped(s), NEW st \in Steps, NEW B, NEW mt
  PROVE  IInvOf(s, st, B, mt)
  BY DEF Stopped, IInvOf, Halts

LEMMA RunningSound ==
  ASSUME NEW s, NEW st \in Steps, NEW B, NEW mt, Sound(s, st, B, mt), Coherent(s)
  PROVE  IInvOf(s, st, B, mt)
  BY DEF IInvOf, Sound, Good, Halts

\* A page that must not be mapped is not.
LEMMA Unmapped ==
  ASSUME NEW m, NEW S, Within(m, S), NEW w \in UserPages, w \notin S
  PROVE  Entry(m, w) = NOPAGE
  BY DEF Within

\* The pages of a block are in the heap.
LEMMA BlockInHeap ==
  ASSUME NEW m, m.size \in Nat, m.size <= HeapMax, NEW B, Live(m, B), NEW b \in B
  PROVE  /\ b.start \in Nat /\ b.pages \in Nat
         /\ BlockPages(b) \subseteq HeapArea(m) /\ BlockPages(b) \subseteq HeapPages
<1>1. PICK c \in Nat : c = m.size OBVIOUS
<1>2. /\ b.start \in Nat /\ b.pages \in Nat /\ HeapStart <= b.start
      /\ b.start + b.pages <= HeapStart + c
  BY <1>1 DEF Live
<1>3. BlockPages(b) \subseteq HeapArea(m)
  BY <1>1, <1>2, RegionsAssumption DEF BlockPages, HeapArea
<1>4. QED BY <1>2, <1>3, HeapAreaIs

\* Blocks stay live when the heap's pages stay.
LEMMA LiveKept ==
  ASSUME NEW m, NEW s, NEW B, m.size \in Nat, m.size <= HeapMax, Live(m, B), s.size = m.size,
         \A w \in HeapPages : Entry(s, w) = Entry(m, w)
  PROVE  Live(s, B)
<1>1. \A b \in B : \A v \in BlockPages(b) : Entry(s, v) # NOPAGE
  BY BlockInHeap DEF Live
<1>2. QED BY <1>1 DEF Live

\* The modules stay in place when their pages do.
LEMMA ModulesKept ==
  ASSUME NEW m, NEW s, NEW st \in {"spawn", "run"}, NEW u \in {"spawn", "run"},
         NEW B, NEW C, NEW mt,
         ModulesDone(m, st, B, mt), \A w \in ModulePages : Entry(s, w) = Entry(m, w)
  PROVE  ModulesDone(s, u, C, mt)
<1>1. PICK n : n = Len(mt) OBVIOUS
<1>2. PICK l \in Nat : l = Len(Modules) BY ModuleIs
<1>3. n \in Nat /\ n <= l /\ \A i \in 1 .. n : mt[i] = TableEntry(i) /\ InPlace(m, i)
  BY <1>1, <1>2 DEF ModulesDone
<1>4. ASSUME NEW i \in 1 .. n PROVE InPlace(s, i)
  <2>1. i \in 1 .. Len(Modules) BY <1>2, <1>3
  <2>2. \A k \in 0 .. Modules[i].count :
           Entry(s, ModulePage[i] + k) = Entry(m, ModulePage[i] + k)
    BY <2>1, ModuleSpan
  <2>3. QED BY <1>3, <2>1, <2>2, InPlaceKept
<1>5. QED BY <1>1, <1>2, <1>3, <1>4 DEF ModulesDone

LEMMA InitIs == Init => IInv
<1>1. SUFFICES ASSUME Init PROVE IInv OBVIOUS
<1> DEFINE pde0 == [d \in Slots |-> IF d \in {0, KernelDir} THEN BootTable ELSE NOPAGE]
<1> DEFINE row0 == [i \in Slots |-> IF i \in BootPages THEN i ELSE NOPAGE]
<1> DEFINE tab0 == [t \in {BootTable} |-> row0]
<1>2. mm = [bits |-> Reserved, pde |-> pde0, tab |-> tab0, placement |-> Placement,
            size |-> 0, tlb |-> {}, panic |-> "none"]
  BY <1>1 DEF Init, Slots
<1>3. PICK m : m = mm OBVIOUS
<1> HIDE DEF pde0, row0, tab0
<1>4. /\ m.bits = Reserved /\ m.pde = pde0 /\ m.tab = tab0 /\ m.placement = Placement
      /\ m.size = 0 /\ m.tlb = {} /\ m.panic = "none" /\ IsRecord(m)
  BY <1>2, <1>3, Fields
<1>5. /\ pde0 \in [Slots -> Entries] /\ pde0[0] = BootTable /\ pde0[KernelDir] = BootTable
      /\ \A d \in Slots \ {0, KernelDir} : pde0[d] = NOPAGE
  BY Sizes DEF pde0, Entries
<1>6. row0 \in [Slots -> Entries]
      /\ \A i \in Slots : row0[i] = IF i \in BootPages THEN i ELSE NOPAGE
  <2>1. BootPages \subseteq FrameSet BY ReservedAssumption
  <2>2. QED BY <2>1 DEF row0, Entries
<1>7. DOMAIN tab0 = {BootTable} /\ tab0[BootTable] = row0 /\ tab0 \in [{BootTable} -> [Slots -> Entries]]
  BY <1>6 DEF tab0
<1>8. UserDirs \subseteq Slots \ {0, KernelDir} BY Sizes
<1>9. \A w \in UserPages : Entry(m, w) = NOPAGE
  BY <1>4, <1>5, <1>8, UserPageIs DEF Entry
<1>10. Tables(m)
  <2>1. \A d \in UserDirs : m.pde[d] = NOPAGE BY <1>4, <1>5, <1>8
  <2>2. \A d \in Slots \ (UserDirs \cup {0, KernelDir}) : m.pde[d] = NOPAGE BY <1>4, <1>5
  <2>3. BootTable \in DOMAIN m.tab /\ DOMAIN m.tab \subseteq FrameSet
    BY <1>4, <1>7, Sizes
  <2>4. m.tab \in [DOMAIN m.tab -> [Slots -> Entries]] BY <1>4, <1>7
  <2>5. m.pde \in [Slots -> Entries] /\ m.pde[0] = BootTable /\ m.pde[KernelDir] = BootTable
    BY <1>4, <1>5
  <2>6. m.size \in Nat /\ m.placement \in Nat BY <1>4, PlacementAssumption
  <2>7. QED BY <1>4, <2>1, <2>2, <2>3, <2>4, <2>5, <2>6 DEF Tables
<1>11. Owned(m, {})
  <2>1. {f \in FrameSet : \E v \in UserPages : Entry(m, v) = f} = {} BY <1>9, Sizes
  <2>2. DOMAIN m.tab = {BootTable} /\ m.tab[BootTable] = row0 BY <1>4, <1>7
  <2>3. m.bits = Reserved \cup DOMAIN m.tab \cup {} \cup
                 {f \in FrameSet : \E v \in UserPages : Entry(m, v) = f}
    BY <1>4, <2>1, <2>2, Sizes
  <2>4. \A i \in Slots : m.tab[BootTable][i] \in {NOPAGE} \cup Reserved \cup DOMAIN m.tab
    BY <1>6, <2>2, ReservedAssumption
  <2>5. QED BY <1>9, <2>3, <2>4 DEF Owned
<1>12. Placed(m, 0)
  <2>1. Used(m) = {} BY <1>4, <1>5, <1>8 DEF Used
  <2>2. m.placement = Placement + Cardinality(Used(m)) + 0
    BY <1>4, <2>1, FS_EmptySet, PlacementAssumption
  <2>3. ASSUME NEW i \in Slots, m.placement - KernelDir * PTES <= i
        PROVE  m.tab[BootTable][i] = NOPAGE
    <3>1. PICK q \in Nat : q = KernelDir * PTES BY Sizes
    <3>2. Placement \in Nat /\ \A p \in BootPages : p < Placement - q
      BY <3>1, PlacementAssumption
    <3>3. i \in Nat /\ Placement - q <= i BY <1>4, <2>3, <3>1, Sizes DEF Slots
    <3>4. i \notin BootPages BY <3>1, <3>2, <3>3
    <3>5. QED BY <1>4, <1>6, <1>7, <3>4
  <2>4. QED BY <2>2, <2>3 DEF Placed
<1>13. Good(m, 0, {}) BY <1>4, <1>10, <1>11, <1>12 DEF Good
<1>14. step = "tty_remap" /\ blocks = {} /\ module_table = <<>> BY <1>1 DEF Init
<1>15. VgaLow(m)
  <2>1. ASSUME NEW k \in 1 .. VgaPages PROVE Entry(m, VgaStart + k - 1) # NOPAGE
    <3>1. PICK i : i = VgaStart + k - 1 OBVIOUS
    <3>2. i \in VgaStart .. (VgaStart + VgaPages - 1) BY <3>1, ReservedAssumption
    <3>3. i \in BootPages /\ i \in Slots /\ i # NOPAGE
      BY <3>2, ReservedAssumption, Sizes DEF Slots
    <3>4. Entry(m, i) = m.tab[BootTable][i] BY <1>4, <1>5, <3>3, BootEntry
    <3>5. QED BY <1>4, <1>6, <1>7, <3>1, <3>3, <3>4
  <2>2. QED BY <2>1 DEF VgaLow
<1>16. HeapFresh(m)
  <2>1. \A v \in HeapPages : Entry(m, v) \notin Reserved BY <1>9, HeapIsUser, Sizes
  <2>2. QED BY <1>4, <2>1, RegionsAssumption DEF HeapFresh
<1>17. Within(m, Extent("tty_remap") \cup HeapArea(m)) BY <1>9 DEF Within
<1>18. ModulesDone(m, "tty_remap", {}, <<>>) /\ Live(m, {}) BY <1>4 DEF ModulesDone, Live
<1>19. Extra("tty_remap") = 0 BY DEF Extra
<1>20. Sound(m, "tty_remap", {}, <<>>)
  BY <1>13, <1>15, <1>16, <1>17, <1>18, <1>19 DEF Sound
<1>21. Coherent(m) BY <1>4 DEF Coherent
<1>22. "tty_remap" \in Steps BY DEF Steps
<1>23. IInvOf(m, "tty_remap", {}, <<>>) BY <1>20, <1>21, <1>22, RunningSound
<1>24. QED BY <1>3, <1>14, <1>23 DEF IInv

\* tty_remap
LEMMA TtyRemapIs ==
  ASSUME NEW m, NEW B, NEW mt, Sound(m, "tty_remap", B, mt), Coherent(m), NEW s,
         s = UnmapRange(MapRange(m, VgaStart, VgaStart + IOOffset, VgaPages), VgaStart, VgaPages)
  PROVE  IInvOf(s, "modules", B, mt)
<1>0. "modules" \in Steps /\ Extra("tty_remap") = 0 /\ Extra("modules") = 0
  BY DEF Steps, Extra
<1>1. Good(m, 0, {}) /\ m.size = 0 /\ B = {} /\ mt = <<>>
  BY <1>0 DEF Sound, ModulesDone
<1>2. PICK f \in Nat : f = VgaStart BY ReservedAssumption
<1>3. PICK n \in Nat : n = VgaPages BY ReservedAssumption
<1>4. PICK v \in Nat : v = VgaStart + IOOffset BY ReservedAssumption, RegionsAssumption
<1>5. Console = v .. (v + n - 1) BY <1>3, <1>4 DEF Console
<1>6. f .. (f + n - 1) \subseteq BootPages BY <1>2, <1>3, ReservedAssumption
<1>7. f .. (f + n - 1) \subseteq Reserved /\ f .. (f + n - 1) \subseteq Slots
  BY <1>6, ReservedAssumption DEF Slots
<1>8. \A w \in UserPages : Entry(m, w) = NOPAGE
  <2>1. Extent("tty_remap") = {} BY DEF Extent
  <2>2. HeapArea(m) = {} BY <1>1, RegionsAssumption DEF HeapArea
  <2>3. QED BY <2>1, <2>2 DEF Sound, Within
<1>9. v .. (v + n - 1) \subseteq UserPages BY <1>5, Regions
<1>10. PICK a : a = MapRange(m, f, v, n) OBVIOUS
<1>11. s = UnmapRange(a, f, n) BY <1>2, <1>3, <1>4, <1>10
<1>12. Stopped(a) \/ RangeDone(m, a, 0, f, v, n)
  <2>1. 0 \in {0, 1} /\ \A w \in v .. (v + n - 1) : Entry(m, w) = NOPAGE BY <1>8, <1>9
  <2>2. QED BY <1>1, <1>7, <1>9, <1>10, <2>1, MapRangeIs
<1>13. CASE Stopped(a)
  <2>1. s = a BY <1>11, <1>13, UnmapRangeStopped
  <2>2. QED BY <1>0, <1>13, <2>1, StoppedSound
<1>14. CASE RangeDone(m, a, 0, f, v, n)
  <2>1. /\ Good(a, 0, {}) /\ Coherent(a) /\ a.size = m.size /\ LowKept(m, a)
        /\ \A w \in UserPages :
              Entry(a, w) = IF w \in v .. (v + n - 1) THEN f + (w - v) ELSE Entry(m, w)
    BY <1>14 DEF RangeDone
  <2>2. \A i \in f .. (f + n - 1) : a.tab[BootTable][i] # NOPAGE
    <3>1. ASSUME NEW i \in f .. (f + n - 1) PROVE m.tab[BootTable][i] # NOPAGE /\ i \in Slots
      <4>1. PICK k \in 1 .. n : i = f + k - 1
        <5>1. i - f + 1 \in 1 .. n /\ i = f + (i - f + 1) - 1 OBVIOUS
        <5>2. QED BY <5>1
      <4>2. Entry(m, i) # NOPAGE BY <1>2, <1>3, <4>1 DEF Sound, VgaLow
      <4>3. i \in Slots BY <1>7
      <4>4. m.pde[0] = BootTable /\ m.pde[KernelDir] = BootTable BY <1>1 DEF Good, Tables
      <4>5. QED BY <4>2, <4>3, <4>4, BootEntry
    <3>2. QED BY <2>1, <3>1 DEF LowKept
  <2>3. LowRangeDone(a, s, 0, f, n) BY <1>7, <1>11, <2>1, <2>2, UnmapRangeIs
  <2>4. Good(s, 0, {}) /\ Coherent(s) /\ s.size = 0 /\ Same(a, s)
    BY <1>1, <2>1, <2>3 DEF LowRangeDone
  <2>5. \A w \in UserPages : w \notin Console => Entry(s, w) = NOPAGE
    BY <1>5, <1>8, <2>1, <2>4 DEF Same
  <2>6. Within(s, Extent("modules") \cup HeapArea(s)) BY <2>5 DEF Within, Extent
  <2>7. HeapFresh(s)
    <3>1. \A w \in HeapPages : Entry(s, w) \notin Reserved BY <2>5, Regions, Sizes
    <3>2. QED BY <2>4, <3>1, RegionsAssumption DEF HeapFresh
  <2>8. ModulesDone(s, "modules", B, mt) /\ Live(s, B) BY <1>1, <2>4 DEF ModulesDone, Live
  <2>9. Sound(s, "modules", B, mt) BY <1>0, <2>4, <2>6, <2>7, <2>8 DEF Sound
  <2>10. QED BY <1>0, <2>4, <2>9, RunningSound
<1>15. QED BY <1>12, <1>13, <1>14

\* The pages from the end of the heap on are free.
LEMMA HeapEndFree ==
  ASSUME NEW m, NEW st \in Steps, NEW B, NEW mt, Sound(m, st, B, mt)
  PROVE  \A w \in HeapPages : HeapStart + m.size <= w => Entry(m, w) = NOPAGE
<1>1. SUFFICES ASSUME NEW w \in HeapPages, HeapStart + m.size <= w PROVE Entry(m, w) = NOPAGE
  OBVIOUS
<1>2. PICK c \in Nat : c = m.size BY DEF Sound, Good, Tables
<1>3. w \in UserPages /\ w \in Nat BY Regions
<1>4. w \notin HeapArea(m) BY <1>1, <1>2, <1>3, RegionsAssumption DEF HeapArea
<1>5. w \notin Extent(st)
  <2>1. CASE st = "tty_remap" BY <2>1 DEF Extent
  <2>2. CASE st = "modules" BY <2>2, Regions DEF Extent
  <2>3. CASE st = "spawn" BY <2>3, Regions DEF Extent
  <2>4. CASE st = "run" BY <2>4, Regions DEF Extent
  <2>5. QED BY <2>1, <2>2, <2>3, <2>4 DEF Steps
<1>6. QED BY <1>3, <1>4, <1>5 DEF Sound, Within

\* module_table_init without modules
LEMMA NoModulesIs ==
  ASSUME NEW m, NEW B, NEW mt, Sound(m, "modules", B, mt), Coherent(m)
  PROVE  IInvOf(m, "spawn", B, mt)
<1>0. "spawn" \in Steps /\ Extra("modules") = 0 /\ Extra("spawn") = 0 BY DEF Steps, Extra
<1>1. mt = <<>> /\ Good(m, 0, {}) BY <1>0 DEF Sound, ModulesDone
<1>2. Extent("modules") \subseteq Extent("spawn") BY DEF Extent
<1>3. Within(m, Extent("spawn") \cup HeapArea(m)) BY <1>2 DEF Sound, Within
<1>4. ModulesDone(m, "spawn", B, mt) BY <1>1, ModuleIs DEF ModulesDone
<1>5. Sound(m, "spawn", B, mt) BY <1>0, <1>1, <1>3, <1>4 DEF Sound
<1>6. QED BY <1>0, <1>5, RunningSound

\* module_table_init
LEMMA ModuleTableInitIs ==
  ASSUME NEW m, NEW B, NEW mt, Sound(m, "modules", B, mt), Coherent(m), NEW n \in Nat \ {0},
         NEW s, s = MapModules(Grown(m, n), Len(Modules)),
         NEW b, b = [start |-> HeapStart + m.size, pages |-> n]
  PROVE  IInvOf(s, "spawn", B \cup {b}, [i \in 1 .. Len(Modules) |-> TableEntry(i)])
<1>0. /\ "spawn" \in Steps /\ "modules" \in Steps
      /\ Extra("modules") = 0 /\ Extra("spawn") = 0 /\ 0 \in {0, 1}
  BY DEF Steps, Extra
<1>1. Good(m, 0, {}) /\ m.size = 0 /\ B = {} /\ m.size <= HeapMax
  BY <1>0 DEF Sound, ModulesDone, HeapFresh
<1>2. PICK a : a = Grown(m, n) OBVIOUS
<1>3. PICK t : t = [i \in 1 .. Len(Modules) |-> TableEntry(i)] OBVIOUS
<1>4. Stopped(a) \/ GrowDone(m, a, 0, n)
  BY <1>0, <1>1, <1>2, HeapEndFree, GrownIs
<1>5. CASE Stopped(a)
  <2>1. s = a BY <1>2, <1>5, MapModulesStopped
  <2>2. IInvOf(s, "spawn", B \cup {b}, t) BY <1>0, <1>5, <2>1, StoppedSound
  <2>3. QED BY <1>3, <2>2
<1>6. CASE GrowDone(m, a, 0, n)
  <2>1. PICK h : h = HeapStart .. (HeapStart + n - 1) OBVIOUS
  <2>2. Good(a, 0, {}) /\ Coherent(a) /\ a.size = n /\ n <= HeapMax
    BY <1>1, <1>6 DEF GrowDone
  <2>3. /\ HeapStart + m.size = HeapStart
        /\ (HeapStart + m.size) .. (HeapStart + m.size + n - 1) = h
    BY <1>1, <2>1, RegionsAssumption
  <2>4. \A w \in UserPages : IF w \in h THEN Entry(a, w) \in FrameSet \ Reserved
                             ELSE Entry(a, w) = Entry(m, w)
    BY <1>6, <2>3 DEF GrowDone
  <2>5. h \subseteq HeapPages BY <2>1, <2>2, RegionsAssumption DEF HeapPages
  <2>6. \A w \in UserPages : w \notin Console => Entry(m, w) = NOPAGE
    <3>1. HeapArea(m) = {} BY <1>1, RegionsAssumption DEF HeapArea
    <3>2. Extent("modules") = Console BY DEF Extent
    <3>3. QED BY <3>1, <3>2 DEF Sound, Within
  <2>7. \A w \in ModulePages : Entry(a, w) = NOPAGE BY <2>4, <2>5, <2>6, Regions
  <2>8. PICK l \in Nat : l = Len(Modules) BY ModuleIs
  <2>9. Stopped(s) \/ ModulesMapped(a, s, 0, l)
    BY <1>0, <1>2, <2>2, <2>7, <2>8, MapModulesIs
  <2>10. CASE Stopped(s)
    <3>1. IInvOf(s, "spawn", B \cup {b}, t) BY <1>0, <2>10, StoppedSound
    <3>2. QED BY <1>3, <3>1
  <2>11. CASE ModulesMapped(a, s, 0, l)
    <3>1. /\ Good(s, 0, {}) /\ Coherent(s) /\ s.size = n
          /\ \A w \in UserPages \ ModulePages : Entry(s, w) = Entry(a, w)
          /\ \A j \in 1 .. l : InPlace(s, j)
      BY <2>2, <2>11 DEF ModulesMapped
    <3>2. HeapArea(s) = h BY <2>1, <3>1 DEF HeapArea
    <3>3. Within(s, Extent("spawn") \cup HeapArea(s))
      <4>1. Extent("spawn") = Console \cup ModulePages BY DEF Extent
      <4>2. QED BY <2>4, <2>6, <3>1, <3>2, <4>1 DEF Within
    <3>4. \A w \in HeapPages : Entry(s, w) = Entry(a, w) /\ w \in UserPages BY <3>1, Regions
    <3>5. HeapFresh(s)
      <4>1. \A w \in HeapPages : Entry(s, w) \notin Reserved
        BY <2>4, <2>6, <3>4, Regions, Sizes
      <4>2. QED BY <2>2, <3>1, <4>1 DEF HeapFresh
    <3>6. ModulesDone(s, "spawn", B \cup {b}, t)
      <4>1. Len(t) = l BY <1>3, <2>8
      <4>2. \A i \in 1 .. l : t[i] = TableEntry(i) BY <1>3, <2>8
      <4>3. QED BY <2>8, <3>1, <4>1, <4>2 DEF ModulesDone
    <3>7. b.start = HeapStart /\ b.pages = n BY <2>3
    <3>8. BlockPages(b) = h BY <2>1, <3>7 DEF BlockPages
    <3>9. Live(s, B \cup {b})
      <4>1. \A w \in h : Entry(s, w) # NOPAGE
        <5>1. \A w \in h : Entry(s, w) \in FrameSet BY <2>4, <2>5, <3>4
        <5>2. QED BY <5>1, Sizes
      <4>2. B \cup {b} = {b} BY <1>1
      <4>3. HeapStart \in Nat /\ HeapStart <= HeapStart /\ HeapStart + n <= HeapStart + s.size
        BY <3>1, RegionsAssumption
      <4>4. Live(s, {b}) BY <3>7, <3>8, <4>1, <4>3 DEF Live
      <4>5. QED BY <4>2, <4>4
    <3>10. Sound(s, "spawn", B \cup {b}, t)
      BY <1>0, <3>1, <3>3, <3>5, <3>6, <3>9 DEF Sound
    <3>11. IInvOf(s, "spawn", B \cup {b}, t) BY <1>0, <3>1, <3>10, RunningSound
    <3>12. QED BY <1>3, <3>11
  <2>12. QED BY <2>9, <2>10, <2>11
<1>7. QED BY <1>4, <1>5, <1>6

\* spawn_init
LEMMA SpawnInitIs ==
  ASSUME NEW m, NEW B, NEW mt, Sound(m, "spawn", B, mt), Coherent(m), NEW s,
         s = AllocAndMap(StructureAlloc(m), StackPage)
  PROVE  IInvOf(s, "run", B, mt)
<1>0. /\ "run" \in Steps /\ "spawn" \in Steps /\ "run" \in {"spawn", "run"}
      /\ "spawn" \in {"spawn", "run"}
      /\ Extra("spawn") = 0 /\ Extra("run") = 1 /\ 0 \in Nat /\ 0 + 1 = 1 /\ 1 \in {0, 1}
  BY DEF Steps, Extra
<1>1. /\ Good(m, 0, {}) /\ Within(m, Extent("spawn") \cup HeapArea(m)) /\ HeapFresh(m)
      /\ ModulesDone(m, "spawn", B, mt) /\ Live(m, B)
  BY <1>0 DEF Sound
<1>2. Room(m) BY <1>0, <1>1, RoomIs
<1>3. PICK a : a = StructureAlloc(m) OBVIOUS
<1>4. Coherent(a) /\ (a.panic = "out of memory" \/ (Good(a, 0 + 1, {}) /\ \E f : NewTable(m, a, f)))
  BY <1>0, <1>1, <1>2, <1>3, StructureAllocIs
<1>5. CASE a.panic = "out of memory"
  <2>1. Stopped(a) BY <1>4, <1>5 DEF Stopped
  <2>2. s = a BY <1>3, <1>5, Zenon DEF AllocAndMap
  <2>3. QED BY <1>0, <2>1, <2>2, StoppedSound
<1>6. CASE Good(a, 0 + 1, {}) /\ \E f : NewTable(m, a, f)
  <2>1. Good(a, 1, {}) /\ Same(m, a) /\ a.size = m.size BY <1>0, <1>6 DEF NewTable
  <2>2. m.size \in Nat /\ m.size <= HeapMax BY <1>1 DEF Good, Tables, HeapFresh
  <2>3. HeapArea(m) \subseteq HeapPages BY <2>2, HeapAreaIs
  <2>4. Extent("spawn") = Console \cup ModulePages BY DEF Extent
  <2>5. StackPage \notin Extent("spawn") \cup HeapArea(m) /\ StackPage \in UserPages
    BY <2>3, <2>4, Regions
  <2>6. Entry(a, StackPage) = NOPAGE
    <3>1. Entry(m, StackPage) = NOPAGE BY <1>1, <2>5, Unmapped
    <3>2. QED BY <2>1, <2>5, <3>1 DEF Same
  <2>7. NoMemory(s) \/ \E f \in FrameSet \ Reserved : MapDone(a, s, 1, {}, StackPage, f)
    BY <1>0, <1>3, <1>4, <2>1, <2>5, <2>6, AllocAndMapIs
  <2>8. CASE NoMemory(s) BY <1>0, <2>8, NoMemoryStops, StoppedSound
  <2>9. CASE \E f \in FrameSet \ Reserved : MapDone(a, s, 1, {}, StackPage, f)
    <3>1. PICK f : MapDone(a, s, 1, {}, StackPage, f) BY <2>9
    <3>2. {} \ {f} = {} OBVIOUS
    <3>3. Good(s, 1, {}) /\ Coherent(s) /\ Now(a, s, StackPage, f) /\ s.size = m.size
      BY <2>1, <3>1, <3>2 DEF MapDone
    <3>4. \A w \in UserPages : w # StackPage => Entry(s, w) = Entry(m, w)
      BY <2>1, <3>3 DEF Same, Now
    <3>5. HeapArea(s) = HeapArea(m) BY <3>3 DEF HeapArea
    <3>6. Within(s, Extent("run") \cup HeapArea(s))
      <4>1. Extent("run") = Extent("spawn") \cup {StackPage} BY DEF Extent
      <4>2. QED BY <1>1, <3>4, <3>5, <4>1 DEF Within
    <3>7. \A w \in HeapPages : Entry(s, w) = Entry(m, w) BY <3>4, Regions
    <3>8. HeapFresh(s) BY <1>1, <3>3, <3>7 DEF HeapFresh
    <3>9. \A w \in ModulePages : Entry(s, w) = Entry(m, w) BY <3>4, Regions
    <3>10. ModulesDone(s, "run", B, mt) BY <1>0, <1>1, <3>9, ModulesKept
    <3>11. Live(s, B) BY <1>1, <2>2, <3>3, <3>7, LiveKept
    <3>12. Sound(s, "run", B, mt) BY <1>0, <3>3, <3>6, <3>8, <3>10, <3>11 DEF Sound
    <3>13. QED BY <1>0, <3>3, <3>12, RunningSound
  <2>10. QED BY <2>7, <2>8, <2>9
<1>7. QED BY <1>4, <1>5, <1>6

\* liballoc_alloc
LEMMA LiballocAllocIs ==
  ASSUME NEW m, NEW st \in {"spawn", "run"}, NEW B, NEW mt, Sound(m, st, B, mt), Coherent(m),
         NEW n \in Nat, NEW s, s = Grown(m, n),
         NEW b, b = [start |-> HeapStart + m.size, pages |-> n]
  PROVE  IInvOf(s, st, IF s.panic = "none" THEN B \cup {b} ELSE B, mt)
<1>0. st \in Steps /\ Extra(st) \in {0, 1} BY DEF Steps, Extra
<1>1. /\ Good(m, Extra(st), {}) /\ Within(m, Extent(st) \cup HeapArea(m)) /\ HeapFresh(m)
      /\ ModulesDone(m, st, B, mt) /\ Live(m, B)
  BY DEF Sound
<1>2. PICK C : C = IF s.panic = "none" THEN B \cup {b} ELSE B OBVIOUS
<1>3. m.size <= HeapMax BY <1>1 DEF HeapFresh
<1>4. Stopped(s) \/ GrowDone(m, s, Extra(st), n)
  BY <1>0, <1>1, <1>3, HeapEndFree, GrownIs
<1>5. CASE Stopped(s)
  <2>1. IInvOf(s, st, C, mt) BY <1>0, <1>5, StoppedSound
  <2>2. QED BY <1>2, <2>1
<1>6. CASE GrowDone(m, s, Extra(st), n)
  <2>1. PICK c \in Nat : c = m.size BY <1>1 DEF Good, Tables
  <2>2. PICK h : h = (HeapStart + c) .. (HeapStart + c + n - 1) OBVIOUS
  <2>3. Good(s, Extra(st), {}) /\ Coherent(s) /\ s.size = c + n /\ c + n <= HeapMax
    BY <1>6, <2>1 DEF GrowDone
  <2>4. \A w \in UserPages : IF w \in h THEN Entry(s, w) \in FrameSet \ Reserved
                             ELSE Entry(s, w) = Entry(m, w)
    BY <1>6, <2>1, <2>2 DEF GrowDone
  <2>5. h \subseteq HeapPages BY <2>1, <2>2, <2>3, RegionsAssumption DEF HeapPages
  <2>6. C = B \cup {b} BY <1>2, <2>3 DEF Good
  <2>7. HeapArea(s) = HeapArea(m) \cup h
    <3>1. HeapArea(s) = HeapStart .. (HeapStart + (c + n) - 1) BY <2>3 DEF HeapArea
    <3>2. HeapArea(m) = HeapStart .. (HeapStart + c - 1) BY <2>1 DEF HeapArea
    <3>3. PICK l \in Nat : l = HeapStart BY RegionsAssumption
    <3>4. \A w : w \in l .. (l + (c + n) - 1) <=>
                 w \in l .. (l + c - 1) \/ w \in (l + c) .. (l + c + n - 1)
      OBVIOUS
    <3>5. QED BY <2>2, <3>1, <3>2, <3>3, <3>4
  <2>8. Within(s, Extent(st) \cup HeapArea(s)) BY <1>1, <2>4, <2>7 DEF Within
  <2>9. HeapFresh(s)
    <3>1. \A w \in HeapPages : Entry(s, w) \notin Reserved
      BY <1>1, <2>4, Regions DEF HeapFresh
    <3>2. QED BY <2>3, <3>1 DEF HeapFresh
  <2>10. \A w \in ModulePages : Entry(s, w) = Entry(m, w) BY <2>4, <2>5, Regions
  <2>11. ModulesDone(s, st, C, mt) BY <1>1, <2>10, ModulesKept
  <2>12. b.start = HeapStart + c /\ b.pages = n /\ BlockPages(b) = h
    BY <2>1, <2>2 DEF BlockPages
  <2>13. \A d \in B : BlockPages(d) \subseteq HeapPages /\ BlockPages(d) \cap h = {}
    <3>1. ASSUME NEW d \in B PROVE BlockPages(d) \subseteq HeapPages /\ BlockPages(d) \cap h = {}
      <4>1. BlockPages(d) \subseteq HeapArea(m) /\ BlockPages(d) \subseteq HeapPages
        BY <1>1, <1>3, <2>1, BlockInHeap
      <4>2. HeapArea(m) \cap h = {} BY <2>1, <2>2, RegionsAssumption DEF HeapArea
      <4>3. QED BY <4>1, <4>2
    <3>2. QED BY <3>1
  <2>14. Live(s, C)
    <3>1. ASSUME NEW d \in C
          PROVE  /\ d.start \in Nat /\ d.pages \in Nat
                 /\ HeapStart <= d.start /\ d.start + d.pages <= HeapStart + s.size
                 /\ \A v \in BlockPages(d) : Entry(s, v) # NOPAGE
      <4>1. CASE d = b
        <5>1. HeapStart + c \in Nat /\ HeapStart <= HeapStart + c
              /\ HeapStart + c + n <= HeapStart + (c + n)
          BY RegionsAssumption
        <5>2. \A v \in h : Entry(s, v) \in FrameSet BY <2>4, <2>5, Regions
        <5>3. \A v \in h : Entry(s, v) # NOPAGE BY <5>2, Sizes
        <5>4. QED BY <2>3, <2>12, <4>1, <5>1, <5>3
      <4>2. CASE d \in B
        <5>1. /\ d.start \in Nat /\ d.pages \in Nat /\ HeapStart <= d.start
              /\ d.start + d.pages <= HeapStart + c
              /\ \A v \in BlockPages(d) : Entry(m, v) # NOPAGE
          BY <1>1, <2>1, <4>2 DEF Live
        <5>2. d.start + d.pages <= HeapStart + s.size
          BY <2>3, <5>1, RegionsAssumption
        <5>3. \A v \in BlockPages(d) : Entry(s, v) = Entry(m, v)
          BY <2>4, <2>13, <4>2, Regions
        <5>4. QED BY <5>1, <5>2, <5>3
      <4>3. QED BY <2>6, <4>1, <4>2
    <3>2. \A d, e \in C : d # e => BlockPages(d) \cap BlockPages(e) = {}
      <4>1. \A d, e \in B : d # e => BlockPages(d) \cap BlockPages(e) = {} BY <1>1 DEF Live
      <4>2. QED BY <2>6, <2>12, <2>13, <4>1
    <3>3. QED BY <3>1, <3>2 DEF Live
  <2>15. "tty_remap" \notin {"spawn", "run"} OBVIOUS
  <2>16. Sound(s, st, C, mt) BY <2>3, <2>8, <2>9, <2>11, <2>14, <2>15 DEF Sound
  <2>17. IInvOf(s, st, C, mt) BY <1>0, <2>3, <2>16, RunningSound
  <2>18. QED BY <1>2, <2>17
<1>7. QED BY <1>4, <1>5, <1>6

\* liballoc_free
LEMMA LiballocFreeIs ==
  ASSUME NEW m, NEW st \in Steps, NEW B, NEW mt, Sound(m, st, B, mt), Coherent(m),
         NEW b \in B, NEW s, s = Released(m, b.start, b.pages)
  PROVE  IInvOf(s, st, B \ {b}, mt)
<1>1. /\ Good(m, Extra(st), {}) /\ Within(m, Extent(st) \cup HeapArea(m)) /\ HeapFresh(m)
      /\ ModulesDone(m, st, B, mt) /\ Live(m, B)
  BY DEF Sound
<1>2. st \in {"spawn", "run"} BY <1>1 DEF ModulesDone
<1>3. m.size \in Nat /\ m.size <= HeapMax BY <1>1 DEF HeapFresh, Good, Tables
<1>4. /\ b.start \in Nat /\ b.pages \in Nat
      /\ BlockPages(b) \subseteq HeapArea(m) /\ BlockPages(b) \subseteq HeapPages
  BY <1>1, <1>3, BlockInHeap
<1>5. PICK v \in Nat, n \in Nat : v = b.start /\ n = b.pages BY <1>4
<1>6. BlockPages(b) = v .. (v + n - 1) BY <1>5 DEF BlockPages
<1>7. PICK h : h = v .. (v + n - 1) OBVIOUS
<1>8. h \subseteq HeapPages /\ h \subseteq UserPages BY <1>4, <1>6, <1>7, Regions
<1>9. \A w \in h : Entry(m, w) \notin {NOPAGE} \cup Reserved
  <2>1. \A w \in h : Entry(m, w) # NOPAGE BY <1>1, <1>6, <1>7 DEF Live
  <2>2. \A w \in h : Entry(m, w) \notin Reserved BY <1>1, <1>8 DEF HeapFresh
  <2>3. QED BY <2>1, <2>2
<1>10. FreeDone(m, s, Extra(st), v, n, n)
  <2>1. PICK x : x = Extra(st) OBVIOUS
  <2>2. Good(m, x, {}) BY <1>1, <2>1
  <2>3. v .. (v + n - 1) \subseteq UserPages BY <1>7, <1>8
  <2>4. \A w \in v .. (v + n - 1) : Entry(m, w) \notin {NOPAGE} \cup Reserved BY <1>7, <1>9
  <2>5. FreeDone(m, Released(m, v, n), x, v, n, n) BY <2>2, <2>3, <2>4, ReleasedIs
  <2>6. QED BY <1>5, <2>1, <2>5
<1>11. (v + n - n) .. (v + n - 1) = h BY <1>7
<1>12. /\ Good(s, Extra(st), {}) /\ Coherent(s) /\ s.size = m.size
       /\ \A w \in UserPages : Entry(s, w) = IF w \in h THEN NOPAGE ELSE Entry(m, w)
  BY <1>10, <1>11 DEF FreeDone
<1>13. Within(s, Extent(st) \cup HeapArea(s))
  <2>1. HeapArea(s) = HeapArea(m) BY <1>12 DEF HeapArea
  <2>2. QED BY <1>1, <1>12, <2>1 DEF Within
<1>14. HeapFresh(s)
  <2>1. \A w \in HeapPages : Entry(s, w) \notin Reserved
    BY <1>1, <1>12, Regions, Sizes DEF HeapFresh
  <2>2. QED BY <1>3, <1>12, <2>1 DEF HeapFresh
<1>15. ModulesDone(s, st, B \ {b}, mt)
  <2>1. \A w \in ModulePages : Entry(s, w) = Entry(m, w) BY <1>8, <1>12, Regions
  <2>2. QED BY <1>1, <1>2, <2>1, ModulesKept
<1>16. Live(s, B \ {b})
  <2>1. ASSUME NEW d \in B \ {b}
        PROVE  /\ d.start \in Nat /\ d.pages \in Nat
               /\ HeapStart <= d.start /\ d.start + d.pages <= HeapStart + s.size
               /\ \A w \in BlockPages(d) : Entry(s, w) # NOPAGE
    <3>1. BlockPages(d) \subseteq HeapPages BY <1>1, <1>3, BlockInHeap
    <3>2. BlockPages(d) \cap h = {} BY <1>1, <1>6, <1>7 DEF Live
    <3>3. \A w \in BlockPages(d) : Entry(s, w) = Entry(m, w) BY <1>12, <3>1, <3>2, Regions
    <3>4. QED BY <1>1, <1>12, <3>3 DEF Live
  <2>2. \A d, e \in B \ {b} : d # e => BlockPages(d) \cap BlockPages(e) = {} BY <1>1 DEF Live
  <2>3. QED BY <2>1, <2>2 DEF Live
<1>17. st # "tty_remap" BY <1>2
<1>18. Sound(s, st, B \ {b}, mt) BY <1>12, <1>13, <1>14, <1>15, <1>16, <1>17 DEF Sound
<1>19. QED BY <1>12, <1>18, RunningSound

Cache(m, v) == [m EXCEPT !.tlb = @ \cup {<<v, Entry(m, v)>>}]

\* An access to a heap page
LEMMA TouchIs ==
  ASSUME NEW m, NEW st \in Steps, NEW B, NEW mt, Sound(m, st, B, mt), Coherent(m),
         NEW v \in HeapPages, NEW s, s = Cache(m, v)
  PROVE  IInvOf(s, st, B, mt)
<1>1. PICK t : t = m.tlb \cup {<<v, Entry(m, v)>>} OBVIOUS
<1>2. IsRecord(m) BY DEF Sound, Good, Tables
<1>3. s = [bits |-> m.bits, pde |-> m.pde, tab |-> m.tab, placement |-> m.placement,
           size |-> m.size, tlb |-> t, panic |-> m.panic]
  BY <1>1, <1>2 DEF IsRecord, Cache
<1>4. /\ s.bits = m.bits /\ s.pde = m.pde /\ s.tab = m.tab /\ s.placement = m.placement
      /\ s.size = m.size /\ s.tlb = t /\ s.panic = m.panic /\ IsRecord(s)
  BY <1>3, Fields
<1>5. \A w : Entry(s, w) = Entry(m, w) BY <1>4 DEF Entry
<1>6. Good(s, Extra(st), {})
  <2>1. Tables(s) BY <1>4 DEF Sound, Good, Tables
  <2>2. Owned(s, {}) BY <1>4, <1>5 DEF Sound, Good, Owned
  <2>3. Used(s) = Used(m) BY <1>4 DEF Used
  <2>4. Placed(s, Extra(st)) BY <1>4, <2>3 DEF Sound, Good, Placed
  <2>5. QED BY <1>4, <2>1, <2>2, <2>4 DEF Sound, Good
<1>7. Within(s, Extent(st) \cup HeapArea(s))
  <2>1. HeapArea(s) = HeapArea(m) BY <1>4 DEF HeapArea
  <2>2. QED BY <1>5, <2>1 DEF Sound, Within
<1>8. HeapFresh(s) BY <1>4, <1>5 DEF Sound, HeapFresh
<1>9. st = "tty_remap" => VgaLow(s) BY <1>5 DEF Sound, VgaLow
<1>10. ModulesDone(s, st, B, mt) BY <1>4, <1>5 DEF Sound, ModulesDone, InPlace
<1>11. Live(s, B) BY <1>4, <1>5 DEF Sound, Live
<1>12. Sound(s, st, B, mt) BY <1>6, <1>7, <1>8, <1>9, <1>10, <1>11 DEF Sound
<1>13. Coherent(s) BY <1>1, <1>4, <1>5 DEF Coherent
<1>14. QED BY <1>12, <1>13, RunningSound

-----------------------------------------------------------------------------
(* Every step keeps the invariant.                                         *)

LEMMA NextIs == IInv /\ [Next]_vars => IInv'
<1>1. SUFFICES ASSUME IInv, [Next]_vars PROVE IInv' OBVIOUS
<1>2. step \in Steps /\ Coherent(mm) BY <1>1 DEF IInv, IInvOf
<1>3. Running => Sound(mm, step, blocks, module_table) BY <1>1 DEF IInv, IInvOf, Running
<1>4. ASSUME TtyRemap PROVE IInv'
  <2>1. /\ Sound(mm, "tty_remap", blocks, module_table)
        /\ mm' = UnmapRange(MapRange(mm, VgaStart, VgaStart + IOOffset, VgaPages),
                            VgaStart, VgaPages)
        /\ step' = "modules" /\ blocks' = blocks /\ module_table' = module_table
    BY <1>3, <1>4 DEF TtyRemap
  <2>2. IInvOf(mm', "modules", blocks, module_table) BY <1>2, <2>1, TtyRemapIs
  <2>3. QED BY <2>1, <2>2 DEF IInv
<1>5. ASSUME SpawnInit PROVE IInv'
  <2>1. /\ Sound(mm, "spawn", blocks, module_table)
        /\ mm' = AllocAndMap(StructureAlloc(mm), StackPage)
        /\ step' = "run" /\ blocks' = blocks /\ module_table' = module_table
    BY <1>3, <1>5 DEF SpawnInit
  <2>2. IInvOf(mm', "run", blocks, module_table) BY <1>2, <2>1, SpawnInitIs
  <2>3. QED BY <2>1, <2>2 DEF IInv
<1>6. ASSUME NEW n \in 1 .. MaxBlock, ModuleTableInit(n) PROVE IInv'
  <2>1. /\ Sound(mm, "modules", blocks, module_table) /\ step' = "spawn"
    BY <1>3, <1>6 DEF ModuleTableInit
  <2>2. n \in Nat \ {0} OBVIOUS
  <2>3. CASE Modules = <<>>
    <3>1. mm' = mm /\ blocks' = blocks /\ module_table' = module_table
      BY <1>6, <2>3 DEF ModuleTableInit
    <3>2. IInvOf(mm, "spawn", blocks, module_table) BY <1>2, <2>1, NoModulesIs
    <3>3. QED BY <2>1, <3>1, <3>2 DEF IInv
  <2>4. CASE Modules # <<>>
    <3>1. PICK b : b = [start |-> HeapStart + mm.size, pages |-> n] OBVIOUS
    <3>2. /\ mm' = MapModules(Grown(mm, n), Len(Modules))
          /\ blocks' = blocks \cup {b}
          /\ module_table' = [i \in 1 .. Len(Modules) |-> TableEntry(i)]
      BY <1>6, <2>4, <3>1 DEF ModuleTableInit, Block
    <3>3. IInvOf(mm', "spawn", blocks \cup {b}, [i \in 1 .. Len(Modules) |-> TableEntry(i)])
      BY <1>2, <2>1, <2>2, <3>1, <3>2, ModuleTableInitIs
    <3>4. QED BY <2>1, <3>2, <3>3 DEF IInv
  <2>5. QED BY <2>3, <2>4
<1>7. ASSUME NEW n \in 1 .. MaxBlock, LiballocAlloc(n) PROVE IInv'
  <2>1. n \in Nat OBVIOUS
  <2>2. PICK b : b = [start |-> HeapStart + mm.size, pages |-> n] OBVIOUS
  <2>3. /\ Sound(mm, step, blocks, module_table) /\ step \in {"spawn", "run"}
        /\ mm' = Grown(mm, n)
        /\ blocks' = IF mm'.panic = "none" THEN blocks \cup {b} ELSE blocks
        /\ module_table' = module_table /\ step' = step
    BY <1>3, <1>7, <2>2 DEF LiballocAlloc, Block
  <2>4. IInvOf(mm', step, IF mm'.panic = "none" THEN blocks \cup {b} ELSE blocks, module_table)
    BY <1>2, <2>1, <2>2, <2>3, LiballocAllocIs
  <2>5. QED BY <2>3, <2>4 DEF IInv
<1>8. ASSUME NEW b \in blocks, LiballocFree(b) PROVE IInv'
  <2>1. /\ Sound(mm, step, blocks, module_table)
        /\ blocks' = blocks \ {b} /\ module_table' = module_table /\ step' = step
        /\ mm' = IF b.start > HeapStart + mm.size THEN Panic(mm, "outside the heap")
                 ELSE Released(mm, b.start, b.pages)
    BY <1>3, <1>8 DEF LiballocFree
  <2>2. mm' = Released(mm, b.start, b.pages)
    <3>1. Live(mm, blocks) /\ mm.size \in Nat BY <2>1 DEF Sound, Good, Tables
    <3>2. /\ b.start \in Nat /\ b.pages \in Nat
          /\ b.start + b.pages <= HeapStart + mm.size
      BY <1>8, <3>1 DEF Live
    <3>3. ~ (b.start > HeapStart + mm.size) BY <3>1, <3>2, RegionsAssumption
    <3>4. QED BY <2>1, <3>3, Zenon
  <2>3. IInvOf(mm', step, blocks \ {b}, module_table) BY <1>2, <2>1, <2>2, LiballocFreeIs
  <2>4. QED BY <2>1, <2>3 DEF IInv
<1>9. ASSUME NEW v \in HeapPages, Touch(v) PROVE IInv'
  <2>1. /\ Sound(mm, step, blocks, module_table) /\ mm' = Cache(mm, v)
        /\ blocks' = blocks /\ module_table' = module_table /\ step' = step
    BY <1>3, <1>9 DEF Touch, Cache
  <2>2. IInvOf(mm', step, blocks, module_table) BY <1>2, <2>1, TouchIs
  <2>3. QED BY <2>1, <2>2 DEF IInv
<1>10. CASE UNCHANGED vars
  <2>1. mm' = mm /\ step' = step /\ blocks' = blocks /\ module_table' = module_table
    BY <1>10 DEF vars
  <2>2. QED BY <1>1, <2>1 DEF IInv
<1>11. QED BY <1>1, <1>4, <1>5, <1>6, <1>7, <1>8, <1>9, <1>10 DEF Next

\* From boot on, the page tables, the bitmap, the placement heap, the TLB, the
\* heap's blocks and the module table agree: the invariant holds for tables and
\* memories of every size, whatever the order of the operations.
THEOREM MemoryInvariant == Spec => []IInv
<1>1. QED BY InitIs, NextIs, PTL DEF Spec

-----------------------------------------------------------------------------
(* What follows from it.                                                   *)

\* The pages above the first directory entry are the kernel's, whose entries
\* are in the boot table, and the user pages.
LEMMA MappedIs ==
  ASSUME NEW m, Good(m, 0, {}) \/ Good(m, 1, {}), NEW v \in Pages, Dir(v) # 0,
         Entry(m, v) # NOPAGE
  PROVE  v \in UserPages \/ Entry(m, v) \in Reserved \cup DOMAIN m.tab
<1>1. Tables(m) /\ Owned(m, {}) BY DEF Good
<1>2. Dir(v) \in Slots /\ v % PTES \in Slots BY PageIs
<1>3. CASE Dir(v) \in UserDirs BY <1>3 DEF UserPages
<1>4. CASE Dir(v) = KernelDir
  <2>1. m.pde[KernelDir] = BootTable /\ BootTable # NOPAGE BY <1>1, Sizes DEF Tables
  <2>2. Entry(m, v) = m.tab[BootTable][v % PTES] BY <1>4, <2>1 DEF Entry
  <2>3. QED BY <1>1, <1>2, <2>2 DEF Owned
<1>5. CASE Dir(v) \notin UserDirs \cup {KernelDir}
  <2>1. m.pde[Dir(v)] = NOPAGE BY <1>1, <1>2, <1>5 DEF Tables
  <2>2. QED BY <2>1 DEF Entry
<1>6. QED BY <1>3, <1>4, <1>5

LEMMA SoundGood ==
  ASSUME NEW m, NEW st, NEW B, NEW mt, Sound(m, st, B, mt)
  PROVE  Tables(m) /\ Owned(m, {}) /\ (Good(m, 0, {}) \/ Good(m, 1, {}))
  BY DEF Sound, Good, Extra

LEMMA UserMapped ==
  ASSUME NEW v \in UserPages, Entry(mm, v) # NOPAGE
  PROVE  v \in Mapped
  BY UserPageIs, Sizes DEF Mapped

\* tty_remap, module_table_init, spawn_init, liballoc_alloc and liballoc_free
\* never meet a page table entry that is present when page_map wants to set it
\* or absent when page_unmap wants to clear it, nor a frame that is not marked.
THEOREM PanicsOnlyExhausted == Spec => []OnlyExhaustionPanics
<1>1. IInv => OnlyExhaustionPanics BY DEF IInv, IInvOf, Halts, OnlyExhaustionPanics
<1>2. QED BY <1>1, MemoryInvariant, PTL

\* flush_tlb in page_map and page_unmap is enough: no translation that the CPU
\* has cached differs from the page tables.
THEOREM TlbStaysCoherent == Spec => []TlbCoherent
<1>1. IInv => TlbCoherent BY DEF IInv, IInvOf, Coherent, TlbCoherent
<1>2. QED BY <1>1, MemoryInvariant, PTL

\* Where byte k of module i lies in its frames and, seen from the address in
\* the module table, in the pages of the module.
LEMMA ByteIs ==
  ASSUME NEW i \in 1 .. Len(Mods), NEW k \in 0 .. (Mods[i].end - Mods[i].start - 1)
  PROVE  \E j \in 0 .. (Modules[i].count - 1), t \in 0 .. (PageBytes - 1) :
            /\ Mods[i].start + k = PageBytes * (Modules[i].first + j) + t
            /\ (TableEntry(i).addr + k) \div PageBytes = ModulePage[i] + j
            /\ (TableEntry(i).addr + k) % PageBytes = t
<1>1. PICK P \in Nat \ {0} : P = PageBytes BY ReservedAssumption
<1>2. PICK a \in Nat, e \in Nat : a = Mods[i].start /\ e = Mods[i].end /\ a < e BY RoundOne
<1>3. PICK q \in Nat, c \in Nat : /\ q = Modules[i].first /\ c = Modules[i].count
                                   /\ q = a \div P /\ e <= P * (q + c)
  <2>1. /\ Modules[i] \in [first : Nat, count : Nat]
        /\ Modules[i].first = Mods[i].start \div PageBytes
        /\ Mods[i].end <= PageBytes * (Modules[i].first + Modules[i].count)
    BY RoundOne
  <2>2. Modules[i].first \in Nat /\ Modules[i].count \in Nat BY <2>1
  <2>3. QED BY <1>1, <1>2, <2>1, <2>2
<1>4. PICK r \in 0 .. (P - 1) : r = a % P BY DivMod
<1>5. a = P * q + r BY <1>3, <1>4, DivMod
<1>6. PICK p \in Nat : p = ModulePage[i]
  <2>1. i \in 1 .. (Len(Modules) + 1) BY RoundIs, ModuleIs
  <2>2. QED BY <2>1, ModulePageInNat
<1>7. TableEntry(i).addr = p * P + r BY <1>1, <1>2, <1>4, <1>6 DEF TableEntry
<1>8. k \in Nat /\ a + k < e BY <1>2
<1>9. PICK y \in Nat : y = r + k BY <1>8
<1>10. PICK j \in Nat : j = y \div P BY DivMod
<1>11. PICK t \in 0 .. (P - 1) : t = y % P BY DivMod
<1>12. y = P * j + t BY <1>10, <1>11, DivMod
<1>13. a + k = P * (q + j) + t
  <2>1. P * (q + j) = P * q + P * j OBVIOUS
  <2>2. PICK u \in Nat, w \in Nat : u = P * q /\ w = P * j OBVIOUS
  <2>3. QED BY <1>5, <1>8, <1>9, <1>12, <2>1, <2>2
<1>14. TableEntry(i).addr + k = (p + j) * P + t
  <2>1. (p + j) * P = p * P + P * j OBVIOUS
  <2>2. PICK u \in Nat, w \in Nat : u = p * P /\ w = P * j OBVIOUS
  <2>3. QED BY <1>7, <1>8, <1>9, <1>12, <2>1, <2>2
<1>15. ((p + j) * P + t) \div P = p + j /\ ((p + j) * P + t) % P = t
  <2>1. PICK n \in Nat : n = p + j OBVIOUS
  <2>2. (n * P + t) \div P = n /\ (n * P + t) % P = t BY Quotient
  <2>3. QED BY <2>1, <2>2
<1>16. j < c
  <2>1. SUFFICES ASSUME c <= j PROVE FALSE OBVIOUS
  <2>2. P * (q + c) <= P * (q + j)
    <3>1. CASE c = j BY <3>1
    <3>2. CASE c < j
      <4>1. P * (q + c) + P <= P * (q + j) BY <3>2, Less
      <4>2. PICK u \in Nat, w \in Nat : u = P * (q + c) /\ w = P * (q + j) OBVIOUS
      <4>3. QED BY <4>1, <4>2
    <3>3. QED BY <2>1, <3>1, <3>2
  <2>3. PICK u \in Nat, w \in Nat : u = P * (q + c) /\ w = P * (q + j) OBVIOUS
  <2>4. QED BY <1>3, <1>8, <1>13, <2>2, <2>3
<1>17. j \in 0 .. (c - 1) BY <1>16
<1>18. QED BY <1>1, <1>2, <1>3, <1>6, <1>13, <1>14, <1>15, <1>17

\* A module whose frames are in place is in place byte by byte.
LEMMA BytesInPlace ==
  ASSUME NEW m, NEW i \in 1 .. Len(Mods), InPlace(m, i),
         NEW addr, addr = TableEntry(i).addr, NEW size, size = TableEntry(i).size
  PROVE  /\ \A k \in 0 .. (size - 1) : VirtToPhys(m, addr + k) = Mods[i].start + k
         /\ Entry(m, (addr + size - 1) \div PageBytes + 1) = NOPAGE
<1>1. PICK P \in Nat \ {0} : P = PageBytes BY ReservedAssumption
<1>2. PICK a \in Nat, e \in Nat : a = Mods[i].start /\ e = Mods[i].end /\ a < e BY RoundOne
<1>3. PICK q \in Nat, c \in Nat : /\ q = Modules[i].first /\ c = Modules[i].count
                                   /\ P * (q + c) < e + P
  <2>1. /\ Modules[i] \in [first : Nat, count : Nat]
        /\ PageBytes * (Modules[i].first + Modules[i].count) < Mods[i].end + PageBytes
    BY RoundOne
  <2>2. Modules[i].first \in Nat /\ Modules[i].count \in Nat BY <2>1
  <2>3. QED BY <1>1, <1>2, <2>1, <2>2
<1>4. PICK p \in Nat : p = ModulePage[i]
  <2>1. i \in 1 .. (Len(Modules) + 1) BY RoundIs, ModuleIs
  <2>2. QED BY <2>1, ModulePageInNat
<1>5. size = e - a BY <1>2 DEF TableEntry
<1>6. addr \in Nat
  <2>1. PICK r \in 0 .. (P - 1) : r = a % P BY DivMod
  <2>2. addr = p * P + r BY <1>1, <1>2, <1>4, <2>1 DEF TableEntry
  <2>3. p * P \in Nat OBVIOUS
  <2>4. QED BY <2>1, <2>2, <2>3
<1>7. ASSUME NEW k \in 0 .. (e - a - 1)
      PROVE  \E j \in 0 .. (c - 1), t \in 0 .. (P - 1) :
                /\ a + k = P * (q + j) + t
                /\ (addr + k) \div P = p + j /\ (addr + k) % P = t
  BY <1>1, <1>2, <1>3, <1>4, ByteIs
<1>8. ASSUME NEW k \in 0 .. (size - 1) PROVE VirtToPhys(m, addr + k) = Mods[i].start + k
  <2>1. PICK j \in 0 .. (c - 1), t \in 0 .. (P - 1) :
           /\ a + k = P * (q + j) + t
           /\ (addr + k) \div P = p + j /\ (addr + k) % P = t
    BY <1>5, <1>7
  <2>2. Entry(m, p + j) = q + j BY <1>3, <1>4 DEF InPlace
  <2>3. VirtToPhys(m, addr + k) = (q + j) * P + t BY <1>1, <2>1, <2>2 DEF VirtToPhys
  <2>4. (q + j) * P = P * (q + j) OBVIOUS
  <2>5. QED BY <1>2, <2>1, <2>3, <2>4
<1>9. Entry(m, (addr + size - 1) \div PageBytes + 1) = NOPAGE
  <2>1. PICK k \in 0 .. (e - a - 1) : k = e - a - 1 BY <1>2
  <2>2. PICK j \in 0 .. (c - 1), t \in 0 .. (P - 1) :
           /\ a + k = P * (q + j) + t
           /\ (addr + k) \div P = p + j /\ (addr + k) % P = t
    BY <1>7
  <2>3. addr + size - 1 = addr + k BY <1>5, <1>6, <2>1
  <2>4. j + 1 = c
    <3>1. SUFFICES ASSUME q + j + 1 < q + c PROVE FALSE OBVIOUS
    <3>2. P * (q + j + 1) + P <= P * (q + c) BY <3>1, Less
    <3>3. P * (q + j + 1) = P * (q + j) + P OBVIOUS
    <3>4. PICK u \in Nat, w \in Nat : u = P * (q + j) /\ w = P * (q + c) OBVIOUS
    <3>5. w < e + P BY <1>3, <3>4
    <3>6. u + P + P <= w BY <3>2, <3>3, <3>4
    <3>7. a + k = u + t BY <2>2, <3>4
    <3>8. a + k = e - 1 BY <2>1
    <3>9. QED BY <3>5, <3>6, <3>7, <3>8
  <2>5. (addr + size - 1) \div PageBytes + 1 = p + c BY <1>1, <2>2, <2>3, <2>4
  <2>6. QED BY <1>3, <1>4, <2>5 DEF InPlace
<1>10. QED BY <1>8, <1>9

\* Every byte of the modules that module_table_init mapped stays where the
\* module table says, wherever in their pages they begin and end.
THEOREM ModulesStayInPlace == Spec => []ModulesInPlace
<1>1. ASSUME IInv, Running, NEW i \in 1 .. Len(module_table),
             NEW addr, addr = module_table[i].addr, NEW size, size = module_table[i].size
      PROVE  /\ \A k \in 0 .. (size - 1) : VirtToPhys(mm, addr + k) = Mods[i].start + k
             /\ Entry(mm, (addr + size - 1) \div PageBytes + 1) = NOPAGE
  <2>1. ModulesDone(mm, step, blocks, module_table)
    BY <1>1 DEF IInv, IInvOf, Running, Sound
  <2>2. CASE step \in {"spawn", "run"}
    <3>1. /\ module_table[i] = TableEntry(i) /\ InPlace(mm, i)
          /\ Len(module_table) \in Nat /\ Len(module_table) <= Len(Modules)
      BY <1>1, <2>1, <2>2 DEF ModulesDone
    <3>2. i \in 1 .. Len(Mods) BY <1>1, <3>1, RoundIs, ModuleIs
    <3>3. addr = TableEntry(i).addr /\ size = TableEntry(i).size BY <1>1, <3>1
    <3>4. QED BY <3>1, <3>2, <3>3, BytesInPlace
  <2>3. CASE step \notin {"spawn", "run"}
    <3>1. module_table = <<>> BY <2>1, <2>3 DEF ModulesDone
    <3>2. QED BY <1>1, <3>1
  <2>4. QED BY <2>2, <2>3
<1>2. IInv => ModulesInPlace BY <1>1 DEF ModulesInPlace
<1>3. QED BY <1>2, MemoryInvariant, PTL

\* A frame is marked in the bitmap exactly as long as it is reserved, a page
\* table or behind a mapped page: liballoc_free loses none, and page_map and
\* paging_structure_alloc use none that is not marked.
THEOREM FramesStayAccounted == Spec => []FramesAccounted
<1>1. ASSUME IInv, Running
      PROVE  mm.bits = Reserved \cup DOMAIN mm.tab \cup {Entry(mm, v) : v \in Mapped}
  <2>1. /\ Tables(mm) /\ Owned(mm, {}) /\ (Good(mm, 0, {}) \/ Good(mm, 1, {}))
    <3>1. Sound(mm, step, blocks, module_table) BY <1>1 DEF IInv, IInvOf, Running
    <3>2. QED BY <3>1, SoundGood
  <2>2. mm.bits = Reserved \cup DOMAIN mm.tab \cup {} \cup
                  {f \in FrameSet : \E v \in UserPages : Entry(mm, v) = f}
    BY <2>1 DEF Owned
  <2>3. ASSUME NEW f \in FrameSet, NEW v \in UserPages, Entry(mm, v) = f PROVE v \in Mapped
    BY <2>3, UserMapped, Sizes
  <2>4. ASSUME NEW v \in Mapped PROVE Entry(mm, v) \in mm.bits
    <3>1. v \in Pages /\ Dir(v) # 0 /\ Entry(mm, v) # NOPAGE BY DEF Mapped
    <3>2. v \in UserPages \/ Entry(mm, v) \in Reserved \cup DOMAIN mm.tab
      BY <2>1, <3>1, MappedIs
    <3>3. CASE v \in UserPages
      <4>1. Entry(mm, v) \in FrameSet BY <2>1, <3>1, <3>3, EntryIn DEF Entries
      <4>2. QED BY <2>2, <3>3, <4>1
    <3>4. QED BY <2>2, <3>2, <3>3
  <2>5. QED BY <2>2, <2>3, <2>4
<1>2. IInv => FramesAccounted BY <1>1 DEF FramesAccounted
<1>3. QED BY <1>2, MemoryInvariant, PTL

\* What liballoc_alloc returned is mapped until liballoc_free, page by page to
\* a frame that is used for nothing else.
THEOREM HeapStaysPrivate == Spec => []HeapPrivate
<1>1. ASSUME IInv, Running, NEW b \in blocks, NEW v \in BlockPages(b)
      PROVE  /\ v \in Mapped
             /\ Entry(mm, v) \notin Reserved \cup DOMAIN mm.tab
             /\ \A w \in Mapped \ {v} : Entry(mm, w) # Entry(mm, v)
  <2>1. Sound(mm, step, blocks, module_table) BY <1>1 DEF IInv, IInvOf, Running
  <2>2. /\ Tables(mm) /\ Owned(mm, {}) /\ (Good(mm, 0, {}) \/ Good(mm, 1, {}))
    BY <2>1, SoundGood
  <2>3. mm.size \in Nat /\ mm.size <= HeapMax /\ Live(mm, blocks) /\ HeapFresh(mm)
    BY <2>1, <2>2 DEF Tables, Sound, HeapFresh
  <2>4. v \in HeapPages /\ v \in UserPages BY <1>1, <2>3, BlockInHeap, Regions
  <2>5. Entry(mm, v) # NOPAGE /\ Entry(mm, v) \notin Reserved
    BY <1>1, <2>3, <2>4 DEF Live, HeapFresh
  <2>6. /\ Entry(mm, v) \notin DOMAIN mm.tab
        /\ \A w \in UserPages : Entry(mm, w) = Entry(mm, v) => w = v
    BY <2>2, <2>4, <2>5 DEF Owned
  <2>7. ASSUME NEW w \in Mapped \ {v} PROVE Entry(mm, w) # Entry(mm, v)
    <3>1. w \in Pages /\ Dir(w) # 0 /\ Entry(mm, w) # NOPAGE BY DEF Mapped
    <3>2. w \in UserPages \/ Entry(mm, w) \in Reserved \cup DOMAIN mm.tab
      BY <2>2, <3>1, MappedIs
    <3>3. QED BY <2>5, <2>6, <2>7, <3>2
  <2>8. v \in Mapped BY <2>4, <2>5, UserMapped
  <2>9. QED BY <2>5, <2>6, <2>7, <2>8
<1>2. IInv => HeapPrivate BY <1>1 DEF HeapPrivate
<1>3. QED BY <1>2, MemoryInvariant, PTL

=============================================================================
