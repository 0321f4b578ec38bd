--------------------------- MODULE VirtualMemory ---------------------------
(***************************************************************************)
(* Virtual memory on top of the page bitmap: page directory and page       *)
(* tables, the placement heap that page tables come from, the console and  *)
(* module mappings made at boot, the first task's stack, and the kernel    *)
(* heap's liballoc_alloc / liballoc_free.  Addresses are page numbers, but *)
(* for those of the boot modules, which are in bytes.                      *)
(*                                                                         *)
(* Every operation runs with interrupts off (during kmain, or under        *)
(* liballoc_lock) and is one step.  A panic stops the machine.             *)
(***************************************************************************)
EXTENDS Integers, Sequences

CONSTANTS
    Frames,       \* the number of frames in the bitmap
    Reserved,     \* the frames in use when pmm_init is done
    PTES,         \* entries of a page directory and of a page table, 1024
    KernelDir,    \* directory entry of the higher half, 768
    BootTable,    \* frame of g_real_kernel_page_table
    BootPages,    \* pages init_bootstrap_paging maps, low addresses
    VgaStart,     \* first page of the text buffer, a low address
    VgaPages,     \* pages of the text buffer
    IOOffset,     \* IO_MMAP_HIGH_OFFSET
    Placement,    \* first page behind the kernel image
    HeapStart,    \* KHEAP_START
    HeapMax,      \* KHEAP_MAX_SIZE
    StackPage,    \* where spawn_init puts a task's stack
    ModStart,     \* MODULES_START_ADDR
    PageBytes,    \* PAGE_SIZE
    Mods,         \* the boot modules: a sequence of [start, end), in bytes
    EntryBytes,   \* sizeof(struct page_dir_entry), 4
    MaxBlock      \* bound on the pages of one liballoc_alloc

NOPAGE == -1

HALF == -3   \* a directory entry that is present and has no address yet

Pages == 0 .. (PTES * PTES - 1)

FrameSet == 0 .. (Frames - 1)

Dir(v) == v \div PTES

Blank == [i \in 0 .. (PTES - 1) |-> NOPAGE]

\* Mutant: the size of the module is rounded up, not its end.
ModulesBySize ==
    [i \in 1 .. Len(Mods) |->
        [first |-> Mods[i].start \div PageBytes,
         count |-> (Mods[i].end - Mods[i].start + (PageBytes - 1)) \div PageBytes]]

\* The frames of each boot module: its start is rounded down to a page, its
\* end is rounded up.
Modules ==
    [i \in 1 .. Len(Mods) |->
        LET mod_start == Mods[i].start \div PageBytes
            mod_end   == (Mods[i].end + (PageBytes - 1)) \div PageBytes
        IN  [first |-> mod_start, count |-> mod_end - mod_start]]

\* The pages at which module_table_init puts the modules: behind each of them
\* there is a page that it leaves alone.
ModulePage[i \in 1 .. (Len(Modules) + 1)] ==
    IF i = 1 THEN ModStart ELSE ModulePage[i - 1] + Modules[i - 1].count + 1

\* The parts of the address space that are mapped after boot.
Console == (VgaStart + IOOffset) .. (VgaStart + IOOffset + VgaPages - 1)

HeapPages == HeapStart .. (HeapStart + HeapMax)

ModulePages == ModStart .. (ModulePage[Len(Modules) + 1] - 1)

\* The directory entries between the kernel's own and the self-mapping, the
\* last one.
UserDirs == (KernelDir + 1) .. (PTES - 2)

UserPages == {v \in Pages : Dir(v) \in UserDirs}

\* What pmm_init has reserved: the boot page table, the first megabyte and
\* the kernel image, and the modules.  The boot loader loads no empty file.
ASSUME ReservedAssumption ==
    /\ Frames \in Nat /\ PTES \in Nat /\ KernelDir \in 1 .. (PTES - 2)
    /\ Reserved \subseteq FrameSet /\ BootTable \in Reserved
    /\ BootPages \subseteq Reserved \cap (0 .. (PTES - 1))
    /\ VgaStart \in Nat /\ VgaPages \in Nat
    /\ VgaStart .. (VgaStart + VgaPages - 1) \subseteq BootPages
    /\ PageBytes \in Nat \ {0} /\ Mods \in Seq([start : Nat, end : Nat])
    /\ \A i \in 1 .. Len(Mods) : Mods[i].start < Mods[i].end
    /\ \A i \in 1 .. Len(Modules) :
          Modules[i].first .. (Modules[i].first + Modules[i].count - 1) \subseteq Reserved

\* The placement heap starts behind the boot mappings, in the same table, and
\* does not outgrow it: it takes a page for each directory entry above the
\* kernel's and one for a task.  In the code that is 255 pages, and of the 1024
\* entries of the table the first megabyte and the kernel image take some 300.
ASSUME PlacementAssumption ==
    /\ Placement \in Nat
    /\ KernelDir * PTES <= Placement
    /\ Placement + (PTES - KernelDir) <= (KernelDir + 1) * PTES
    /\ \A p \in BootPages : p < Placement - KernelDir * PTES

\* The console at 0xF0000000, the heap at 0xD0000000, the stack below it and
\* the modules at 0xE0000000 are out of each other's way.
ASSUME RegionsAssumption ==
    /\ IOOffset \in Nat /\ HeapStart \in Nat /\ HeapMax \in Nat
    /\ StackPage \in Nat /\ ModStart \in Nat
    /\ Console \cup HeapPages \cup ModulePages \cup {StackPage} \subseteq UserPages
    /\ Console \cap HeapPages = {} /\ Console \cap ModulePages = {}
    /\ HeapPages \cap ModulePages = {}
    /\ StackPage \notin Console \cup HeapPages \cup ModulePages

VARIABLES
    mm,       \* the memory structures, see Init
    clone,    \* the page directory of the task that spawn_init made
    blocks,   \* history: [start, pages] of the live blocks of the kernel heap
    module_table,   \* [addr, size] of each module, in bytes
    step      \* the next boot-time user of page_map

vars == <<mm, clone, blocks, module_table, step>>

\* boot.S: directory entries 0 and 768 share one page table, which maps the
\* first megabyte but page 0, and the kernel image.
Init ==
    /\ mm = [bits      |-> Reserved,
             pde       |-> [d \in 0 .. (PTES - 1) |->
                               IF d \in {0, KernelDir} THEN BootTable ELSE NOPAGE],
             tab       |-> [t \in {BootTable} |->
                               [i \in 0 .. (PTES - 1) |->
                                   IF i \in BootPages THEN i ELSE NOPAGE]],
             placement |-> Placement,     \* placement_heap
             size      |-> 0,             \* kheap.size
             tlb       |-> {},            \* cached translations of heap pages
             panic     |-> "none"]
    /\ clone = Blank
    /\ blocks = {}
    /\ module_table = <<>>
    /\ step = "tty_remap"

-----------------------------------------------------------------------------
(* The operations on mm, each with the panics of the code.                 *)

Panic(m, why) == [m EXCEPT !.panic = why]

\* The page table entry of v, read through the self-mapped directory.
Entry(m, v) ==
    IF m.pde[Dir(v)] \in {NOPAGE, HALF} THEN NOPAGE ELSE m.tab[m.pde[Dir(v)]][v % PTES]

\* bitmap_first_free (PageFrames.tla checks the search itself)
FirstFree(m) ==
    LET clear == FrameSet \ m.bits
    IN  IF clear = {} THEN NOPAGE
        ELSE CHOOSE f \in clear : \A g \in clear : f <= g

\* flush_tlb
FlushTlb(tlb, v) == {e \in tlb : e[1] # v}

\* virt_to_phys of a byte address
VirtToPhys(m, a) == Entry(m, a \div PageBytes) * PageBytes + (a % PageBytes)

\* page_map from the test of the page table entry on.  Through a half-made
\* directory entry the code would write into frame 0; the model stops.
SetEntry(m, f, v) ==
    IF m.pde[Dir(v)] \in {NOPAGE, HALF} THEN Panic(m, "no page table")
    ELSE IF Entry(m, v) # NOPAGE THEN Panic(m, "entry present")
    ELSE [m EXCEPT !.tab[m.pde[Dir(v)]][v % PTES] = f,
                   !.tlb = FlushTlb(@, v)]

\* Mutant: the page that becomes a page table is not marked in the bitmap.
StructureAllocUnmarked(m) ==
    LET f == FirstFree(m)
        s == SetEntry(m, f, m.placement)
    IN  IF f = NOPAGE THEN Panic(m, "out of memory")
        ELSE [s EXCEPT !.tab = [t \in DOMAIN @ \cup {f} |->
                                   IF t = f THEN Blank ELSE @[t]],
                       !.placement = @ + 1]

\* paging_structure_alloc: a zeroed page at the end of the placement heap.
StructureAlloc(m) ==
    LET f == FirstFree(m)
        s == SetEntry([m EXCEPT !.bits = @ \cup {f}], f, m.placement)
    IN  IF f = NOPAGE THEN Panic(m, "out of memory")
        ELSE [s EXCEPT !.tab = [t \in DOMAIN @ \cup {f} |->
                                   IF t = f THEN Blank ELSE @[t]],
                       !.placement = @ + 1]

\* page_map: a missing directory entry is marked present, the page table is
\* allocated, which is a page_map of its own, and then the entry is given the
\* table's physical address (virt_to_phys).
PageMap(m, f, v) ==
    IF m.panic # "none" THEN m
    ELSE IF f \notin m.bits THEN Panic(m, "frame not allocated")
    ELSE IF m.pde[Dir(v)] # NOPAGE THEN SetEntry(m, f, v)
    ELSE LET s == StructureAlloc([m EXCEPT !.pde[Dir(v)] = HALF])
         IN  IF s.panic # "none" THEN s
             ELSE SetEntry([s EXCEPT !.pde[Dir(v)] = Entry(s, m.placement)], f, v)

\* Mutant: the translation stays in the TLB.
PageUnmapNoFlush(m, v) ==
    IF m.panic # "none" THEN m
    ELSE IF Entry(m, v) = NOPAGE THEN Panic(m, "entry not present")
    ELSE [m EXCEPT !.tab[m.pde[Dir(v)]][v % PTES] = NOPAGE]

PageUnmap(m, v) ==
    IF m.panic # "none" THEN m
    ELSE IF Entry(m, v) = NOPAGE THEN Panic(m, "entry not present")
    ELSE [m EXCEPT !.tab[m.pde[Dir(v)]][v % PTES] = NOPAGE,
                   !.tlb = FlushTlb(@, v)]

\* page_alloc and page_map of the frame it returns.
AllocAndMap(m, v) ==
    LET f == FirstFree(m)
    IN  IF m.panic # "none" THEN m
        ELSE IF f = NOPAGE THEN Panic(m, "out of memory")
        ELSE PageMap([m EXCEPT !.bits = @ \cup {f}], f, v)

\* One round of the loop in liballoc_alloc.
GrowHeap(m) ==
    LET s == AllocAndMap(m, HeapStart + m.size)
    IN  IF s.panic # "none" THEN s
        ELSE IF s.size + 1 > HeapMax
             THEN Panic([s EXCEPT !.size = @ + 1], "heap size")
             ELSE [s EXCEPT !.size = @ + 1]

\* Mutant: the frame is not given back.
ReleaseKeepsFrame(m, v) == PageUnmap(m, v)

\* One round of the loop in liballoc_free.
Release(m, v) ==
    LET f == Entry(m, v)
        s == PageUnmap(m, v)
    IN  [s EXCEPT !.bits = IF s.panic = "none" THEN @ \ {f} ELSE @]

(* Loops of them.                                                          *)

\* page_map of n frames from f on at the pages from v on
MapRange(m, f, v, n) ==
    LET after[k \in 0 .. n] ==
            IF k = 0 THEN m ELSE PageMap(after[k - 1], f + k - 1, v + k - 1)
    IN  after[n]

\* page_unmap of n pages from v on
UnmapRange(m, v, n) ==
    LET after[k \in 0 .. n] == IF k = 0 THEN m ELSE PageUnmap(after[k - 1], v + k - 1)
    IN  after[n]

\* liballoc_alloc of n pages
Grown(m, n) ==
    LET after[k \in 0 .. n] == IF k = 0 THEN m ELSE GrowHeap(after[k - 1])
    IN  after[n]

\* liballoc_free of n pages from v on, the last one first
Released(m, v, n) ==
    LET after[k \in 0 .. n] == IF k = 0 THEN m ELSE Release(after[k - 1], v + n - k)
    IN  after[n]

\* All the pages of the first n modules are mapped.
MapModules(m, n) ==
    LET after[i \in 0 .. n] ==
            IF i = 0 THEN m
            ELSE MapRange(after[i - 1], Modules[i].first, ModulePage[i], Modules[i].count)
    IN  after[n]

-----------------------------------------------------------------------------
Running == mm.panic = "none"

\* tty_remap: all pages are mapped at their high address, then the low ones
\* are unmapped.
TtyRemap ==
    /\ Running
    /\ step = "tty_remap"
    /\ step' = "modules"
    /\ LET high == MapRange(mm, VgaStart, VgaStart + IOOffset, VgaPages)
       IN  mm' = UnmapRange(high, VgaStart, VgaPages)
    /\ UNCHANGED <<clone, blocks, module_table>>

\* A block of the heap that begins where the heap ends.
Block(n) == [start |-> HeapStart + mm.size, pages |-> n]

\* module_table[i]
TableEntry(i) ==
    [addr |-> ModulePage[i] * PageBytes + (Mods[i].start % PageBytes),
     size |-> Mods[i].end - Mods[i].start]

\* module_table_init: the table comes from the heap, which gets its first n
\* pages for it.
ModuleTableInit(n) ==
    /\ Running
    /\ step = "modules"
    /\ step' = "spawn"
    /\ IF Modules = <<>>
       THEN UNCHANGED <<mm, blocks, module_table>>
       ELSE /\ mm' = MapModules(Grown(mm, n), Len(Modules))
            /\ blocks' = blocks \cup {Block(n)}
            /\ module_table' = [i \in 1 .. Len(Modules) |-> TableEntry(i)]
    /\ UNCHANGED clone

TORN == -2   \* an entry of which only some bytes were copied

\* spawn_init's memcpy of the kernel's half of the directory: the count is
\* the number of entries, and memcpy takes bytes.
CopiedDir(pde, self) ==
    LET bytes == PTES - 1 - KernelDir
    IN  [d \in 0 .. (PTES - 1) |->
           CASE d = PTES - 1 -> self
             [] d \in KernelDir .. (KernelDir + bytes \div EntryBytes - 1) -> pde[d]
             [] d = KernelDir + bytes \div EntryBytes /\ bytes % EntryBytes # 0 ->
                    IF pde[d] = NOPAGE THEN NOPAGE ELSE TORN
             [] OTHER -> NOPAGE]

\* spawn_init: a page directory for the task, and its stack.
SpawnInit ==
    /\ Running
    /\ step = "spawn"
    /\ step' = "run"
    /\ LET s == StructureAlloc(mm)
       IN  /\ mm' = AllocAndMap(s, StackPage)
           /\ clone' = CopiedDir(s.pde, Entry(s, mm.placement))
    /\ UNCHANGED <<blocks, module_table>>

\* liballoc_alloc, when the boot code is done with the modules: the heap only
\* ever grows.
LiballocAlloc(n) ==
    /\ Running
    /\ step \in {"spawn", "run"}
    /\ mm' = Grown(mm, n)
    /\ blocks' = IF mm'.panic = "none" THEN blocks \cup {Block(n)} ELSE blocks
    /\ UNCHANGED <<clone, module_table, step>>

\* Mutant: the last block's addresses are given back to the heap.
LiballocFreeShrinks(b) ==
    /\ Running
    /\ mm' = [Released(mm, b.start, b.pages) EXCEPT !.size = @ - b.pages]
    /\ blocks' = blocks \ {b}
    /\ UNCHANGED <<clone, module_table, step>>

\* liballoc_free of a block liballoc_alloc returned, last page first.  That
\* page_free only worries about a clear bit changes nothing.
LiballocFree(b) ==
    /\ Running
    /\ mm' = IF b.start > HeapStart + mm.size THEN Panic(mm, "outside the heap")
             ELSE Released(mm, b.start, b.pages)
    /\ blocks' = blocks \ {b}
    /\ UNCHANGED <<clone, module_table, step>>

\* An access to a heap page makes the CPU cache its translation.
Touch(v) ==
    /\ Running
    /\ Entry(mm, v) # NOPAGE
    /\ <<v, Entry(mm, v)>> \notin mm.tlb
    /\ mm' = [mm EXCEPT !.tlb = @ \cup {<<v, Entry(mm, v)>>}]
    /\ UNCHANGED <<clone, blocks, module_table, step>>

Next ==
    \/ TtyRemap \/ SpawnInit
    \/ \E n \in 1 .. MaxBlock : ModuleTableInit(n) \/ LiballocAlloc(n)
    \/ \E b \in blocks : LiballocFree(b)
    \/ \E v \in HeapPages : Touch(v)

Spec == Init /\ [][Next]_vars

-----------------------------------------------------------------------------
(* Properties.                                                             *)

\* The machine stops for want of memory and for nothing else: whatever the
\* order in which the boot code, the tasks and the heap use page_map and
\* page_unmap, none of their "cannot happen" panics does.
OnlyExhaustionPanics == mm.panic \in {"none", "out of memory", "heap size"}

\* The pages behind the boot mappings that are mapped.
Mapped == {v \in Pages : Dir(v) # 0 /\ Entry(mm, v) # NOPAGE}

BlockPages(b) == b.start .. (b.start + b.pages - 1)

\* Every page of a live heap block is mapped, and no frame behind one is the
\* frame of any other page, of a page table or of the boot image.
HeapPrivate ==
    Running =>
    \A b \in blocks : \A v \in BlockPages(b) :
        /\ v \in Mapped
        /\ Entry(mm, v) \notin Reserved \cup DOMAIN mm.tab
        /\ \A w \in Mapped \ {v} : Entry(mm, w) # Entry(mm, v)

\* The bitmap marks what pmm_init reserved, the page tables and the pages
\* behind live mappings, and nothing else: no frame leaks when blocks go.
FramesAccounted ==
    Running => mm.bits = Reserved \cup DOMAIN mm.tab \cup
                         {Entry(mm, v) : v \in Mapped}

\* Every byte of a module is found at its place behind the address in the
\* module table, whatever the heap, its page tables and the task's stack map,
\* and the page behind the last byte is unmapped.
ModulesInPlace ==
    Running =>
    \A i \in 1 .. Len(module_table) :
        LET addr == module_table[i].addr
            size == module_table[i].size
        IN  /\ \A k \in 0 .. (size - 1) : VirtToPhys(mm, addr + k) = Mods[i].start + k
            /\ Entry(mm, (addr + size - 1) \div PageBytes + 1) = NOPAGE

\* The CPU never translates a heap address to a frame it no longer has.
TlbCoherent == \A e \in mm.tlb : Entry(mm, e[1]) = e[2]

=============================================================================
