---------------------------- MODULE PageFrames ----------------------------
(***************************************************************************)
(* The physical memory manager: the page bitmap, how kinit and pmm_init    *)
(* test what the boot loader reports and fill the bitmap from it, and      *)
(* page_alloc / page_free on top of it.  A set bit is a frame in use; the  *)
(* bitmap is the set of its set bits.                                      *)
(* pmm_init runs before any task exists and its callers later hold a       *)
(* critical region or have interrupts off, so every operation is one step. *)
(***************************************************************************)
EXTENDS Integers, Sequences, FiniteSetsExt

CONSTANTS
    BootInfos,      \* multiboot_info structures the machine may start with
    PageSize,
    BitsPerByte,    \* 8
    BytesPerWord,   \* sizeof(unsigned), 4
    ArrayWords,     \* BITMAP_ARRAY_SIZE, in words
    AddrSpace,      \* 2^32: the addresses of the memory map have 64 bits
    Kernel          \* [start, end): the kernel image in physical memory

BitsPerWord == BitsPerByte * BytesPerWord

ArrayBits == ArrayWords * BitsPerWord

NONE == -1   \* (unsigned)-1

\* The flags of a multiboot_info structure that the kernel tests.
Flags == {"MEMORY", "MEM_MAP", "MODS"}

\* An entry of the memory map, and a boot module in [start, end).
MmapEntry == [addr : Nat, len : Nat, available : BOOLEAN]

ModList == [start : Nat, end : Nat]

\* What the boot loader passes to kinit: its magic number is the right one
\* (and the structure is not NULL), the flags, the size of the memory, the
\* memory map and the modules, none of which is an empty file.
IsMultibootInfo(m) ==
    /\ m.magic \in BOOLEAN
    /\ m.flags \subseteq Flags
    /\ m.mem \in Nat
    /\ m.map \in Seq(MmapEntry)
    /\ m.mods \in Seq(ModList)
    /\ \A i \in 1 .. Len(m.mods) : m.mods[i].start < m.mods[i].end

ASSUME BootInfosAssumption == \A m \in BootInfos : IsMultibootInfo(m)

ASSUME SizesAssumption ==
    /\ {PageSize, BitsPerByte, BytesPerWord, ArrayWords, AddrSpace} \subseteq Nat \ {0}
    /\ NONE \notin 0 .. ArrayBits
    /\ Kernel \in ModList /\ Kernel.start <= Kernel.end

VARIABLES
    step,         \* the next part of kinit and pmm_init, "ready" behind them
    mbi,          \* g_multiboot_info
    index,        \* the loop variable of the map and the module loop
    word_count,   \* page_bitmap.word_count
    bits,         \* the frames whose bit is set in page_bitmap
    reserved,     \* history: the bits set when pmm_init returned
    held          \* the frames page_alloc handed out and nobody freed yet

vars == <<step, mbi, index, word_count, bits, reserved, held>>

CeilDiv(a, b) == (a + b - 1) \div b

\* The bits a region touches: both loops run while size_bits >= 0, once more
\* than the number of pages in size.
RegionBits(base, size) ==
    (base \div PageSize) .. (base \div PageSize + CeilDiv(size, PageSize))

\* Nothing in the code keeps a region inside the bitmap's array: it would clear
\* or set bits of what lies behind it.  The kernel, the modules and, with the
\* size the code gives them, the available regions are taken to lie inside.
ASSUME ArrayAssumption ==
    LET Inside(base, size) == RegionBits(base, size) \subseteq 0 .. (ArrayBits - 1)
    IN  /\ Inside(Kernel.start, Kernel.end - Kernel.start)
        /\ \A m \in BootInfos :
              /\ \A i \in 1 .. Len(m.mods) :
                    Inside(m.mods[i].start, m.mods[i].end - m.mods[i].start - 1)
              /\ \A i \in 1 .. Len(m.map) : m.map[i].available =>
                    Inside(m.map[i].addr % AddrSpace, m.map[i].addr % AddrSpace)

InitRegion(b, base, size) == (b \ RegionBits(base, size)) \cup {0}

\* Mutant: the region of the kernel is marked without its last page.
DeinitRegionShort(b, base, size) ==
    b \cup (base \div PageSize) .. (base \div PageSize + CeilDiv(size, PageSize) - 1)

DeinitRegion(b, base, size) == b \cup RegionBits(base, size)

\* Mutant: words with any bit set are skipped.
FirstFreeSkipsPartial(b) ==
    LET free == {w \in 0 .. (word_count - 1) :
                    \A i \in 0 .. (BitsPerWord - 1) : w * BitsPerWord + i \notin b}
    IN  IF free = {} THEN NONE ELSE Min(free) * BitsPerWord

\* bitmap_first_free: the first word that is not full, its first clear bit.
FirstFree(b) ==
    LET Clear(w) == {i \in 0 .. (BitsPerWord - 1) : w * BitsPerWord + i \notin b}
        words    == {w \in 0 .. (word_count - 1) : Clear(w) # {}}
    IN  IF words = {} THEN NONE
        ELSE Min(words) * BitsPerWord + Min(Clear(Min(words)))

-----------------------------------------------------------------------------
Init ==
    /\ step = "kinit"
    /\ mbi \in BootInfos
    /\ index = 1
    /\ word_count = 0
    /\ bits = {}
    /\ reserved = {}
    /\ held = {}

\* kinit: the tests of its arguments, and the copy of the structure.
Kinit ==
    /\ step = "kinit"
    /\ step' = IF mbi.magic THEN "pmm_init" ELSE "panic"
    /\ UNCHANGED <<mbi, index, word_count, bits, reserved, held>>

\* pmm_init up to the initialization of the bitmap.
PmmInit ==
    /\ step = "pmm_init"
    /\ step' = IF {"MEMORY", "MEM_MAP"} \subseteq mbi.flags THEN "init_bitmap"
               ELSE "panic"
    /\ UNCHANGED <<mbi, index, word_count, bits, reserved, held>>

\* paging_init_bitmap: the memset counts bytes, ArrayWords of them.  KASSERT
\* stops the machine when the memory is too large.
PagingInitBitmap ==
    LET page_count == CeilDiv(mbi.mem, PageSize)
        words      == CeilDiv(page_count, BitsPerWord)
    IN
    /\ step = "init_bitmap"
    /\ word_count' = words
    /\ IF words < ArrayWords
       THEN /\ step' = "parse"
            /\ bits' = 0 .. (ArrayWords * BitsPerByte - 1)
       ELSE step' = "panic" /\ UNCHANGED bits
    /\ UNCHANGED <<mbi, index, reserved, held>>

\* pmm_init behind the memory map: the kernel image is not free.
PreserveKernel(b) == DeinitRegion(b, Kernel.start, Kernel.end - Kernel.start)

\* parse_memory_map, one entry: addr32 is the low half of mmap->addr, and so
\* is len32.
ParseMemoryMap ==
    LET addr32 == mbi.map[index].addr % AddrSpace
        len32  == mbi.map[index].addr % AddrSpace
    IN
    /\ step = "parse"
    /\ IF index <= Len(mbi.map)
       THEN /\ index' = index + 1
            /\ bits' = IF mbi.map[index].available
                       THEN InitRegion(bits, addr32, len32)
                       ELSE bits
            /\ UNCHANGED step
       ELSE /\ step' = "modules"
            /\ index' = 1
            /\ bits' = PreserveKernel(bits)
    /\ UNCHANGED <<mbi, word_count, reserved, held>>

\* preserve_modules, one module; behind the last one pmm_init is done.  A list
\* of modules without its flag stops the machine.
PreserveModules ==
    /\ step = "modules"
    /\ IF mbi.mods # <<>> /\ "MODS" \notin mbi.flags
       THEN step' = "panic" /\ UNCHANGED <<index, bits, reserved>>
       ELSE IF index <= Len(mbi.mods)
       THEN /\ index' = index + 1
            /\ LET mod == mbi.mods[index] IN
               bits' = DeinitRegion(bits, mod.start, mod.end - mod.start - 1)
            /\ UNCHANGED <<step, reserved>>
       ELSE /\ step' = "ready"
            /\ reserved' = bits
            /\ UNCHANGED <<index, bits>>
    /\ UNCHANGED <<mbi, word_count, held>>

\* Mutant: the answer for a full bitmap is taken for a frame.
PageAllocUnchecked ==
    /\ step = "ready"
    /\ bits' = bits \cup {FirstFree(bits)}
    /\ held' = held \cup {FirstFree(bits)}
    /\ UNCHANGED <<step, mbi, index, word_count, reserved>>

\* page_alloc; NULL, and no change, when the bitmap is full.
PageAlloc ==
    /\ step = "ready"
    /\ FirstFree(bits) # NONE
    /\ bits' = bits \cup {FirstFree(bits)}
    /\ held' = held \cup {FirstFree(bits)}
    /\ UNCHANGED <<step, mbi, index, word_count, reserved>>

\* page_free, of a frame that page_alloc returned (liballoc_free).
PageFree(f) ==
    /\ step = "ready"
    /\ f \in held
    /\ bits' = bits \ {f}
    /\ held' = held \ {f}
    /\ UNCHANGED <<step, mbi, index, word_count, reserved>>

Next ==
    \/ Kinit \/ PmmInit
    \/ PagingInitBitmap \/ ParseMemoryMap \/ PreserveModules
    \/ PageAlloc
    \/ \E f \in held : PageFree(f)

Spec == Init /\ [][Next]_vars

-----------------------------------------------------------------------------
(* Properties.                                                             *)

\* The frames that hold a byte of [start, end).
Touched(r) == {f \in 0 .. (ArrayBits - 1) :
                  f * PageSize < r.end /\ r.start < (f + 1) * PageSize}

\* page_alloc never returns frame 0, a frame of the kernel image or a frame
\* of a boot module, wherever in their pages these begin and end.
ReservedNeverAllocated ==
    held \cap ({0} \cup Touched(Kernel) \cup
               UNION {Touched(mbi.mods[i]) : i \in 1 .. Len(mbi.mods)}) = {}

\* No frame has two owners and none is lost: after any sequence of
\* allocations and releases the bitmap is what pmm_init left plus the frames
\* that are held, and what page_alloc handed out is a frame of the bitmap,
\* never the "full" of bitmap_first_free.
FramesConserved ==
    step = "ready" => /\ bits = reserved \cup held
                      /\ reserved \cap held = {}
                      /\ held \subseteq 0 .. (word_count * BitsPerWord - 1)

\* bitmap_first_free, which skips full words, finds the lowest clear bit of
\* all the words, and reports a full bitmap only when there is none.
FirstFreeIsLowest ==
    LET clear == (0 .. (word_count * BitsPerWord - 1)) \ bits
    IN  FirstFree(bits) = IF clear = {} THEN NONE ELSE Min(clear)

\* pmm.c: Only consider the region if it's marked as available.  A frame that
\* the memory map made allocatable lies in an available region.
OnlyAvailableFreed ==
    step = "modules" =>
        \A f \in (0 .. (ArrayWords * BitsPerByte - 1)) \ bits :
            \E i \in 1 .. Len(mbi.map) :
                /\ mbi.map[i].available
                /\ f \in Touched([start |-> mbi.map[i].addr,
                                  end |-> mbi.map[i].addr + mbi.map[i].len])

=============================================================================
