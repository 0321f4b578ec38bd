------------------------------ MODULE Liballoc ------------------------------
(***************************************************************************)
(* The kernel's allocator (kmalloc, kfree, krealloc).  Memory comes from   *)
(* liballoc_alloc in chunks of pages, the majors; a major holds a list of  *)
(* allocations, the minors, in address order.  A list of the code is the   *)
(* sequence of its nodes.  liballoc_lock turns interrupts off, so a call   *)
(* is one step; krealloc unlocks between its two halves and is two.        *)
(***************************************************************************)
EXTENDS Integers, SequencesExt, FiniteSetsExt

CONSTANTS
    MAJOR,         \* sizeof(struct liballoc_major), 24
    MINOR,         \* sizeof(struct liballoc_minor), 24
    ALIGNMENT,     \* 16
    ALIGN_INFO,    \* 16
    PageSize,      \* l_pageSize
    PageCount,     \* l_pageCount, the least number of pages of a major
    HeapPages,     \* KHEAP_MAX_SIZE: bound on the pages ever requested
    Requests,      \* the sizes asked for
    MaxMoving      \* bound on krealloc calls under way at the same time

NULL == -1

ASSUME SizesAssumption ==
    /\ {MAJOR, MINOR, ALIGNMENT, ALIGN_INFO, PageSize, PageCount} \subseteq Nat \ {0}
    /\ Requests \subseteq Nat \ {0}

VARIABLES
    majors,      \* the list at l_memRoot: base address, pages, usage, minors
    bestBet,     \* l_bestBet: the base of a major, or NULL
    allocated,   \* l_allocated
    inuse,       \* l_inuse
    heap,        \* pages liballoc_alloc has handed out since boot
    moving       \* krealloc calls between their halves: [old, new] pointers

vars == <<majors, bestBet, allocated, inuse, heap, moving>>

CeilDiv(a, b) == (a + b - 1) \div b

Size(maj) == maj.pages * PageSize

FreeBytes(maj) == Size(maj) - maj.usage

\* The space malloc reserves so that ALIGN can move the pointer up.
Padded(req) == req + ALIGNMENT + ALIGN_INFO

\* ALIGN: the pointer malloc returns for a minor.
AlignedPtr(min) == CeilDiv(min.at + MINOR + ALIGN_INFO, ALIGNMENT) * ALIGNMENT

Pointers(maj) == {AlignedPtr(maj.minors[j]) : j \in DOMAIN maj.minors}

Live == UNION {Pointers(majors[i]) : i \in DOMAIN majors}

\* The free space behind the first j minors of a major.
GapStart(maj, j) ==
    IF j = 0 THEN maj.base + MAJOR
    ELSE maj.minors[j].at + MINOR + maj.minors[j].size

GapEnd(maj, j) ==
    IF j = Len(maj.minors) THEN maj.base + Size(maj) ELSE maj.minors[j + 1].at

\* Mutant: the header of the new minor is left out of the comparison.
PlacesBare(maj, need) ==
    {j \in 0 .. Len(maj.minors) :
        GapEnd(maj, j) - GapStart(maj, j) >= need - MINOR}

\* The places malloc's cases 3, 4.1 and 4.2 find in a major.
Places(maj, need) ==
    {j \in 0 .. Len(maj.minors) : GapEnd(maj, j) - GapStart(maj, j) >= need}

\* Mutant: the header of the new minor is not counted.
InsertedUncounted(maj, j, req) ==
    [maj EXCEPT !.usage = @ + Padded(req),
                !.minors = InsertAt(@, j + 1, [at |-> GapStart(maj, j),
                                               size |-> Padded(req),
                                               req |-> req])]

\* A new minor behind the first j ones.
Inserted(maj, j, req) ==
    [maj EXCEPT !.usage = @ + Padded(req) + MINOR,
                !.minors = InsertAt(@, j + 1, [at |-> GapStart(maj, j),
                                               size |-> Padded(req),
                                               req |-> req])]

\* allocate_new_page: the pages of a major for an allocation of size.
NewPages(size) == Max({CeilDiv(size + MAJOR + MINOR, PageSize), PageCount})

NewMajor(size) == [base   |-> heap * PageSize,
                   pages  |-> NewPages(size),
                   usage  |-> MAJOR,
                   minors |-> <<>>]

IndexOf(base) == CHOOSE i \in DOMAIN majors : majors[i].base = base

-----------------------------------------------------------------------------
Init ==
    /\ majors = <<>>
    /\ bestBet = NULL
    /\ allocated = 0
    /\ inuse = 0
    /\ heap = 0
    /\ moving = {}

\* The majors malloc's loop looks at, in order: from the best bet if that has
\* room to spare, else from the root; from the root again behind the last one
\* if it started at the best bet.
SearchPath(need) ==
    LET all == [i \in DOMAIN majors |-> i]
        bet == IF bestBet = NULL THEN 0 ELSE IndexOf(bestBet)
    IN  IF bet # 0 /\ FreeBytes(majors[bet]) > need
        THEN SubSeq(all, bet, Len(all)) \o all
        ELSE all

\* The best bet after the majors in seen were looked at: the first of those
\* with the most room, if it has more than the best bet before.
BetAfter(seen) ==
    LET room == IF bestBet = NULL THEN 0 ELSE FreeBytes(majors[IndexOf(bestBet)])
        better == {k \in DOMAIN seen :
                     /\ FreeBytes(seen[k]) > room
                     /\ \A l \in DOMAIN seen : FreeBytes(seen[l]) <= FreeBytes(seen[k])}
    IN  IF better = {} THEN bestBet ELSE seen[Min(better)].base

\* malloc finds room in a major: the first place in the first such major.
MallocInside(req) ==
    LET need == Padded(req) + MINOR
        path == SearchPath(need)
        hits == {k \in DOMAIN path : Places(majors[path[k]], need) # {}}
    IN
    /\ hits # {}
    /\ LET i == path[Min(hits)] IN
       majors' = [majors EXCEPT ![i] = Inserted(@, Min(Places(@, need)), req)]
    /\ bestBet' = BetAfter([k \in 1 .. Min(hits) |-> majors[path[k]]])
    /\ inuse' = inuse + Padded(req)
    /\ UNCHANGED <<allocated, heap>>

\* malloc finds none and appends a major.  The new major is looked at as a
\* best bet only when the loop comes round to it: as the first one of all, or
\* behind a last major whose free bytes are enough but scattered (case 5).
MallocNewMajor(req) ==
    LET need == Padded(req) + MINOR
        path == SearchPath(need)
        new  == NewMajor(Padded(req))
        seen == [k \in DOMAIN path |-> majors[path[k]]]
        looped == majors = <<>> \/ FreeBytes(Last(majors)) >= need
    IN
    /\ \A k \in DOMAIN path : Places(majors[path[k]], need) = {}
    /\ heap + new.pages <= HeapPages
    /\ heap' = heap + new.pages
    /\ majors' = Append(majors, Inserted(new, 0, req))
    /\ allocated' = allocated + Size(new)
    /\ inuse' = inuse + Padded(req)
    /\ bestBet' = BetAfter(IF looped THEN Append(seen, new) ELSE seen)

\* The machine panics when the heap is used up: the guard of MallocNewMajor.
Malloc(req) == (MallocInside(req) \/ MallocNewMajor(req)) /\ UNCHANGED moving

\* Mutant: the best bet is not forgotten with its major.
BetAfterFreeKeeps(i, maj) == bestBet

\* The best bet when a minor of majors[i] is freed, which leaves maj of it.
BetAfterFree(i, maj) ==
    IF maj.minors = <<>>
    THEN IF bestBet = maj.base THEN NULL ELSE bestBet
    ELSE IF bestBet # NULL /\ FreeBytes(maj) >
              (IF bestBet = maj.base THEN FreeBytes(maj)
               ELSE FreeBytes(majors[IndexOf(bestBet)]))
         THEN maj.base ELSE bestBet

\* free: the minor leaves its list; a major without minors is given back.
Free(p) ==
    \E i \in DOMAIN majors : \E j \in DOMAIN majors[i].minors :
        LET min == majors[i].minors[j]
            maj == [majors[i] EXCEPT !.usage = @ - (min.size + MINOR),
                                     !.minors = RemoveAt(@, j)]
        IN
        /\ AlignedPtr(min) = p
        /\ inuse' = inuse - min.size
        /\ bestBet' = BetAfterFree(i, maj)
        /\ IF maj.minors = <<>>
           THEN /\ majors' = RemoveAt(majors, i)
                /\ allocated' = allocated - Size(maj)
           ELSE /\ majors' = [majors EXCEPT ![i] = maj]
                /\ UNCHANGED allocated
        /\ UNCHANGED heap

Moving == {m.old : m \in moving} \cup {m.new : m \in moving}

\* kfree, and krealloc to size 0, of a pointer that its owner may still use.
Kfree(p) == p \in Live \ Moving /\ Free(p) /\ UNCHANGED moving

\* krealloc to a size that was asked for before: only req_size changes.
ReallocInPlace(p, req) ==
    /\ p \in Live \ Moving
    /\ \E i \in DOMAIN majors : \E j \in DOMAIN majors[i].minors :
          /\ AlignedPtr(majors[i].minors[j]) = p
          /\ majors[i].minors[j].req > req
          /\ majors' = [majors EXCEPT ![i].minors[j].req = req]
    /\ UNCHANGED <<bestBet, allocated, inuse, heap, moving>>

\* krealloc to more than req_size: a new block is allocated first ...
ReallocGrow(p, req) ==
    /\ Cardinality(moving) < MaxMoving
    /\ p \in Live \ Moving
    /\ \E i \in DOMAIN majors : \E j \in DOMAIN majors[i].minors :
          AlignedPtr(majors[i].minors[j]) = p /\ majors[i].minors[j].req < req
    /\ MallocInside(req) \/ MallocNewMajor(req)
    /\ \E new \in Live' \ Live : moving' = moving \cup {[old |-> p, new |-> new]}

\* ... then the contents are copied and the old one is freed.
ReallocFinish(m) ==
    /\ m \in moving
    /\ Free(m.old)
    /\ moving' = moving \ {m}

Next ==
    \/ \E req \in Requests : Malloc(req)
    \/ \E p \in Live : Kfree(p)
    \/ \E p \in Live, req \in Requests : ReallocInPlace(p, req) \/ ReallocGrow(p, req)
    \/ \E m \in moving : ReallocFinish(m)

Spec == Init /\ [][Next]_vars

-----------------------------------------------------------------------------
(* Properties.                                                             *)

\* What malloc returned is the caller's alone: in every major the header, the
\* minor headers and the bytes asked for follow one another without overlap
\* and end inside the major, and the byte in which ALIGN keeps the distance
\* to the header lies between the header and the pointer.
BlocksDisjoint ==
    \A i \in DOMAIN majors : \A j \in DOMAIN majors[i].minors :
        LET maj == majors[i]
            min == maj.minors[j]
            p   == AlignedPtr(min)
        IN  /\ min.at >= GapStart(maj, j - 1)
            /\ p - ALIGN_INFO >= min.at + MINOR
            /\ p % ALIGNMENT = 0
            /\ p + min.req <= GapEnd(maj, j)

Total(s) ==
    LET sum[n \in 0 .. Len(s)] == IF n = 0 THEN 0 ELSE sum[n - 1] + s[n]
    IN  sum[Len(s)]

\* The bytes of the minors of a major, each with extra ones.
Bytes(maj, extra) == Total([j \in DOMAIN maj.minors |-> maj.minors[j].size + extra])

\* The counters of malloc and free agree with the lists: usage of each major,
\* l_allocated and l_inuse.
Accounting ==
    /\ \A i \in DOMAIN majors : majors[i].usage = MAJOR + Bytes(majors[i], MINOR)
    /\ allocated = Total([i \in DOMAIN majors |-> Size(majors[i])])
    /\ inuse = Total([i \in DOMAIN majors |-> Bytes(majors[i], 0)])

\* l_bestBet never points at a major that was given back, and no major
\* without allocations stays behind.
BestBetLive ==
    /\ bestBet # NULL => \E i \in DOMAIN majors : majors[i].base = bestBet
    /\ \A i \in DOMAIN majors : majors[i].minors # <<>>

=============================================================================
