------------------------------- MODULE KHeap --------------------------------
(***************************************************************************)
(* The kernel heap, kernel/mm/kheap.c: a first-fit list of blocks, each a  *)
(* header, a payload and a footer, grown by page runs taken from the PMM.  *)
(*                                                                         *)
(* blocks is the list from heap_head along next; addr is the address of    *)
(* the header.  Sizes and addresses are bytes.  The PMM is represented by  *)
(* what pmm_alloc_pages does while nothing is freed: each request gets the *)
(* pages that follow the last run handed out, to the heap or to another    *)
(* client (Pmm has the allocator itself).                                  *)
(***************************************************************************)
EXTENDS Integers, Sequences, FiniteSets, FiniteSetsExt, SequencesExt

CONSTANTS PageSize,     \* 4096
          HeapMin,      \* HEAP_MIN_SIZE: 16 pages
          HeapSize,     \* second argument of kheap_init
          Sizes,        \* arguments of kmalloc and krealloc
          OtherClients, \* page counts other clients of the PMM ask for
          MaxPages      \* bound: pages the PMM hands out

HeaderSize == 40                 \* sizeof(alloc_header_t)
FooterSize == 16                 \* sizeof(alloc_footer_t)
Overhead == HeaderSize + FooterSize
FirstPage == 1                   \* page 0 is reserved by pmm_init

ASSUME KHeapAssumption ==
    /\ PageSize \in Nat /\ PageSize > Overhead
    /\ HeapMin \in Nat \ {0} /\ HeapSize \in Nat /\ HeapMin <= HeapSize
    /\ Sizes \subseteq Nat \ {0}
    /\ OtherClients \subseteq Nat \ {0}
    /\ MaxPages \in Nat

VARIABLES blocks,      \* sequence of [addr, size, free]
          heapEnd,     \* heap_end - heap_base: bytes the heap has grown to
          pmmNext,     \* first page the PMM has not handed out
          heapRuns,    \* runs <<first page, pages>> that heap_expand took
          live         \* allocations clients hold: [ptr, size]

vars == <<blocks, heapEnd, pmmNext, heapRuns, live>>

AlignUp(n, a) == ((n + a - 1) \div a) * a
PagesFor(bytes) == AlignUp(bytes, PageSize) \div PageSize

Block(addr, size, free) == [addr |-> addr, size |-> size, free |-> free]

\* The new block heap_expand appends for a run of pages.
RunBlock(first, pages) ==
    Block(first * PageSize, pages * PageSize - Overhead, TRUE)

\* kheap_init: MIN(HEAP_MIN_SIZE, size) bytes.
Init ==
    LET pages == PagesFor(HeapMin)
    IN  /\ blocks = <<RunBlock(FirstPage, pages)>>
        /\ heapEnd = pages * PageSize
        /\ pmmNext = FirstPage + pages
        /\ heapRuns = {<<FirstPage, pages>>}
        /\ live = {}

-----------------------------------------------------------------------------

\* Fault: the free flag is not looked at.
Fits_used(b, size) == b.size >= size + Overhead

\* First fit: the block must hold the size and one more header and footer.
Fits(b, size) == b.free /\ b.size >= size + Overhead
HasFit(bs, size) == \E i \in DOMAIN bs : Fits(bs[i], size)
FirstFit(bs, size) ==
    CHOOSE i \in DOMAIN bs :
        Fits(bs[i], size) /\ \A j \in 1 .. i - 1 : ~Fits(bs[j], size)

\* The list after block i has been given to a request: split when at least 32
\* bytes of payload remain for the rest, else handed out whole.
Place(bs, i, size) ==
    LET b    == bs[i]
        rest == Block(b.addr + Overhead + size, b.size - size - Overhead, TRUE)
    IN  IF b.size >= size + Overhead + 32
        THEN InsertAt(ReplaceAt(bs, i, Block(b.addr, size, FALSE)), i + 1, rest)
        ELSE ReplaceAt(bs, i, Block(b.addr, b.size, FALSE))

\* Fault: the header and footer that disappear are not added to the payload.
Absorb_short(bs, i) ==
    RemoveAt(ReplaceAt(bs, i, Block(bs[i].addr, bs[i].size + bs[i + 1].size,
                                    bs[i].free)), i + 1)

\* kfree: mark free, absorb the next block of the list if it is free, then be
\* absorbed by the previous one if that is free.
Absorb(bs, i) ==
    RemoveAt(ReplaceAt(bs, i, Block(bs[i].addr,
                                    bs[i].size + Overhead + bs[i + 1].size,
                                    bs[i].free)), i + 1)
\* Fault: only the next block is absorbed.
Free_forward_only(bs, i) ==
    LET freed == ReplaceAt(bs, i, Block(bs[i].addr, bs[i].size, TRUE))
    IN  IF i < Len(freed) /\ freed[i + 1].free THEN Absorb(freed, i) ELSE freed

Free(bs, i) ==
    LET freed  == ReplaceAt(bs, i, Block(bs[i].addr, bs[i].size, TRUE))
        joined == IF i < Len(freed) /\ freed[i + 1].free
                  THEN Absorb(freed, i) ELSE freed
    IN  IF i > 1 /\ joined[i - 1].free THEN Absorb(joined, i - 1) ELSE joined

BlockAt(bs, ptr) == CHOOSE i \in DOMAIN bs : bs[i].addr + HeaderSize = ptr

\* kmalloc, and kcalloc which only clears the payload.  grow is the run that
\* heap_expand asks for when nothing fits; the PMM call precedes the check
\* against heap_max, so pages are taken even when the heap may not grow.
Grow(size) == PagesFor(size + Overhead + PageSize)
MayGrow(pages) == heapEnd + pages * PageSize <= HeapSize

\* The list in which the request is finally placed.
Searched(size) ==
    IF HasFit(blocks, size) THEN blocks
    ELSE Append(blocks, RunBlock(pmmNext, Grow(size)))

Allocate(size) ==
    IF HasFit(blocks, size)
    THEN UNCHANGED <<heapEnd, pmmNext, heapRuns>>
    ELSE /\ heapEnd' = heapEnd + Grow(size) * PageSize
         /\ pmmNext' = pmmNext + Grow(size)
         /\ heapRuns' = heapRuns \cup {<<pmmNext, Grow(size)>>}

Pointer(bs, size) == bs[FirstFit(bs, size)].addr + HeaderSize

kmalloc(n) ==
    LET size == AlignUp(n, 16)
        bs   == Searched(size)
    IN  /\ HasFit(blocks, size) \/ MayGrow(Grow(size))
        /\ blocks' = Place(bs, FirstFit(bs, size), size)
        /\ live' = live \cup {[ptr |-> Pointer(bs, size), size |-> n]}
        /\ Allocate(size)

\* heap_expand refuses, kmalloc and krealloc return NULL.
kmalloc_fails(n) ==
    LET size == AlignUp(n, 16)
    IN  /\ ~HasFit(blocks, size) /\ ~MayGrow(Grow(size))
        /\ pmmNext' = pmmNext + Grow(size)
        /\ UNCHANGED <<blocks, heapEnd, heapRuns, live>>

kfree(a) ==
    /\ blocks' = Free(blocks, BlockAt(blocks, a.ptr))
    /\ live' = live \ {a}
    /\ UNCHANGED <<heapEnd, pmmNext, heapRuns>>

\* krealloc to a size that the block does not hold: allocate, copy, free.
krealloc(a, n) ==
    LET size == AlignUp(n, 16)
        bs   == Searched(size)
        new  == Place(bs, FirstFit(bs, size), size)
    IN  /\ blocks[BlockAt(blocks, a.ptr)].size < n
        /\ HasFit(blocks, size) \/ MayGrow(Grow(size))
        /\ blocks' = Free(new, BlockAt(new, a.ptr))
        /\ live' = (live \ {a}) \cup {[ptr |-> Pointer(bs, size), size |-> n]}
        /\ Allocate(size)

\* ... or to one that it does: the same pointer, nothing moves.
krealloc_in_place(a, n) ==
    /\ blocks[BlockAt(blocks, a.ptr)].size >= n
    /\ live' = (live \ {a}) \cup {[ptr |-> a.ptr, size |-> n]}
    /\ UNCHANGED <<blocks, heapEnd, pmmNext, heapRuns>>

\* Another client of the PMM takes pages (external to the heap) and keeps them:
\* pages go back only through shm_destroy (ipc.c) and vmm_destroy_address_space
\* (vmm.c), which nothing in the kernel calls.
other_client(pages) ==
    /\ pmmNext' = pmmNext + pages
    /\ UNCHANGED <<blocks, heapEnd, heapRuns, live>>

Next ==
    /\ pmmNext <= MaxPages
    /\ \/ \E n \in Sizes : kmalloc(n)
       \/ \E n \in Sizes : kmalloc_fails(n)
       \/ \E a \in live : kfree(a)
       \/ \E a \in live, n \in Sizes : krealloc(a, n)
       \/ \E a \in live, n \in Sizes : krealloc_in_place(a, n)
       \/ \E pages \in OtherClients : other_client(pages)

Spec == Init /\ [][Next]_vars

-----------------------------------------------------------------------------
(***************************************************************************)
(* Properties.                                                             *)
(***************************************************************************)

EndOf(b) == b.addr + Overhead + b.size

\* The PMM happens to have given the heap one contiguous extent so far.
HeapContiguous ==
    \A r \in heapRuns : r[1] + r[2] <= FirstPage + heapEnd \div PageSize

\* The blocks tile the heap as long as its runs touch: in list order each
\* begins where the one before it ends, and together they cover exactly what
\* heap_end accounts for, so no sequence of splits, merges and failed growths
\* loses, overlaps or invents a byte.
BlocksTile == HeapContiguous =>
    /\ blocks[1].addr = FirstPage * PageSize
    /\ \A i \in 1 .. Len(blocks) - 1 : EndOf(blocks[i]) = blocks[i + 1].addr
    /\ EndOf(Last(blocks)) = FirstPage * PageSize + heapEnd

\* Every pointer a client holds is the payload of one used block at least as
\* large as was asked for, and every used block has exactly one owner.
LiveMatchesUsed ==
    /\ \A a \in live : \E i \in DOMAIN blocks :
          /\ blocks[i].addr + HeaderSize = a.ptr
          /\ ~blocks[i].free /\ blocks[i].size >= a.size
    /\ Cardinality({i \in DOMAIN blocks : ~blocks[i].free}) = Cardinality(live)

\* "Coalesces adjacent free blocks": two neighbours that are both free meet
\* where heap_expand appended a new run, and nowhere else.
FreeNeighboursOnlyAtRuns ==
    \A i \in 1 .. Len(blocks) - 1 :
        blocks[i].free /\ blocks[i + 1].free
           => \E r \in heapRuns : blocks[i + 1].addr = r[1] * PageSize

\* "Coalesces adjacent free blocks": blocks stay inside pages that belong to
\* the heap, whatever the PMM gave to others between two expansions.
BlocksInHeapPages ==
    \A i \in DOMAIN blocks :
        \A page \in blocks[i].addr \div PageSize
                       .. (EndOf(blocks[i]) - 1) \div PageSize :
            \E r \in heapRuns : r[1] <= page /\ page < r[1] + r[2]

=============================================================================
