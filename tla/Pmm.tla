-------------------------------- MODULE Pmm ---------------------------------
(***************************************************************************)
(* The physical memory manager, kernel/mm/pmm.c.                           *)
(*                                                                         *)
(* The bitmap is the set `free' of the pages whose bit is 0.  pmm_init     *)
(* runs once, at boot, with interrupts off: one step per entry of the      *)
(* Multiboot2 memory map, one for the low memory and one for the kernel    *)
(* image.  After it the allocator serves its clients (kernel stacks, page  *)
(* tables, heap growth, shared memory); held records what they own.        *)
(***************************************************************************)
EXTENDS Integers, Sequences, FiniteSets

CONSTANTS PageSize,    \* 4096
          MaxPages,    \* PMM_MAX_PAGES
          MemMap,      \* memory map: sequence of [base, length, available]
          LowPages,    \* pages of the low 1 MiB: 256
          KernelBase,  \* KERNEL_PHYS_BASE
          KernelSize,  \* 3 MiB
          Requests,    \* page counts the clients ask for
          Reclaims     \* regions <<phys, size>> given to pmm_mark_free

AvailableAt(k) == MemMap[k].available

\* Fault: the length is rounded up to whole pages.
EntryPages_rounded_up(k) ==
    LET start == MemMap[k].base \div PageSize
        count == (MemMap[k].length + PageSize - 1) \div PageSize
    IN  {p \in start .. start + count - 1 : p < MaxPages}

\* The pages of entry k that the loop over an available entry clears: base
\* and length are both rounded down, and the bitmap ends at MaxPages.
EntryPages(k) ==
    LET start == MemMap[k].base \div PageSize
        count == MemMap[k].length \div PageSize
    IN  {p \in start .. start + count - 1 : p < MaxPages}

ASSUME PmmAssumption ==
    /\ PageSize \in Nat \ {0}
    /\ MaxPages \in Nat
    /\ LowPages \in Nat
    /\ KernelBase \in Nat /\ KernelSize \in Nat
    /\ Requests \subseteq Nat
    /\ Reclaims \subseteq Nat \X Nat
    /\ MemMap \in Seq([base : Nat, length : Nat, available : BOOLEAN])

\* Multiboot2 hands over a memory map whose available entries are disjoint.
ASSUME MapAssumption ==
    \A j, k \in 1 .. Len(MemMap) :
        j # k /\ AvailableAt(j) /\ AvailableAt(k)
           => EntryPages(j) \cap EntryPages(k) = {}

VARIABLES phase,       \* "map", "low", "kernel" (pmm_init), then "run"
          entry,       \* index of the next entry of the memory map
          free,        \* pages whose bit in pmm_bitmap is 0
          freePages,   \* pmm_free_phys_pages
          totalPages,  \* pmm_total_phys_pages
          hint,        \* pmm_last_free_hint
          held,        \* extents <<first page, count>> owned by clients
          panicked     \* kernel_panic was reached

vars == <<phase, entry, free, freePages, totalPages, hint, held, panicked>>

AllPages == 0 .. MaxPages - 1

\* bitmap_test over the pages first .. first + count - 1 inside the bitmap.
Extent(first, count) == {p \in AllPages : first <= p /\ p < first + count}

Least(S) == CHOOSE x \in S : \A y \in S : x <= y

\* BSS and the memset to 0xFF: every page used, both counters 0, hint 0.
Init ==
    /\ phase = "map"
    /\ entry = 1
    /\ free = {}
    /\ freePages = 0
    /\ totalPages = 0
    /\ hint = 0
    /\ held = {}
    /\ panicked = FALSE

-----------------------------------------------------------------------------
(***************************************************************************)
(* pmm_init.                                                               *)
(***************************************************************************)

\* mb2_info_phys == 0: return at once, nothing is free.
init_no_multiboot ==
    /\ phase = "map" /\ entry = 1
    /\ phase' = "run"
    /\ UNCHANGED <<entry, free, freePages, totalPages, hint, held, panicked>>

\* One turn of the loop over the entries of the memory map.
init_entry ==
    /\ phase = "map" /\ entry <= Len(MemMap)
    /\ entry' = entry + 1
    /\ \/ /\ AvailableAt(entry)
          /\ free' = free \cup EntryPages(entry)
          /\ freePages' = freePages + Cardinality(EntryPages(entry))
          /\ totalPages' = totalPages + Cardinality(EntryPages(entry))
       \/ /\ ~AvailableAt(entry)
          /\ totalPages' = totalPages + MemMap[entry].length \div PageSize
          /\ UNCHANGED <<free, freePages>>
    /\ UNCHANGED <<phase, hint, held, panicked>>

\* Take the pages of S that are free out of the bitmap and the counter.
reserve(S) ==
    /\ free' = free \ S
    /\ freePages' = freePages - Cardinality(free \cap S)
    /\ UNCHANGED <<entry, totalPages, hint, held, panicked>>

\* Fault: the loop stops before the last page of low memory.
init_low_short ==
    /\ phase = "map" /\ entry > Len(MemMap)
    /\ phase' = "low"
    /\ reserve(Extent(0, LowPages - 1))

\* "Mark low 1 MiB as reserved".
init_low ==
    /\ phase = "map" /\ entry > Len(MemMap)
    /\ phase' = "low"
    /\ reserve(Extent(0, LowPages))

\* pmm_mark_used, whose counter stops at 0.
RoundUp(size) == (size + PageSize - 1) \div PageSize
UsedRegion(phys, size) == Extent(phys \div PageSize, RoundUp(size))

mark_used(phys, size) ==
    LET taken == free \cap UsedRegion(phys, size)
    IN  /\ free' = free \ taken
        /\ freePages' = IF freePages > Cardinality(taken)
                        THEN freePages - Cardinality(taken) ELSE 0
        /\ UNCHANGED <<entry, totalPages, hint, held, panicked>>

\* "Mark the kernel itself as reserved".
init_kernel ==
    /\ phase = "low"
    /\ phase' = "run"
    /\ mark_used(KernelBase, KernelSize)

-----------------------------------------------------------------------------
(***************************************************************************)
(* The allocator.                                                          *)
(***************************************************************************)

panic ==
    /\ panicked' = TRUE
    /\ UNCHANGED <<phase, entry, free, freePages, totalPages, hint, held>>

\* Hand out the pages first .. first + count - 1.
grant(first, count) ==
    /\ free' = free \ Extent(first, count)
    /\ freePages' = freePages - count
    /\ held' = held \cup {<<first, count>>}
    /\ UNCHANGED <<phase, entry, totalPages, panicked>>

\* Fault: the second scan, from 0 up to the hint, is missing.
alloc_page_no_wrap ==
    LET above == {p \in free : p >= hint}
    IN  IF above = {} THEN panic
        ELSE grant(Least(above), 1) /\ hint' = Least(above) + 1

\* pmm_alloc_page: from the hint to the end, then from 0 up to the hint.
alloc_page ==
    LET above == {p \in free : p >= hint}
        below == {p \in free : p < hint}
        page  == IF above # {} THEN Least(above) ELSE Least(below)
    IN  IF above \cup below = {} THEN panic
        ELSE grant(page, 1) /\ hint' = page + 1

\* Fault: the run is taken one page too early.
Runs_short(count) == {first \in AllPages :
                         \A p \in first .. first + count - 2 : p \in free}

\* pmm_alloc_pages(count), count > 1: the first run of free pages that is
\* long enough.  The hint is neither used nor moved.
Runs(count) == {first \in AllPages :
                   \A p \in first .. first + count - 1 : p \in free}

alloc_run(count) ==
    IF Runs(count) = {} THEN panic
    ELSE grant(Least(Runs(count)), count) /\ UNCHANGED hint

pmm_alloc_pages(count) ==
    /\ phase = "run"
    /\ \/ count = 1 /\ alloc_page
       \/ count > 1 /\ alloc_run(count)

\* Fault: a page that is free already is counted again.
release_unchecked(first, count) ==
    /\ free' = free \cup Extent(first, count)
    /\ freePages' = freePages + Cardinality(Extent(first, count))
    /\ hint' = Least({hint} \cup Extent(first, count))
    /\ UNCHANGED <<phase, entry, totalPages, panicked>>

\* Fault: the hint stays where it is.
release_keeps_hint(first, count) ==
    LET freed == Extent(first, count) \ free
    IN  /\ free' = free \cup freed
        /\ freePages' = freePages + Cardinality(freed)
        /\ UNCHANGED <<phase, entry, totalPages, hint, panicked>>

\* pmm_free_pages: pmm_free_page on each page, which skips a page that is out
\* of range or already free and pulls the hint down.
release(first, count) ==
    LET freed == Extent(first, count) \ free
    IN  /\ free' = free \cup freed
        /\ freePages' = freePages + Cardinality(freed)
        /\ hint' = Least({hint} \cup freed)
        /\ UNCHANGED <<phase, entry, totalPages, panicked>>

\* A client gives back an extent it owns ...
pmm_free_pages(e) ==
    /\ phase = "run"
    /\ held' = held \ {e}
    /\ release(e[1], e[2])

HeldPages == UNION {Extent(e[1], e[2]) : e \in held}

\* ... or frees once more, by mistake, pages it once had: each is free still,
\* or again, or belongs to someone else by now, who is left with the rest.
free_stale(first, count) ==
    LET robbed == {e \in held : Extent(e[1], e[2]) \cap Extent(first, count) # {}}
    IN  /\ phase = "run"
        /\ Extent(first, count) \subseteq free \cup HeldPages
        /\ held' = (held \ robbed) \cup
                     {<<p, 1>> : p \in (UNION {Extent(e[1], e[2]) : e \in robbed})
                                         \ Extent(first, count)}
        /\ release(first, count)

\* pmm_mark_free on a region no client owns: size is rounded down and the
\* hint stays where it is.
pmm_mark_free(phys, size) ==
    LET freed == Extent(phys \div PageSize, size \div PageSize) \ free
    IN  /\ phase = "run"
        /\ freed \cap HeldPages = {}
        /\ free' = free \cup freed
        /\ freePages' = freePages + Cardinality(freed)
        /\ UNCHANGED <<phase, entry, totalPages, hint, held, panicked>>

Next ==
    /\ ~panicked
    /\ \/ init_no_multiboot
       \/ init_entry
       \/ init_low
       \/ init_kernel
       \/ \E n \in Requests : pmm_alloc_pages(n)
       \/ \E e \in held : pmm_free_pages(e)
       \/ \E first \in AllPages, n \in Requests : free_stale(first, n)
       \/ \E r \in Reclaims : pmm_mark_free(r[1], r[2])

Spec == Init /\ [][Next]_vars

-----------------------------------------------------------------------------
(***************************************************************************)
(* Properties.                                                             *)
(***************************************************************************)

\* Every variable keeps its type; no counter goes below zero.
TypeOK ==
    /\ phase \in {"map", "low", "run"}
    /\ entry \in 1 .. Len(MemMap) + 1
    /\ free \subseteq AllPages
    /\ freePages \in Nat
    /\ totalPages \in Nat
    /\ hint \in 0 .. MaxPages
    /\ held \subseteq AllPages \X Nat
    /\ panicked \in BOOLEAN

\* pmm_free_phys_pages, which five functions update one by one, is the number
\* of zero bits of the bitmap; so pmm_get_stats reports the truth.
CountExact == freePages = Cardinality(free)

\* No page has two owners, and no page an owner holds can be handed out
\* again, whatever is allocated and freed in runs, singly or in parts: only
\* who frees pages that are no longer his takes them from their owner.
HeldSafe ==
    /\ \A e \in held : Extent(e[1], e[2]) \cap free = {}
    /\ \A d, e \in held : d # e => Extent(d[1], d[2]) \cap Extent(e[1], e[2]) = {}

\* The pages pmm_mark_free may be called for, and those pmm_init reserves.
Reclaimable == UNION {Extent(r[1] \div PageSize, r[2] \div PageSize) : r \in Reclaims}
Reserved == Extent(0, LowPages) \cup UsedRegion(KernelBase, KernelSize)

\* What pmm_init reserves stays reserved: the low memory and the kernel image
\* are in no extent a client is given, unless pmm_mark_free returned them.
ReservedNeverHeld == HeldPages \cap Reserved \subseteq Reclaimable

\* The last byte of a page lies in the k-th entry, an available one.
EndsIn(p, k) ==
    /\ AvailableAt(k)
    /\ MemMap[k].base < (p + 1) * PageSize
    /\ (p + 1) * PageSize <= MemMap[k].base + MemMap[k].length

\* For any map, its entries cut by division where they begin and end: a page
\* on the bitmap's free side ends in memory the map calls available, unless
\* pmm_mark_free returned it.  None lies in a hole or behind an entry's end; the
\* page in which an entry begins is freed whole, what lies before it included.
FreeEndsInRam ==
    \A p \in free \ Reclaimable : \E k \in 1 .. Len(MemMap) : EndsIn(p, k)

\* "free-page hint": no free page lies below the hint, so that the scan from
\* the hint finds the lowest free page; only a page pmm_mark_free has freed,
\* which leaves the hint alone, may lie there.
HintIsLowerBound == \A p \in free \ Reclaimable : hint <= p

\* The kernel panics for want of memory only when no run of the requested
\* length is free: neither the hint nor fragmentation of the scan hides one.
PanicOnlyWhenOut ==
    [][panicked' /\ ~panicked
          => \A n \in Requests \ {0} : pmm_alloc_pages(n)
                => \A first \in AllPages : ~(first .. first + n - 1 \subseteq free)]_vars

=============================================================================
