---------------------------- MODULE MemoryProofs ----------------------------
(***************************************************************************)
(* The clients of the page allocator keep out of each other's way, the     *)
(* page tables stay a tree, and the tree implements the translation of     *)
(* AddressMap, for every number of pages, table size, memory map and       *)
(* sequence of calls.                                                      *)
(***************************************************************************)
EXTENDS Memory, PmmProofs

(***************************************************************************)
(* What the allocator does for a client.                                   *)
(***************************************************************************)

\* The kernel image, with the tables boot.asm made in it, is not the
\* allocator's to hand out once pmm_init is over.
KernelKept == phase = "run" => Known \cap UsedRegion(KernelBase, KernelSize) = {}

\* A page that is handed out had no owner, is not in the kernel image, and is
\* the one the client sees.
LEMMA FreshGrant ==
    ASSUME Inv, KernelKept, ~panicked, NEW n \in Nat, pmm_alloc_pages(n), ~panicked'
    PROVE  \E first \in AllPages :
              /\ n # 0 /\ <<first, n>> \notin held
              /\ held' = held \cup {<<first, n>>}
              /\ free' = free \ Extent(first, n)
              /\ first \in Extent(first, n) /\ Extent(first, n) \subseteq free
              /\ first \notin UsedRegion(KernelBase, KernelSize)
              /\ Granted = first
              /\ phase = "run" /\ phase' = "run"
<1>1. PICK first \in AllPages :
         /\ n # 0 /\ grant(first, n)
         /\ \A p \in first .. first + n - 1 : p \in free
  BY AllocGrants DEF panic
<1>2. first \in Extent(first, n) /\ first \in free
  BY <1>1, PmmAssumption DEF Extent, AllPages
<1>3. Extent(first, n) \subseteq free
  BY <1>1, RunExtent DEF Inv, TypeOK
<1>4. <<first, n>> \notin held
  BY <1>2 DEF Inv, HeldSafe
<1>5. Granted = first
  <2>1. \A e \in held' : e \notin held => e = <<first, n>>
    BY <1>1 DEF grant
  <2>2. <<first, n>> \in held' /\ <<first, n>> \notin held
    BY <1>1, <1>4 DEF grant
  <2> DEFINE c == CHOOSE e \in held' : e \notin held
  <2>3. c \in held' /\ c \notin held
    BY <2>2, Zenon
  <2>4. c = <<first, n>> /\ Granted = c[1]
    BY <2>1, <2>3, Zenon DEF Granted
  <2> HIDE DEF c
  <2> QED
    BY <2>4
<1>6. phase = "run" /\ phase' = "run"
  BY <1>1 DEF pmm_alloc_pages, grant
<1>7. first \notin UsedRegion(KernelBase, KernelSize)
  BY <1>2, <1>6 DEF KernelKept, Known
<1> QED
  BY <1>1, <1>2, <1>3, <1>4, <1>5, <1>6, <1>7 DEF grant

\* Giving back an extent that is held keeps the allocator's invariant.
LEMMA GiveBack ==
    ASSUME Inv, NEW a, NEW b, <<a, b>> \in held,
           held' = held \ {<<a, b>>}, release(a, b)
    PROVE  Inv' /\ Known' \subseteq Known /\ phase = "run" /\ phase' = "run"
<1>1. phase = "run" /\ phase' = "run"
  BY DEF Inv, NothingHeldAtBoot, release
<1>2. a \in AllPages /\ b \in Nat
  BY DEF Inv, TypeOK
<1>3. /\ held' \subseteq held /\ held' \subseteq AllPages \X Nat
      /\ \A e \in held' : Extent(e[1], e[2]) \cap Extent(a, b) = {}
      /\ \A e \in held' : Extent(e[1], e[2]) \cap free = {}
      /\ \A d, e \in held' : d # e => Extent(d[1], d[2]) \cap Extent(e[1], e[2]) = {}
  BY DEF Inv, HeldSafe, TypeOK
<1>4. Inv'
  <2>1. \A e \in held' : Extent(e[1], e[2]) \cap (free \cup Extent(a, b)) = {}
    BY <1>3
  <2> QED
    BY <1>1, <1>2, <1>3, <2>1, ReleaseInv
<1>5. Known' \subseteq Known
  BY FreeMoves
<1> QED
  BY <1>1, <1>4, <1>5

-----------------------------------------------------------------------------
(***************************************************************************)
(* The allocator under its clients.                                        *)
(***************************************************************************)

MemInv == Inv /\ KernelKept

\* An allocation by a client, of whatever size.
LEMMA AllocMem ==
    ASSUME MemInv, NEW n \in Nat, pmm_alloc_pages(n)
    PROVE  MemInv'
<1>1. Inv' /\ Known' \subseteq Known /\ phase = "run"
  BY AllocInv, AllocMoves DEF MemInv, pmm_alloc_pages
<1>2. UsedRegion(KernelBase, KernelSize)' = UsedRegion(KernelBase, KernelSize)
  BY DEF UsedRegion, Extent, RoundUp, AllPages
<1> QED
  BY <1>1, <1>2 DEF MemInv, KernelKept

\* A client gives back what it holds.
LEMMA ReleaseMem ==
    ASSUME MemInv, NEW a, NEW b, <<a, b>> \in held,
           held' = held \ {<<a, b>>}, release(a, b)
    PROVE  MemInv'
<1>1. Inv' /\ Known' \subseteq Known /\ phase = "run"
  BY GiveBack DEF MemInv
<1>2. UsedRegion(KernelBase, KernelSize)' = UsedRegion(KernelBase, KernelSize)
  BY DEF UsedRegion, Extent, RoundUp, AllPages
<1> QED
  BY <1>1, <1>2 DEF MemInv, KernelKept

\* Steps that leave the allocator alone, and the panic.
LEMMA IdleMem ==
    ASSUME MemInv, UNCHANGED vars \/ panic
    PROVE  MemInv'
<1>1. Inv'
  BY DEF vars, panic, MemInv, Inv, TypeOK, CountExact, HeldSafe,
         FreeFromPastEntries, NothingHeldAtBoot
<1>2. KernelKept'
  BY DEF vars, panic, MemInv, KernelKept, Known, HeldPages, UsedRegion, RoundUp,
         Extent, AllPages
<1> QED
  BY <1>1, <1>2 DEF MemInv

\* pmm_init takes the kernel image out of the bitmap as its last step.
LEMMA BootMem ==
    ASSUME MemInv, ~panicked,
           init_no_multiboot \/ init_entry \/ init_low \/ init_kernel
    PROVE  MemInv'
<1>1. Inv'
  BY BootInv DEF MemInv
<1>2. phase # "run" /\ held' = held
  BY DEF init_no_multiboot, init_entry, init_low, reserve, init_kernel, mark_used
<1>3. held' = {} /\ HeldPages' = {}
  BY <1>2 DEF MemInv, Inv, NothingHeldAtBoot, HeldPages
<1>4. CASE init_no_multiboot
  <2>1. free' = {}
    BY <1>4 DEF init_no_multiboot, MemInv, Inv, FreeFromPastEntries
  <2> QED
    BY <1>1, <1>3, <2>1 DEF MemInv, KernelKept, Known
<1>5. CASE init_kernel
  <2>1. free' \cap UsedRegion(KernelBase, KernelSize) = {}
    BY <1>5 DEF init_kernel, mark_used
  <2>2. UsedRegion(KernelBase, KernelSize)' = UsedRegion(KernelBase, KernelSize)
    BY DEF UsedRegion, Extent, RoundUp, AllPages
  <2> QED
    BY <1>1, <1>3, <2>1, <2>2 DEF MemInv, KernelKept, Known
<1>6. CASE init_entry \/ init_low
  <2>1. phase' # "run"
    BY <1>6 DEF init_entry, init_low
  <2> QED
    BY <1>1, <2>1 DEF MemInv, KernelKept
<1> QED
  BY <1>4, <1>5, <1>6

-----------------------------------------------------------------------------
(***************************************************************************)
(* Who owns what.  A table that was made, the root of an address space and *)
(* a region each hold an extent of their own: the allocator only promises  *)
(* that extents are disjoint, so what has to be shown is that no extent is *)
(* claimed twice, although three modules keep their claims apart.          *)
(***************************************************************************)

Boots == {BootTables[t] : t \in DOMAIN BootTables}

MemTypes ==
    /\ level \in [AllPages -> 0 .. 4]
    /\ DOMAIN job = {"op", "virt", "phys", "left", "k", "at"}
    /\ job.virt \in Nat /\ job.k \in 1 .. 4
    /\ \A as \in spaces : DOMAIN as = {"pml4", "heap_end"} /\ as.heap_end \in Nat
    /\ region \in [Shmids -> [base : Nat, pages : Nat, refs : Int]]
    /\ next_shmid \in Nat

TablesOwned == \A p \in AllPages : level[p] # 0 => p \in Boots \/ <<p, 1>> \in held

SpacesOwned ==
    \A as \in spaces :
        /\ <<as.pml4, 1>> \in held
        /\ level[as.pml4] = 0
        /\ \A bs \in spaces : as.pml4 = bs.pml4 => as = bs

RegionsOwned ==
    \A id \in Shmids : region[id].base # 0 =>
        /\ <<region[id].base, region[id].pages>> \in held
        /\ region[id].pages = 1 => /\ level[region[id].base] = 0
                                   /\ \A as \in spaces : as.pml4 # region[id].base
        /\ \A other \in Shmids \ {id} :
              region[other].base # 0
                 => <<region[id].base, region[id].pages>>
                       # <<region[other].base, region[other].pages>>

Owned == TablesOwned /\ SpacesOwned /\ RegionsOwned

\* A boot table is a page, and different boot tables are different pages.
LEMMA BootTablesType ==
    /\ BootTables \in [{"pml4", "low", "high", "pd"} -> AllPages]
    /\ DOMAIN BootTables = {"pml4", "low", "high", "pd"}
    /\ Boots \subseteq UsedRegion(KernelBase, KernelSize)
    /\ \A s, t \in DOMAIN BootTables : BootTables[s] = BootTables[t] => s = t
<1>1. UsedRegion(KernelBase, KernelSize) \subseteq AllPages
  BY DEF UsedRegion, Extent
<1> QED
  BY <1>1, PagingAssumption DEF Boots

\* At the start only the boot tables exist.
LEMMA OwnedInit == MInit => MemInv /\ MemTypes /\ Owned
<1> SUFFICES ASSUME MInit PROVE MemInv /\ MemTypes /\ Owned
  OBVIOUS
<1> USE DEF MInit, PagingInit, ShmInit
<1>1. MemInv
  BY InitInv DEF MemInv, KernelKept, Init
<1>2. \A p \in AllPages : IF p \in Boots THEN level[p] \in 2 .. 4 ELSE level[p] = 0
  <2> SUFFICES ASSUME NEW p \in AllPages
               PROVE  IF p \in Boots THEN level[p] \in 2 .. 4 ELSE level[p] = 0
    OBVIOUS
  <2>1. CASE p \in Boots
    <3> DEFINE t == CHOOSE u \in DOMAIN BootTables : BootTables[u] = p
    <3>1. t \in DOMAIN BootTables
      BY <2>1 DEF Boots
    <3>2. level[p] = BootLevel[t]
      BY <2>1 DEF Boots
    <3> HIDE DEF t
    <3>3. BootLevel[t] \in 2 .. 4
      BY <3>1, BootTablesType DEF BootLevel
    <3> QED
      BY <2>1, <3>2, <3>3
  <2>2. CASE p \notin Boots
    BY <2>2 DEF Boots
  <2> QED
    BY <2>1, <2>2
<1>3. level \in [AllPages -> 0 .. 4]
  <2>1. \A p \in AllPages : level[p] \in 0 .. 4
    BY <1>2
  <2>2. level = [p \in AllPages |-> level[p]]
    OBVIOUS
  <2> QED
    BY <2>1, <2>2
<1>4. MemTypes
  <2>1. region \in [Shmids -> [base : Nat, pages : Nat, refs : Int]]
    OBVIOUS
  <2>2. /\ DOMAIN job = {"op", "virt", "phys", "left", "k", "at"}
        /\ job.virt \in Nat /\ job.k \in 1 .. 4
    BY DEF NoJob
  <2> QED
    BY <1>3, <2>1, <2>2 DEF MemTypes
<1>5. Owned
  <2>1. TablesOwned
    BY <1>2 DEF TablesOwned
  <2>2. SpacesOwned /\ RegionsOwned
    BY DEF SpacesOwned, RegionsOwned
  <2> QED
    BY <2>1, <2>2 DEF Owned
<1> QED
  BY <1>1, <1>4, <1>5

\* Claims are kept where nothing is given back and no claim is made.
LEMMA OwnedIdle ==
    ASSUME Owned, held \subseteq held', UNCHANGED <<level, spaces, region>>
    PROVE  Owned'
<1>1. TablesOwned'
  BY DEF Owned, TablesOwned, Boots, AllPages
<1>2. SpacesOwned'
  BY DEF Owned, SpacesOwned
<1>3. RegionsOwned'
  BY DEF Owned, RegionsOwned, Shmids
<1> QED
  BY <1>1, <1>2, <1>3 DEF Owned

\* Allocation takes nothing away from those who hold pages.
LEMMA AllocKeeps ==
    ASSUME Inv, NEW n \in Nat, pmm_alloc_pages(n)
    PROVE  held \subseteq held'
  BY AllocGrants DEF panic, grant

\* A new table is on a page nobody claims.
LEMMA OwnedTable ==
    ASSUME MemInv, MemTypes, Owned, ~panicked, create_table, UNCHANGED shmVars
    PROVE  Owned'
<1>1. pmm_alloc_pages(1) /\ job.k - 1 \in 1 .. 3
  BY DEF create_table, Walking, pmm_alloc_pages, MemTypes
<1>2. CASE panicked'
  BY <1>1, <1>2, AllocKeeps, OwnedIdle DEF create_table, pagingVars, shmVars, MemInv
<1>3. CASE ~panicked'
  <2>1. PICK first \in AllPages :
              /\ <<first, 1>> \notin held
              /\ held' = held \cup {<<first, 1>>}
              /\ first \notin UsedRegion(KernelBase, KernelSize)
              /\ Granted = first
    BY <1>1, <1>3, FreshGrant DEF MemInv
  <2>2. level' = [level EXCEPT ![first] = job.k - 1] /\ UNCHANGED <<spaces, region>>
    BY <1>3, <2>1 DEF create_table, shmVars
  <2>3. \A p \in AllPages : level'[p] = IF p = first THEN job.k - 1 ELSE level[p]
    BY <2>2 DEF MemTypes
  <2>4. TablesOwned'
    BY <2>1, <2>3 DEF Owned, TablesOwned, Boots, AllPages
  <2>5. \A as \in spaces : as.pml4 \in AllPages /\ as.pml4 # first
    BY <2>1 DEF Owned, SpacesOwned, MemInv, Inv, TypeOK
  <2>6. SpacesOwned'
    BY <2>1, <2>2, <2>3, <2>5 DEF Owned, SpacesOwned
  <2>7. \A id \in Shmids : region[id].base # 0 /\ region[id].pages = 1
           => region[id].base \in AllPages /\ region[id].base # first
    BY <2>1 DEF Owned, RegionsOwned, MemInv, Inv, TypeOK
  <2>8. RegionsOwned'
    BY <2>1, <2>2, <2>3, <2>7 DEF Owned, RegionsOwned, Shmids
  <2> QED
    BY <2>4, <2>6, <2>8 DEF Owned
<1> QED
  BY <1>2, <1>3

\* A new address space has a root of its own.
LEMMA OwnedSpace ==
    ASSUME MemInv, MemTypes, Owned, ~panicked, vmm_create_address_space,
           UNCHANGED shmVars
    PROVE  Owned'
<1>1. pmm_alloc_pages(1)
  BY DEF vmm_create_address_space, pmm_alloc_pages
<1>2. CASE panicked'
  BY <1>1, <1>2, AllocKeeps, OwnedIdle DEF vmm_create_address_space, shmVars, MemInv
<1>3. CASE ~panicked'
  <2>1. PICK first \in AllPages :
              /\ <<first, 1>> \notin held
              /\ held' = held \cup {<<first, 1>>}
              /\ first \notin UsedRegion(KernelBase, KernelSize)
              /\ Granted = first
    BY <1>1, <1>3, FreshGrant DEF MemInv
  <2> DEFINE new == [pml4 |-> first, heap_end |-> 2 * Entries]
  <2>2. spaces' = spaces \cup {new} /\ UNCHANGED <<level, region>>
    BY <1>3, <2>1 DEF vmm_create_address_space, shmVars
  <2>3. new.pml4 = first
    OBVIOUS
  <2> HIDE DEF new
  <2>4. TablesOwned'
    BY <2>1, <2>2 DEF Owned, TablesOwned, Boots, AllPages
  <2>5. level[first] = 0
    BY <2>1, BootTablesType DEF Owned, TablesOwned
  <2>6. \A as \in spaces : as.pml4 # first
    BY <2>1 DEF Owned, SpacesOwned
  <2>7. SpacesOwned'
    BY <2>1, <2>2, <2>3, <2>5, <2>6 DEF Owned, SpacesOwned
  <2>8. \A id \in Shmids : region[id].base # 0 /\ region[id].pages = 1
           => region[id].base # first
    BY <2>1 DEF Owned, RegionsOwned
  <2>9. RegionsOwned'
    BY <2>1, <2>2, <2>3, <2>8 DEF Owned, RegionsOwned, Shmids
  <2> QED
    BY <2>4, <2>7, <2>9 DEF Owned
<1> QED
  BY <1>2, <1>3

\* An address space gives back its root and no other extent.
LEMMA OwnedDestroy ==
    ASSUME MemInv, MemTypes, Owned, NEW as \in spaces, vmm_destroy_address_space(as),
           UNCHANGED shmVars
    PROVE  Owned'
<1>1. /\ held' = held \ {<<as.pml4, 1>>}
      /\ spaces' = spaces \ {as}
      /\ UNCHANGED <<level, region>>
  BY DEF vmm_destroy_address_space, shmVars
<1>2. level[as.pml4] = 0
  BY DEF Owned, SpacesOwned
<1>3. TablesOwned'
  BY <1>1, <1>2 DEF Owned, TablesOwned, Boots, AllPages
<1>4. SpacesOwned'
  BY <1>1 DEF Owned, SpacesOwned
<1>5. RegionsOwned'
  BY <1>1 DEF Owned, RegionsOwned, Shmids
<1> QED
  BY <1>3, <1>4, <1>5 DEF Owned

\* vmm_alloc_pages moves the end of a heap; the root stays what it is.
LEMMA OwnedHeap ==
    ASSUME MemInv, MemTypes, Owned, NEW as \in spaces, NEW n \in Requests,
           vmm_alloc_pages(as, n), UNCHANGED shmVars
    PROVE  Owned'
<1>0. pmm_alloc_pages(n) /\ n \in Nat
  BY PmmAssumption DEF vmm_alloc_pages
<1>1. held \subseteq held'
  BY <1>0, AllocKeeps DEF MemInv
<1>2. CASE panicked'
  BY <1>1, <1>2, OwnedIdle DEF vmm_alloc_pages, pagingVars, shmVars
<1>3. CASE ~panicked'
  <2> DEFINE moved == [as EXCEPT !.heap_end = @ + n]
  <2>1. spaces' = (spaces \ {as}) \cup {moved} /\ UNCHANGED <<level, region>>
    BY <1>3 DEF vmm_alloc_pages, shmVars
  <2>2. moved.pml4 = as.pml4
    BY DEF MemTypes
  <2> HIDE DEF moved
  <2>3. TablesOwned'
    BY <1>1, <2>1 DEF Owned, TablesOwned, Boots, AllPages
  <2>4. SpacesOwned'
    <3>1. \A x \in spaces : /\ <<x.pml4, 1>> \in held /\ level[x.pml4] = 0
                            /\ \A y \in spaces : x.pml4 = y.pml4 => x = y
      BY DEF Owned, SpacesOwned
    <3>2. \A x \in spaces' : x = moved \/ x \in spaces \ {as}
      BY <2>1
    <3>3. ASSUME NEW x \in spaces'
          PROVE  <<x.pml4, 1>> \in held' /\ level'[x.pml4] = 0
      <4>1. PICK u \in spaces : u.pml4 = x.pml4
        BY <2>2, <3>2
      <4> QED
        BY <1>1, <2>1, <3>1, <4>1
    <3>4. ASSUME NEW x \in spaces', NEW y \in spaces', x.pml4 = y.pml4
          PROVE  x = y
      <4>1. CASE x = moved /\ y = moved
        BY <4>1
      <4>2. CASE x = moved /\ y \in spaces \ {as}
        BY <2>2, <3>1, <3>4, <4>2
      <4>3. CASE x \in spaces \ {as} /\ y = moved
        BY <2>2, <3>1, <3>4, <4>3
      <4>4. CASE x \in spaces \ {as} /\ y \in spaces \ {as}
        BY <3>1, <3>4, <4>4
      <4> QED
        BY <3>2, <4>1, <4>2, <4>3, <4>4
    <3> QED
      BY <3>3, <3>4, Zenon DEF SpacesOwned
  <2>5. RegionsOwned'
    BY <1>1, <2>1, <2>2 DEF Owned, RegionsOwned, Shmids
  <2> QED
    BY <2>3, <2>4, <2>5 DEF Owned
<1> QED
  BY <1>2, <1>3

\* The number of pages of a region.
LEMMA RoundUpNat ==
    ASSUME NEW size \in ShmSizes
    PROVE  RoundUp(size) \in Nat
<1>1. size + PageSize - 1 \in Nat /\ PageSize \in Nat \ {0}
  BY PmmAssumption, ShmAssumption
<1> HIDE DEF RoundUp
<1>2. \A m \in Nat : m \div PageSize \in Nat
  BY <1>1
<1> QED
  BY <1>1, <1>2 DEF RoundUp

\* A new region is the extent the allocator has just handed out.
LEMMA OwnedRegion ==
    ASSUME MemInv, MemTypes, Owned, ~panicked, NEW size \in ShmSizes,
           shm_create(size), UNCHANGED pagingVars
    PROVE  Owned'
<1>0. pmm_alloc_pages(RoundUp(size)) /\ RoundUp(size) \in Nat
  BY RoundUpNat DEF shm_create
<1>1. CASE panicked'
  BY <1>0, <1>1, AllocKeeps, OwnedIdle DEF shm_create, pagingVars, shmVars, MemInv
<1>2. CASE ~panicked'
  <2> DEFINE n == RoundUp(size)
  <2> HIDE DEF n
  <2>1. PICK first \in AllPages :
              /\ <<first, n>> \notin held
              /\ held' = held \cup {<<first, n>>}
              /\ first \notin UsedRegion(KernelBase, KernelSize)
    BY <1>0, <1>2, FreshGrant DEF MemInv, n
  <2>2. /\ \E e \in held' \ held :
              region' = [region EXCEPT ![next_shmid] =
                            [base |-> e[1], pages |-> e[2], refs |-> 0]]
        /\ next_shmid \in Shmids
        /\ UNCHANGED <<level, spaces>>
    BY <1>2, ShmAssumption DEF shm_create, pagingVars, MemTypes, Shmids
  <2>3. region' = [region EXCEPT ![next_shmid] = [base |-> first, pages |-> n, refs |-> 0]]
    <3>1. PICK e \in held' \ held :
             region' = [region EXCEPT ![next_shmid] =
                           [base |-> e[1], pages |-> e[2], refs |-> 0]]
      BY <2>2
    <3>2. e[1] = first /\ e[2] = n
      BY <2>1
    <3> QED
      BY <3>1, <3>2, Zenon
  <2>4. \A id \in Shmids :
           IF id = next_shmid THEN region'[id].base = first /\ region'[id].pages = n
           ELSE region'[id] = region[id]
    BY <2>2, <2>3 DEF MemTypes
  <2>5. TablesOwned'
    BY <2>1, <2>2 DEF Owned, TablesOwned, Boots, AllPages
  <2>6. SpacesOwned'
    BY <2>1, <2>2 DEF Owned, SpacesOwned
  <2>7. n = 1 => level[first] = 0
    BY <2>1, BootTablesType DEF Owned, TablesOwned
  <2>8. n = 1 => \A as \in spaces : as.pml4 # first
    BY <2>1 DEF Owned, SpacesOwned
  <2>9. \A id \in Shmids : region[id].base # 0
           => <<region[id].base, region[id].pages>> # <<first, n>>
    BY <2>1 DEF Owned, RegionsOwned
  <2>10. RegionsOwned'
    <3> SUFFICES ASSUME NEW id \in Shmids, region'[id].base # 0
                 PROVE  /\ <<region'[id].base, region'[id].pages>> \in held'
                        /\ region'[id].pages = 1
                              => /\ level[region'[id].base] = 0
                                 /\ \A as \in spaces : as.pml4 # region'[id].base
                        /\ \A other \in Shmids \ {id} :
                              region'[other].base # 0
                                 => <<region'[id].base, region'[id].pages>>
                                       # <<region'[other].base, region'[other].pages>>
      BY <2>2 DEF RegionsOwned, Shmids
    <3>1. CASE id = next_shmid
      BY <2>1, <2>4, <2>7, <2>8, <2>9, <3>1
    <3>2. CASE id # next_shmid
      BY <2>1, <2>4, <2>9, <3>2 DEF Owned, RegionsOwned
    <3> QED
      BY <3>1, <3>2
  <2> QED
    BY <2>5, <2>6, <2>10 DEF Owned
<1> QED
  BY <1>1, <1>2

\* Attaching and detaching count, and change no claim.
LEMMA OwnedAttach ==
    ASSUME MemTypes, Owned, NEW id \in Shmids, shm_attach(id) \/ shm_detach(id),
           UNCHANGED pagingVars
    PROVE  Owned'
<1>1. \A i \in Shmids : region'[i].base = region[i].base /\ region'[i].pages = region[i].pages
  BY DEF shm_attach, shm_detach, MemTypes
<1>2. UNCHANGED <<level, spaces, held>>
  BY DEF shm_attach, shm_detach, pagingVars, vars
<1>3. TablesOwned' /\ SpacesOwned'
  BY <1>2 DEF Owned, TablesOwned, SpacesOwned, Boots, AllPages
<1>4. RegionsOwned'
  BY <1>1, <1>2 DEF Owned, RegionsOwned, Shmids
<1> QED
  BY <1>3, <1>4 DEF Owned

\* A region that is destroyed gives back its extent, which nobody else claims.
LEMMA OwnedGone ==
    ASSUME MemTypes, Owned, NEW id \in Shmids, shm_destroy(id), UNCHANGED pagingVars
    PROVE  Owned'
<1>1. /\ region[id].base # 0
      /\ held' = held \ {<<region[id].base, region[id].pages>>}
      /\ UNCHANGED <<level, spaces>>
  BY DEF shm_destroy, pagingVars
<1>2. \A i \in Shmids : IF i = id THEN region'[i].base = 0
                        ELSE region'[i] = region[i]
  BY DEF shm_destroy, MemTypes
<1>3. TablesOwned'
  BY <1>1 DEF Owned, TablesOwned, RegionsOwned, Boots, AllPages
<1>4. SpacesOwned'
  BY <1>1 DEF Owned, SpacesOwned, RegionsOwned
<1>5. RegionsOwned'
  BY <1>1, <1>2 DEF Owned, RegionsOwned, Shmids
<1> QED
  BY <1>3, <1>4, <1>5 DEF Owned

\* Every step keeps the types.
LEMMA MemTypesNext ==
    ASSUME MemInv, MemTypes, Owned, [MNext]_mvars
    PROVE  MemTypes'
<1>0. Shmids' = Shmids /\ AllPages' = AllPages
  BY DEF Shmids, AllPages
<1>1. level' \in [AllPages -> 0 .. 4]
  <2>1. CASE create_table
    BY <2>1 DEF create_table, MemTypes, pagingVars
  <2>2. CASE UNCHANGED level
    BY <2>2 DEF MemTypes
  <2> QED
    BY <2>1, <2>2 DEF MNext, mvars, Boot, PagingNext, pagingVars, range_call, follow,
         follow_huge, unmap_nothing, store, vmm_create_address_space,
         vmm_destroy_address_space, vmm_switch_address_space, vmm_alloc_pages
<1> DEFINE JobOK(j) == /\ DOMAIN j = {"op", "virt", "phys", "left", "k", "at"}
                       /\ j.virt \in Nat /\ j.k \in 1 .. 4
<1>3. JobOK(job')
  <2>0. JobOK(job) /\ JobOK(NoJob) /\ JobOK(NextPage)
    BY DEF MemTypes, NoJob, NextPage
  <2>1. ASSUME NEW c \in RangeCalls, range_call(c)
        PROVE  JobOK(job')
    BY <2>1, PagingAssumption DEF range_call, Start
  <2>2. CASE follow
    BY <2>2 DEF follow, MemTypes
  <2>3. CASE create_table
    <3>1. CASE panicked'
      BY <2>0, <2>3, <3>1 DEF create_table, pagingVars
    <3>2. CASE ~panicked'
      <4>1. job' = [job EXCEPT !.k = @ - 1, !.at = Granted] /\ job.k > 1
        BY <2>3, <3>2 DEF create_table
      <4> QED
        BY <2>0, <4>1
    <3> QED
      BY <3>1, <3>2
  <2>4. CASE unmap_nothing \/ store
    BY <2>0, <2>4 DEF unmap_nothing, store
  <2>5. ASSUME NEW as \in spaces, NEW n \in Requests, vmm_alloc_pages(as, n)
        PROVE  JobOK(job')
    <3>1. CASE panicked'
      BY <2>0, <2>5, <3>1 DEF vmm_alloc_pages, pagingVars
    <3>2. CASE ~panicked'
      <4> DEFINE call == [op |-> "map", virt |-> as.heap_end,
                          phys |-> Granted, left |-> n]
      <4>1. job' = Start(call) /\ call.virt = as.heap_end
        BY <2>5, <3>2 DEF vmm_alloc_pages
      <4> HIDE DEF call
      <4>2. as.heap_end \in Nat
        BY DEF MemTypes
      <4>3. \A c : /\ DOMAIN Start(c) = {"op", "virt", "phys", "left", "k", "at"}
                   /\ Start(c).virt = c.virt /\ Start(c).k = 4
        BY DEF Start
      <4>4. job'.virt \in Nat
        BY <4>1, <4>2, <4>3
      <4>5. DOMAIN job' = {"op", "virt", "phys", "left", "k", "at"}
        BY <4>1, <4>3
      <4>6. job'.k \in 1 .. 4
        BY <4>1, <4>3
      <4> QED
        BY <4>4, <4>5, <4>6
    <3> QED
      BY <3>1, <3>2
  <2>6. CASE UNCHANGED job
    BY <2>0, <2>6
  <2> HIDE DEF JobOK
  <2> QED
    BY <2>1, <2>2, <2>3, <2>4, <2>5, <2>6
       DEF MNext, mvars, Boot, PagingNext, pagingVars, follow_huge,
           vmm_create_address_space, vmm_destroy_address_space,
           vmm_switch_address_space
<1> DEFINE SpaceOK(as) == DOMAIN as = {"pml4", "heap_end"} /\ as.heap_end \in Nat
<1>4. \A as \in spaces' : SpaceOK(as)
  <2>0. \A as \in spaces : SpaceOK(as)
    BY DEF MemTypes
  <2>1. CASE vmm_create_address_space
    <3>1. SpaceOK([pml4 |-> Granted, heap_end |-> 2 * Entries])
      BY PagingAssumption
    <3> HIDE DEF SpaceOK
    <3> QED
      BY <2>0, <2>1, <3>1 DEF vmm_create_address_space
  <2>2. ASSUME NEW as \in spaces, NEW n \in Requests, vmm_alloc_pages(as, n)
        PROVE  \A bs \in spaces' : SpaceOK(bs)
    <3>0. DOMAIN as = {"pml4", "heap_end"} /\ as.heap_end \in Nat /\ n \in Nat
      BY <2>0, PmmAssumption
    <3> DEFINE moved == [as EXCEPT !.heap_end = @ + n]
    <3>1. DOMAIN moved = {"pml4", "heap_end"}
      BY <3>0
    <3>2. moved.heap_end = as.heap_end + n
      BY <3>0
    <3>3. spaces' \subseteq spaces \cup {moved}
      BY <2>2 DEF vmm_alloc_pages, pagingVars
    <3> HIDE DEF moved
    <3>4. \A x, y \in Nat : x + y \in Nat
      OBVIOUS
    <3>5. moved.heap_end \in Nat
      BY <3>0, <3>2, <3>4, Zenon
    <3>6. SpaceOK(moved)
      BY <3>1, <3>5
    <3> HIDE DEF SpaceOK
    <3> QED
      BY <2>0, <3>6, <3>3
  <2>3. CASE spaces' \subseteq spaces
    BY <2>0, <2>3
  <2> HIDE DEF SpaceOK
  <2> QED
    BY <2>1, <2>2, <2>3
       DEF MNext, mvars, Boot, PagingNext, pagingVars, range_call, follow,
           follow_huge, create_table, unmap_nothing, store,
           vmm_destroy_address_space, vmm_switch_address_space
<1>5. region' \in [Shmids -> [base : Nat, pages : Nat, refs : Int]] /\ next_shmid' \in Nat
  <2>0. region \in [Shmids -> [base : Nat, pages : Nat, refs : Int]] /\ next_shmid \in Nat
    BY DEF MemTypes
  <2>1. ASSUME NEW size \in ShmSizes, shm_create(size)
        PROVE  region' \in [Shmids -> [base : Nat, pages : Nat, refs : Int]]
               /\ next_shmid' \in Nat
    <3>1. CASE panicked'
      BY <2>0, <2>1, <3>1 DEF shm_create, shmVars
    <3>2. CASE ~panicked'
      <4>1. PICK e \in held' \ held :
               region' = [region EXCEPT ![next_shmid] =
                             [base |-> e[1], pages |-> e[2], refs |-> 0]]
        BY <2>1, <3>2 DEF shm_create
      <4>2. Inv'
        BY <2>1, RoundUpNat, AllocInv DEF shm_create, MemInv
      <4>3. e[1] \in Nat /\ e[2] \in Nat
        BY <4>1, <4>2, PmmAssumption DEF Inv, TypeOK, AllPages
      <4> DEFINE new == [base |-> e[1], pages |-> e[2], refs |-> 0]
      <4>4. new \in [base : Nat, pages : Nat, refs : Int]
        BY <4>3
      <4> HIDE DEF new
      <4>5. next_shmid' = next_shmid + 1
        BY <2>1, <3>2 DEF shm_create
      <4>6. region' = [region EXCEPT ![next_shmid] = new]
        BY <4>1 DEF new
      <4>7. region' \in [Shmids -> [base : Nat, pages : Nat, refs : Int]]
        BY <2>0, <4>4, <4>6
      <4> QED
        BY <2>0, <4>5, <4>7
    <3> QED
      BY <3>1, <3>2
  <2>2. ASSUME NEW id \in Shmids, shm_attach(id) \/ shm_detach(id) \/ shm_destroy(id)
        PROVE  region' \in [Shmids -> [base : Nat, pages : Nat, refs : Int]]
               /\ next_shmid' \in Nat
    BY <2>0, <2>2 DEF shm_attach, shm_detach, shm_destroy
  <2>3. CASE UNCHANGED shmVars
    BY <2>0, <2>3 DEF shmVars
  <2> QED
    BY <2>1, <2>2, <2>3 DEF MNext, mvars, Boot, ShmNext
<1> QED
  BY <1>0, <1>1, <1>3, <1>4, <1>5, Zenon DEF MemTypes

\* Every step keeps the allocator's invariant, whichever client takes it.
LEMMA MemNext ==
    ASSUME MemInv, MemTypes, Owned, [MNext]_mvars
    PROVE  MemInv'
<1>1. ASSUME ~panicked, init_no_multiboot \/ init_entry \/ init_low \/ init_kernel
      PROVE  MemInv'
  BY <1>1, BootMem
<1>2. ASSUME UNCHANGED vars \/ panic
      PROVE  MemInv'
  BY <1>2, IdleMem
<1>3. ASSUME create_table \/ vmm_create_address_space
      PROVE  MemInv'
  <2>1. pmm_alloc_pages(1)
    BY <1>3 DEF create_table, Walking, vmm_create_address_space, pmm_alloc_pages
  <2> QED
    BY <2>1, AllocMem
<1>4. ASSUME NEW as \in spaces, NEW n \in Requests, vmm_alloc_pages(as, n)
      PROVE  MemInv'
  BY <1>4, AllocMem, PmmAssumption DEF vmm_alloc_pages
<1>5. ASSUME NEW size \in ShmSizes, shm_create(size)
      PROVE  MemInv'
  BY <1>5, AllocMem, RoundUpNat DEF shm_create
<1>6. ASSUME NEW as \in spaces, vmm_destroy_address_space(as)
      PROVE  MemInv'
  BY <1>6, ReleaseMem DEF vmm_destroy_address_space, Owned, SpacesOwned
<1>7. ASSUME NEW id \in Shmids, shm_destroy(id)
      PROVE  MemInv'
  BY <1>7, ReleaseMem DEF shm_destroy, Owned, RegionsOwned
<1> QED
  BY <1>1, <1>2, <1>3, <1>4, <1>5, <1>6, <1>7, Zenon
     DEF MNext, mvars, Boot, PagingNext, range_call, follow, follow_huge,
         unmap_nothing, store, vmm_switch_address_space, ShmNext, shm_attach,
         shm_detach

\* Every step keeps the claims apart.
LEMMA OwnedNext ==
    ASSUME MemInv, MemTypes, Owned, [MNext]_mvars
    PROVE  Owned'
<1>1. ASSUME held' = held, UNCHANGED <<pagingVars, shmVars>>
      PROVE  Owned'
  BY <1>1, OwnedIdle DEF pagingVars, shmVars
<1>2. ASSUME Boot
      PROVE  Owned'
  <2>1. held' = held
    BY <1>2 DEF Boot, init_no_multiboot, init_entry, init_low, reserve, init_kernel,
                mark_used
  <2> QED
    BY <1>1, <1>2, <2>1 DEF Boot
<1>3. ASSUME ~panicked, PagingNext, UNCHANGED shmVars
      PROVE  Owned'
  <2>1. ASSUME held' = held, UNCHANGED <<level, spaces>>
        PROVE  Owned'
    BY <1>3, <2>1, OwnedIdle DEF shmVars
  <2>2. ASSUME \/ \E c \in RangeCalls : range_call(c)
               \/ follow \/ follow_huge \/ unmap_nothing \/ store
               \/ \E as \in spaces : vmm_switch_address_space(as)
        PROVE  Owned'
    <3>1. held' = held /\ UNCHANGED <<level, spaces>>
      BY <2>2 DEF range_call, follow, follow_huge, unmap_nothing, store,
             vmm_switch_address_space, panic, vars, pagingVars
    <3> QED
      BY <2>1, <3>1
  <2> QED
    BY <1>3, <2>2, OwnedTable, OwnedSpace, OwnedDestroy, OwnedHeap DEF PagingNext
<1>4. ASSUME ~panicked, ShmNext, UNCHANGED pagingVars
      PROVE  Owned'
  BY <1>4, OwnedRegion, OwnedAttach, OwnedGone DEF ShmNext
<1>5. ASSUME UNCHANGED mvars
      PROVE  Owned'
  BY <1>1, <1>5 DEF mvars, vars
<1> QED
  BY <1>2, <1>3, <1>4, <1>5 DEF MNext

\* Allocator, types and claims together are inductive.
LEMMA ClaimsHold == MSpec => [](MemInv /\ MemTypes /\ Owned)
  BY OwnedInit, MemTypesNext, MemNext, OwnedNext, PTL DEF MSpec

\* No page of a shared memory region is a page table, the root of an address
\* space, free, or part of another region, for every memory map, table size
\* and set of regions, and however the clients' calls are interleaved.
THEOREM RegionsStayApart == MSpec => []RegionsApart
<1>1. ASSUME MemInv, MemTypes, Owned
      PROVE  RegionsApart
  <2> SUFFICES ASSUME NEW id \in Shmids, region[id].base # 0
               PROVE  /\ <<region[id].base, region[id].pages>> \in held
                      /\ PagesOf(id) \cap (Tables \cup free) = {}
                      /\ \A other \in Shmids \ {id} :
                            region[other].base # 0 => PagesOf(id) \cap PagesOf(other) = {}
    BY DEF RegionsApart
  <2> DEFINE e == <<region[id].base, region[id].pages>>
  <2>1. e \in held /\ PagesOf(id) = Extent(e[1], e[2])
    BY <1>1 DEF Owned, RegionsOwned, PagesOf
  <2>2. \A d \in held : d # e => PagesOf(id) \cap Extent(d[1], d[2]) = {}
    BY <1>1, <2>1 DEF MemInv, Inv, HeldSafe
  <2>3. PagesOf(id) \cap free = {}
    BY <1>1, <2>1 DEF MemInv, Inv, HeldSafe
  <2>4. \A p \in AllPages : p \in Extent(p, 1)
    BY PmmAssumption DEF Extent, AllPages
  <2>5. ASSUME NEW p \in AllPages, <<p, 1>> \in held, <<p, 1>> # e
        PROVE  p \notin PagesOf(id)
    <3>1. PagesOf(id) \cap Extent(p, 1) = {}
      BY <2>2, <2>5
    <3> QED
      BY <2>4, <3>1
  <2>6. ASSUME NEW p \in AllPages, level[p] # 0
        PROVE  p \notin PagesOf(id)
    <3>1. CASE p \in Boots
      <4>1. phase = "run"
        BY <1>1, <2>1 DEF MemInv, Inv, NothingHeldAtBoot
      <4>2. PagesOf(id) \subseteq Known
        BY <2>1 DEF Known, HeldPages
      <4> QED
        BY <1>1, <3>1, <4>1, <4>2, BootTablesType DEF MemInv, KernelKept
    <3>2. CASE p \notin Boots
      BY <1>1, <2>5, <2>6, <3>2 DEF Owned, TablesOwned, RegionsOwned
    <3> QED
      BY <3>1, <3>2
  <2>7. ASSUME NEW as \in spaces
        PROVE  as.pml4 \notin PagesOf(id)
    <3>1. as.pml4 \in AllPages /\ <<as.pml4, 1>> \in held /\ <<as.pml4, 1>> # e
      BY <1>1 DEF Owned, SpacesOwned, RegionsOwned, MemInv, Inv, TypeOK
    <3> QED
      BY <2>5, <3>1
  <2>8. \A other \in Shmids \ {id} :
           region[other].base # 0 => PagesOf(id) \cap PagesOf(other) = {}
    <3> TAKE other \in Shmids \ {id}
    <3> HAVE region[other].base # 0
    <3> DEFINE d == <<region[other].base, region[other].pages>>
    <3>1. d \in held /\ d # e /\ PagesOf(other) = Extent(d[1], d[2])
      BY <1>1 DEF Owned, RegionsOwned, PagesOf
    <3> HIDE DEF d, e
    <3> QED
      BY <2>2, <3>1
  <2> QED
    BY <2>1, <2>3, <2>6, <2>7, <2>8 DEF Tables
<1> QED
  BY <1>1, ClaimsHold, PTL

-----------------------------------------------------------------------------
(***************************************************************************)
(* The tables are a tree.  An entry of an upper table is empty, a huge     *)
(* page or a pointer one level down; a table that was made is pointed to   *)
(* from one place; and the walk stands in a table of its own level.        *)
(***************************************************************************)

Points(a, i, p) == level[a] > 1 /\ table[a][i] = Pointer(p)

TreeTypes ==
    /\ DOMAIN table = AllPages
    /\ \A p \in AllPages : DOMAIN table[p] = Indices

WalkInTable == job.at \in AllPages /\ level[job.at] = job.k /\ level[cr3] = 4

Linked ==
    \A p \in AllPages, i \in Indices : level[p] > 1 =>
        \/ table[p][i] = Empty
        \/ \E q \in Nat : table[p][i] = Huge(q)
        \/ \E q \in AllPages : table[p][i] = Pointer(q) /\ level[q] = level[p] - 1

OneParent ==
    \A p \in AllPages : level[p] # 0 /\ p \notin Boots =>
        \E a \in AllPages, i \in Indices :
            /\ Points(a, i, p)
            /\ \A b \in AllPages, j \in Indices : Points(b, j, p) => b = a /\ j = i

TreeInv == TreeTypes /\ WalkInTable /\ Linked /\ OneParent

\* Every digit of a virtual page is an index into a table.
LEMMA IndexType ==
    ASSUME NEW v \in Nat, NEW k \in 1 .. 4
    PROVE  Index(v, k) \in Indices
<1>1. Entries \in Nat \ {0} /\ Entries * Entries \in Nat \ {0}
  BY PagingAssumption
<1>2. (Entries * Entries) * Entries \in Nat \ {0}
  BY <1>1
<1>3. Span[k] \in Nat \ {0}
  <2>1. k = 1 \/ k = 2 \/ k = 3 \/ k = 4
    OBVIOUS
  <2>2. Span[1] = 1 /\ Span[2] = Entries /\ Span[3] = Entries * Entries
        /\ Span[4] = Entries * Entries * Entries
    BY DEF Span
  <2> QED
    BY <1>1, <1>2, <2>1, <2>2
<1>4. \A d \in Nat \ {0} : (v \div d) % Entries \in 0 .. Entries - 1
  BY <1>1
<1> QED
  BY <1>3, <1>4 DEF Index, Indices

\* The entries of different kinds are different.
LEMMA EntryKinds ==
    /\ \A p, q : Pointer(p) # Huge(q) /\ Pointer(p) # Empty /\ Huge(p) # Empty
    /\ \A p, q : Pointer(p) = Pointer(q) => p = q
    /\ \A p : /\ Pointer(p).present /\ ~Pointer(p).huge /\ Pointer(p).page = p
              /\ Huge(p).present /\ Huge(p).huge
              /\ ~Empty.present /\ ~Empty.huge
  BY DEF Pointer, Huge, Empty

\* The levels of the boot tables.
LEMMA BootLevels ==
    ASSUME MInit
    PROVE  \A t \in DOMAIN BootTables : level[BootTables[t]] = BootLevel[t]
<1> USE DEF MInit, PagingInit
<1> SUFFICES ASSUME NEW t \in DOMAIN BootTables
             PROVE  level[BootTables[t]] = BootLevel[t]
  OBVIOUS
<1> DEFINE u == CHOOSE s \in DOMAIN BootTables : BootTables[s] = BootTables[t]
<1>1. u \in DOMAIN BootTables /\ BootTables[u] = BootTables[t]
  OBVIOUS
<1>2. level[BootTables[t]] = BootLevel[u]
  BY BootTablesType
<1> HIDE DEF u
<1> QED
  BY <1>1, <1>2, BootTablesType

\* What boot.asm leaves is such a tree.
LEMMA TreeInit == MInit => TreeInv
<1> SUFFICES ASSUME MInit PROVE TreeInv
  OBVIOUS
<1> USE DEF MInit, PagingInit
<1>1. TreeTypes
  BY DEF TreeTypes
<1>2. \A t \in DOMAIN BootTables : level[BootTables[t]] = BootLevel[t]
  BY BootLevels
<1>3. \A p \in AllPages : p \notin Boots => level[p] = 0
  BY DEF Boots
<1>4. WalkInTable
  <2>1. level[cr3] = 4 /\ cr3 \in AllPages
    BY <1>2, BootTablesType DEF cr3, BootLevel
  <2> QED
    BY <2>1 DEF WalkInTable, NoJob
<1>5. Linked
  <2>0. \A p \in AllPages, i \in Indices : table[p][i] = BootEntry(p, i)
    OBVIOUS
  <2> HIDE DEF PagingInit
  <2> SUFFICES ASSUME NEW p \in AllPages, NEW i \in Indices, level[p] > 1
               PROVE  \/ BootEntry(p, i) = Empty
                      \/ \E q \in Nat : BootEntry(p, i) = Huge(q)
                      \/ \E q \in AllPages :
                            BootEntry(p, i) = Pointer(q) /\ level[q] = level[p] - 1
    BY <2>0 DEF Linked
  <2> DEFINE links == {l \in BootLinks : BootTables[l[1]] = p /\ l[2] = i}
             l == CHOOSE m \in links : TRUE
  <2>1. CASE p = BootTables["pd"]
    <3>1. i * Entries \in Nat
      BY PagingAssumption DEF Indices
    <3> QED
      BY <2>1, <3>1 DEF BootEntry
  <2>2. CASE p # BootTables["pd"] /\ links = {}
    BY <2>2 DEF BootEntry
  <2>3. CASE p # BootTables["pd"] /\ links # {}
    <3>1. l \in links
      BY <2>3
    <3>2. BootEntry(p, i) = Pointer(BootTables[l[3]])
      BY <2>3 DEF BootEntry
    <3> HIDE DEF l
    <3>3. l \in BootLinks /\ BootTables[l[1]] = p
      BY <3>1
    <3>4. /\ l[1] \in DOMAIN BootTables /\ l[3] \in DOMAIN BootTables
          /\ BootLevel[l[3]] = BootLevel[l[1]] - 1
      BY <3>3, BootTablesType DEF BootLinks, BootLevel
    <3>5. BootTables[l[3]] \in AllPages /\ level[BootTables[l[3]]] = level[p] - 1
      BY <1>2, <3>3, <3>4, BootTablesType
    <3> QED
      BY <3>2, <3>5
  <2> QED
    BY <2>1, <2>2, <2>3
<1>6. OneParent
  BY <1>3 DEF OneParent
<1> QED
  BY <1>1, <1>4, <1>5, <1>6 DEF TreeInv

\* The upper tables decide who points to whom.
LEMMA OneParentSame ==
    ASSUME OneParent, level' = level,
           \A a \in AllPages : level[a] > 1 => table'[a] = table[a]
    PROVE  OneParent'
<1>1. \A a \in AllPages, i \in Indices, p \in AllPages :
         (level'[a] > 1 /\ table'[a][i] = Pointer(p)) <=> Points(a, i, p)
  BY DEF Points
<1> SUFFICES ASSUME NEW p \in AllPages, level[p] # 0, p \notin Boots
             PROVE  \E a \in AllPages, i \in Indices :
                       /\ level'[a] > 1 /\ table'[a][i] = Pointer(p)
                       /\ \A b \in AllPages, j \in Indices :
                             level'[b] > 1 /\ table'[b][j] = Pointer(p) => b = a /\ j = i
  BY Zenon DEF OneParent, Points, Pointer, AllPages, Indices, Boots
<1>2. PICK a \in AllPages, i \in Indices :
         /\ Points(a, i, p)
         /\ \A b \in AllPages, j \in Indices : Points(b, j, p) => b = a /\ j = i
  BY DEF OneParent
<1> QED
  BY <1>1, <1>2

\* Where tables and levels stay, and the walk is at home, the tree stays.
LEMMA TreeIdle ==
    ASSUME TreeInv, UNCHANGED <<table, level>>,
           \/ UNCHANGED job
           \/ job'.at \in AllPages /\ level[job'.at] = job'.k
    PROVE  TreeInv'
<1>1. TreeTypes' /\ Linked'
  BY DEF TreeInv, TreeTypes, Linked, AllPages, Indices, Empty, Huge, Pointer
<1>2. WalkInTable'
  BY DEF TreeInv, WalkInTable, AllPages, cr3
<1>3. OneParent'
  BY OneParentSame DEF TreeInv
<1> QED
  BY <1>1, <1>2, <1>3 DEF TreeInv

\* A walk that goes on with the next page begins at cr3 again.
LEMMA NextPageHome ==
    ASSUME MemTypes, TreeInv
    PROVE  /\ NextPage.at \in AllPages /\ level[NextPage.at] = NextPage.k
           /\ \A c : Start(c).at \in AllPages /\ level[Start(c).at] = Start(c).k
<1>1. cr3 \in AllPages /\ level[cr3] = 4
  BY BootTablesType DEF cr3, TreeInv, WalkInTable
<1>2. NextPage.at = cr3 /\ NextPage.k = 4
  BY DEF NextPage, NoJob, MemTypes
<1>3. \A c : Start(c).at = cr3 /\ Start(c).k = 4
  BY DEF Start
<1> QED
  BY <1>1, <1>2, <1>3

\* Following a pointer goes one level down.
LEMMA TreeFollow ==
    ASSUME MemTypes, TreeInv, follow
    PROVE  TreeInv'
<1>1. Index(job.virt, job.k) \in Indices /\ job.at \in AllPages /\ level[job.at] = job.k
  BY IndexType DEF MemTypes, TreeInv, WalkInTable
<1>2. job.k > 1 /\ Here.present /\ ~Here.huge
  BY DEF follow
<1>3. PICK q \in AllPages : Here = Pointer(q) /\ level[q] = job.k - 1
  BY <1>1, <1>2, EntryKinds DEF TreeInv, Linked, Here
<1>4. job'.at = q /\ job'.k = job.k - 1
  BY <1>3, EntryKinds DEF follow, MemTypes
<1> QED
  BY <1>3, <1>4, TreeIdle DEF follow

\* A store goes into a table of the lowest level, whose entries are no tables.
LEMMA TreeStore ==
    ASSUME MemTypes, TreeInv, store
    PROVE  TreeInv'
<1> DEFINE x == Index(job.virt, job.k)
           e == IF job.op = "map" THEN Pointer(job.phys) ELSE Empty
<1>1. x \in Indices /\ job.at \in AllPages /\ level[job.at] = 1
  BY IndexType DEF MemTypes, TreeInv, WalkInTable, store
<1>2. /\ table' = [table EXCEPT ![job.at][x] = e]
      /\ level' = level /\ job' = NextPage
  BY DEF store, Put
<1> HIDE DEF x, e
<1>3. TreeTypes'
  BY <1>2 DEF TreeInv, TreeTypes, AllPages, Indices
<1>4. \A a \in AllPages : level[a] > 1 => table'[a] = table[a]
  BY <1>1, <1>2 DEF TreeInv, TreeTypes
<1>5. Linked'
  BY <1>2, <1>4 DEF TreeInv, Linked, AllPages, Indices, Empty, Huge, Pointer
<1>6. OneParent'
  BY <1>2, <1>4, OneParentSame DEF TreeInv
<1>7. WalkInTable'
  BY <1>2, NextPageHome DEF TreeInv, WalkInTable, AllPages, cr3
<1> QED
  BY <1>3, <1>5, <1>6, <1>7 DEF TreeInv

\* A new table hangs from one entry, which was empty, and is empty itself.
LEMMA TreeGrow ==
    ASSUME MemInv, MemTypes, Owned, TreeInv, ~panicked, create_table
    PROVE  TreeInv'
<1>1. pmm_alloc_pages(1) /\ job.k \in 2 .. 4
  BY DEF create_table, Walking, pmm_alloc_pages, MemTypes
<1>2. CASE panicked'
  BY <1>2, TreeIdle DEF create_table, pagingVars
<1>3. CASE ~panicked'
  <2>1. PICK first \in AllPages :
              /\ <<first, 1>> \notin held
              /\ first \notin UsedRegion(KernelBase, KernelSize)
              /\ Granted = first
    BY <1>1, <1>3, FreshGrant DEF MemInv
  <2>2. level[first] = 0 /\ first \notin Boots
    BY <2>1, BootTablesType DEF Owned, TablesOwned
  <2> DEFINE x == Index(job.virt, job.k)
             at == job.at
             k == job.k
  <2>3. /\ x \in Indices /\ at \in AllPages /\ level[at] = k /\ k \in 2 .. 4
        /\ ~table[at][x].present
        /\ at # first
    BY <1>1, <2>2, IndexType DEF MemTypes, TreeInv, WalkInTable, create_table, Here
  <2>4. /\ table' = [[table EXCEPT ![at][x] = Pointer(first)]
                        EXCEPT ![first] = [i \in Indices |-> Empty]]
        /\ level' = [level EXCEPT ![first] = k - 1]
        /\ job' = [job EXCEPT !.k = @ - 1, !.at = first]
    BY <1>3, <2>1 DEF create_table, Put
  <2>5. job'.at = first /\ job'.k = k - 1
    BY <2>4 DEF MemTypes
  <2>6. \A a \in AllPages : level'[a] = IF a = first THEN k - 1 ELSE level[a]
    BY <2>4 DEF MemTypes
  <2> HIDE DEF x, at, k
  <2>7. \A a \in AllPages, i \in Indices :
           table'[a][i] = IF a = first THEN Empty
                          ELSE IF a = at /\ i = x THEN Pointer(first)
                          ELSE table[a][i]
    BY <2>3, <2>4 DEF TreeInv, TreeTypes
  <2>8. TreeTypes'
    BY <2>4 DEF TreeInv, TreeTypes, AllPages, Indices
  <2>9. WalkInTable'
    <3>1. cr3 # first /\ cr3 \in AllPages
      BY <2>2, BootTablesType DEF cr3, Boots
    <3>2. level'[cr3] = 4 /\ level'[first] = k - 1
      BY <2>6, <3>1 DEF TreeInv, WalkInTable
    <3> QED
      BY <2>5, <3>2 DEF WalkInTable, AllPages, cr3
  <2>10. Linked'
    <3> SUFFICES ASSUME NEW p \in AllPages, NEW i \in Indices, level'[p] > 1
                 PROVE  \/ table'[p][i] = Empty
                        \/ \E q \in Nat : table'[p][i] = Huge(q)
                        \/ \E q \in AllPages : table'[p][i] = Pointer(q)
                                               /\ level'[q] = level'[p] - 1
      BY DEF Linked, AllPages, Indices, Empty, Huge, Pointer
    <3>1. CASE p = first
      BY <2>7, <3>1
    <3>2. CASE p = at /\ i = x
      BY <2>3, <2>6, <2>7, <3>2
    <3>3. CASE p # first /\ ~(p = at /\ i = x)
      <4>1. table'[p][i] = table[p][i] /\ level'[p] = level[p]
        BY <2>6, <2>7, <3>3
      <4>2. \A q \in AllPages : level[q] = level[p] - 1 => level'[q] = level'[p] - 1
        BY <2>2, <2>6, <3>3, <4>1 DEF MemTypes
      <4> QED
        BY <4>1, <4>2 DEF TreeInv, Linked
    <3> QED
      BY <3>1, <3>2, <3>3
  <2>11. OneParent'
    <3> DEFINE PointsNew(a, i, p) == level'[a] > 1 /\ table'[a][i] = Pointer(p)
    <3> SUFFICES ASSUME NEW p \in AllPages, level'[p] # 0, p \notin Boots
                 PROVE  \E a \in AllPages, i \in Indices :
                           /\ PointsNew(a, i, p)
                           /\ \A b \in AllPages, j \in Indices :
                                 PointsNew(b, j, p) => b = a /\ j = i
      BY Zenon DEF OneParent, Points, Pointer, AllPages, Indices, Boots
    <3>1. \A a \in AllPages, i \in Indices :
             PointsNew(a, i, p) <=> \/ a = at /\ i = x /\ p = first
                                    \/ a # first /\ ~(a = at /\ i = x) /\ Points(a, i, p)
      BY <2>3, <2>6, <2>7, EntryKinds DEF Points
    <3>2. CASE p = first
      <4>1. \A a \in AllPages, i \in Indices : ~Points(a, i, p)
        BY <2>2, <3>2, EntryKinds DEF TreeInv, Linked, Points, MemTypes
      <4> QED
        BY <2>3, <3>1, <3>2, <4>1
    <3>3. CASE p # first
      <4>1. level[p] # 0
        BY <2>6, <3>3
      <4>2. PICK a \in AllPages, i \in Indices :
               /\ Points(a, i, p)
               /\ \A b \in AllPages, j \in Indices : Points(b, j, p) => b = a /\ j = i
        BY <4>1 DEF TreeInv, OneParent
      <4>3. a # first /\ ~(a = at /\ i = x)
        BY <2>2, <2>3, <4>2, EntryKinds DEF Points
      <4> QED
        BY <3>1, <3>3, <4>2, <4>3
    <3> QED
      BY <3>2, <3>3
  <2> QED
    BY <2>8, <2>9, <2>10, <2>11 DEF TreeInv
<1> QED
  BY <1>2, <1>3

\* Every step keeps the tree.
LEMMA TreeNext ==
    ASSUME MemInv, MemTypes, Owned, TreeInv, [MNext]_mvars
    PROVE  TreeInv'
<1>1. ASSUME UNCHANGED <<table, level, job>>
      PROVE  TreeInv'
  BY <1>1, TreeIdle
<1>2. ASSUME UNCHANGED mvars \/ Boot \/ (ShmNext /\ UNCHANGED pagingVars)
      PROVE  TreeInv'
  BY <1>1, <1>2 DEF mvars, Boot, pagingVars
<1>3. ASSUME \/ follow_huge \/ vmm_create_address_space
             \/ \E as \in spaces : \/ vmm_destroy_address_space(as)
                                   \/ vmm_switch_address_space(as)
      PROVE  TreeInv'
  BY <1>1, <1>3 DEF follow_huge, vmm_create_address_space, vmm_destroy_address_space,
                    vmm_switch_address_space, pagingVars
<1>4. ASSUME \/ \E c \in RangeCalls : range_call(c)
             \/ unmap_nothing
      PROVE  TreeInv'
  BY <1>4, NextPageHome, TreeIdle DEF range_call, unmap_nothing
<1>5. ASSUME NEW as \in spaces, NEW n \in Requests, vmm_alloc_pages(as, n)
      PROVE  TreeInv'
  <2>1. CASE panicked'
    BY <1>1, <1>5, <2>1 DEF vmm_alloc_pages, pagingVars
  <2>2. CASE ~panicked'
    <3>1. PICK c : job' = Start(c)
      BY <1>5, <2>2 DEF vmm_alloc_pages
    <3>2. UNCHANGED <<table, level>>
      BY <1>5, <2>2 DEF vmm_alloc_pages
    <3> QED
      BY <3>1, <3>2, NextPageHome, TreeIdle
  <2> QED
    BY <2>1, <2>2
<1> QED
  BY <1>2, <1>3, <1>4, <1>5, TreeFollow, TreeStore, TreeGrow, Zenon DEF MNext, PagingNext

\* The page tables form a tree that no call and no release tears, for every
\* number of entries and pages: the walk is always in a table of its level, a
\* table is never free and one entry of the level above points to it.
THEOREM TablesFormTree == MSpec => []TableTree
<1>1. ASSUME MemInv, MemTypes, Owned, TreeInv
      PROVE  TableTree
  <2> DEFINE Parents(p) == {x \in AllPages \X Indices :
                               level[x[1]] > 1 /\ table[x[1]][x[2]] = Pointer(p)}
  <2> SUFFICES ASSUME NEW p \in AllPages, level[p] # 0
               PROVE  /\ phase = "run" => p \notin free
                      /\ \/ p \in Boots
                         \/ <<p, 1>> \in held /\ Cardinality(Parents(p)) = 1
                      /\ \A i \in Indices :
                            level[p] > 1 /\ table[p][i] = Pointer(table[p][i].page)
                               => level[table[p][i].page] = level[p] - 1
    BY <1>1, Zenon DEF TableTree, TreeInv, WalkInTable, Boots
  <2>1. p \in Extent(p, 1)
    BY PmmAssumption DEF Extent, AllPages
  <2>2. phase = "run" => p \notin free
    <3>1. CASE p \in Boots
      BY <1>1, <3>1, BootTablesType DEF MemInv, KernelKept, Known
    <3>2. CASE <<p, 1>> \in held
      BY <1>1, <2>1, <3>2 DEF MemInv, Inv, HeldSafe
    <3> QED
      BY <1>1, <3>1, <3>2 DEF Owned, TablesOwned
  <2>3. ASSUME p \notin Boots
        PROVE  Cardinality(Parents(p)) = 1
    <3>1. PICK a \in AllPages, i \in Indices :
             /\ Points(a, i, p)
             /\ \A b \in AllPages, j \in Indices : Points(b, j, p) => b = a /\ j = i
      BY <1>1, <2>3 DEF TreeInv, OneParent
    <3>2. Parents(p) = {<<a, i>>}
      BY <3>1 DEF Points
    <3> HIDE DEF Parents
    <3> QED
      BY <3>2, FS_Singleton
  <2>4. ASSUME NEW i \in Indices, level[p] > 1, table[p][i] = Pointer(table[p][i].page)
        PROVE  level[table[p][i].page] = level[p] - 1
    BY <1>1, <2>4, EntryKinds DEF TreeInv, Linked
  <2>5. p \in Boots \/ <<p, 1>> \in held
    BY <1>1 DEF Owned, TablesOwned
  <2> HIDE DEF Parents
  <2> QED
    BY <2>2, <2>3, <2>4, <2>5
<1> QED
  BY <1>1, ClaimsHold, TreeInit, TreeNext, PTL DEF MSpec

-----------------------------------------------------------------------------
(***************************************************************************)
(* A virtual page is its four digits.                                      *)
(***************************************************************************)

\* A multiple of m other than zero is at least m away from it.
LEMMA MultipleApart ==
    ASSUME NEW m \in Nat \ {0}, NEW d \in Int
    PROVE  /\ m * d \in Int
           /\ d >= 1 => m * d >= m
           /\ d <= -1 => m * d <= -m
<1>1. d >= 1 => m * d = m + m * (d - 1) /\ m * (d - 1) >= 0
  OBVIOUS
<1>2. d <= -1 => m * d = -m + m * (d + 1) /\ m * (d + 1) <= 0
  OBVIOUS
<1> QED
  BY <1>1, <1>2

\* Quotient and remainder are the only ones.
LEMMA Quotient ==
    ASSUME NEW m \in Nat \ {0}, NEW q \in Nat, NEW r \in 0 .. m - 1, NEW a \in Nat,
           a = m * q + r
    PROVE  a \div m = q /\ a % m = r
<1> DEFINE p == a \div m
           s == a % m
<1>1. p \in Int /\ s \in 0 .. m - 1 /\ a = m * p + s
  OBVIOUS
<1> HIDE DEF p, s
<1>2. m * (q - p) = s - r
  BY <1>1
<1>3. q - p = 0
  BY <1>1, <1>2, MultipleApart
<1>4. p = q /\ s = r
  BY <1>1, <1>2, <1>3
<1> QED
  BY <1>4 DEF p, s

\* Division in two steps.
LEMMA DivideTwice ==
    ASSUME NEW a \in Nat \ {0}, NEW b \in Nat \ {0}, NEW v \in Nat
    PROVE  v \div (a * b) = (v \div a) \div b
<1> DEFINE q == v \div a
           r == v % a
<1>1. q \in Nat /\ r \in 0 .. a - 1 /\ v = a * q + r
  OBVIOUS
<1> HIDE DEF q, r
<1> DEFINE s == q \div b
           t == q % b
<1>2. s \in Nat /\ t \in 0 .. b - 1 /\ q = b * s + t
  BY <1>1
<1> HIDE DEF s, t
<1>3. a * b \in Nat \ {0} /\ a * t \in Nat
  BY <1>2
<1>4. a * t + r \in 0 .. (a * b) - 1
  <2>1. b - 1 - t \in Nat
    BY <1>2
  <2>2. a * (b - 1 - t) = a * b - a - a * t
    BY <1>2
  <2>3. a * (b - 1 - t) \in Nat
    BY <2>1
  <2> QED
    BY <1>1, <1>3, <2>2, <2>3
<1>5. v = (a * b) * s + (a * t + r)
  <2>1. a * (b * s + t) = (a * b) * s + a * t
    BY <1>2
  <2> QED
    BY <1>1, <1>2, <1>3, <2>1
<1>6. v \div (a * b) = s
  <2> DEFINE m == a * b
             u == a * t + r
  <2>1. m \in Nat \ {0} /\ u \in 0 .. m - 1 /\ v = m * s + u /\ s \in Nat
    BY <1>2, <1>3, <1>4, <1>5
  <2> HIDE DEF m, u
  <2>2. v \div m = s
    BY <2>1, Quotient
  <2> QED
    BY <2>2 DEF m
<1> QED
  BY <1>6 DEF s, q

\* What is left of v above the first k digits.
Above(v, k) == v \div Span[k]

LEMMA SpanIs ==
    /\ Span[1] = 1 /\ Span[2] = Entries /\ Span[3] = Entries * Entries
    /\ Span[4] = (Entries * Entries) * Entries
    /\ Entries \in Nat \ {0} /\ Entries > 2
    /\ \A k \in 1 .. 4 : Span[k] \in Nat \ {0}
<1>1. Entries \in Nat \ {0} /\ Entries > 2 /\ Entries * Entries \in Nat \ {0}
  BY PagingAssumption
<1>2. (Entries * Entries) * Entries \in Nat \ {0}
  BY <1>1
<1>3. /\ Span[1] = 1 /\ Span[2] = Entries /\ Span[3] = Entries * Entries
      /\ Span[4] = (Entries * Entries) * Entries
  BY DEF Span
<1>4. \A k \in 1 .. 4 : k = 1 \/ k = 2 \/ k = 3 \/ k = 4
  OBVIOUS
<1> QED
  BY <1>1, <1>2, <1>3, <1>4

\* Each digit is what one more division leaves.
LEMMA DigitByDigit ==
    ASSUME NEW v \in Nat
    PROVE  /\ Above(v, 1) = v
           /\ \A k \in 1 .. 4 : Above(v, k) \in Nat /\ Index(v, k) = Above(v, k) % Entries
           /\ \A k \in 1 .. 3 : Above(v, k) = Entries * Above(v, k + 1) + Index(v, k)
<1>1. Above(v, 1) = v
  BY SpanIs DEF Above
<1>2. \A k \in 1 .. 4 : Above(v, k) \in Nat /\ Index(v, k) = Above(v, k) % Entries
  BY SpanIs DEF Above, Index
<1>3. Above(v, 2) = Above(v, 1) \div Entries
  BY <1>1, SpanIs DEF Above
<1>4. Above(v, 3) = Above(v, 2) \div Entries
  BY SpanIs, DivideTwice DEF Above
<1>5. Above(v, 4) = Above(v, 3) \div Entries
  <2>1. Entries * Entries \in Nat \ {0}
    BY SpanIs
  <2> QED
    BY <2>1, SpanIs, DivideTwice DEF Above
<1>6. \A a \in Nat : a = Entries * (a \div Entries) + (a % Entries)
  BY SpanIs
<1>7. \A k \in 1 .. 3 : Above(v, k + 1) = Above(v, k) \div Entries
  <2>1. \A k \in 1 .. 3 : k = 1 \/ k = 2 \/ k = 3
    OBVIOUS
  <2> QED
    BY <1>3, <1>4, <1>5, <2>1
<1>8. \A k \in 1 .. 3 : k \in 1 .. 4
  OBVIOUS
<1> QED
  BY <1>1, <1>2, <1>6, <1>7, <1>8, Zenon

\* The last digit is all that is left.
LEMMA TopDigit ==
    ASSUME NEW v \in VPages
    PROVE  v \in Nat /\ Above(v, 4) = Index(v, 4)
<1> DEFINE S == Span[4]
           q == v \div S
<1>1. S \in Nat \ {0} /\ Entries \in Nat \ {0}
  BY SpanIs
<1>2. Entries * S \in Nat
  BY <1>1
<1>3. v \in Nat /\ v < Entries * S
  BY <1>2 DEF VPages
<1> HIDE DEF S
<1>4. q \in Nat /\ v >= S * q
  BY <1>1, <1>3
<1> HIDE DEF q
<1>5. q < Entries
  <2> SUFFICES ASSUME q >= Entries PROVE FALSE
    BY <1>1, <1>4
  <2>1. Entries * S <= q * S
    BY <1>1, <1>4, TimesOrder
  <2>2. q * S = S * q /\ S * q \in Nat
    BY <1>1, <1>4
  <2> QED
    BY <1>2, <1>3, <1>4, <2>1, <2>2
<1>6. q % Entries = q
  BY <1>1, <1>4, <1>5
<1> QED
  BY <1>3, <1>6 DEF q, S, Above, Index

\* No two pages have the same digits.
LEMMA SameDigits ==
    ASSUME NEW v \in VPages, NEW w \in VPages,
           \A k \in 1 .. 4 : Index(v, k) = Index(w, k)
    PROVE  v = w
<1>1. v \in Nat /\ w \in Nat /\ Above(v, 4) = Above(w, 4)
  BY TopDigit
<1>2. \A k \in 1 .. 3 : Above(v, k + 1) = Above(w, k + 1) => Above(v, k) = Above(w, k)
  <2> TAKE k \in 1 .. 3
  <2>1. Index(v, k) = Index(w, k)
    OBVIOUS
  <2>2. /\ Above(v, k) = Entries * Above(v, k + 1) + Index(v, k)
        /\ Above(w, k) = Entries * Above(w, k + 1) + Index(w, k)
    BY <1>1, DigitByDigit
  <2> QED
    BY <2>1, <2>2, Zenon
<1>3. Above(v, 3) = Above(w, 3)
  BY <1>1, <1>2
<1>4. Above(v, 2) = Above(w, 2)
  BY <1>2, <1>3
<1>5. Above(v, 1) = Above(w, 1)
  BY <1>2, <1>4
<1> QED
  BY <1>1, <1>5, DigitByDigit

\* The pages boot.asm maps: those whose upper two digits lead to pd_table.
LEMMA BootDigits ==
    ASSUME NEW v \in VPages
    PROVE  /\ v < Span[3] <=> Index(v, 4) = 0 /\ Index(v, 3) = 0
           /\ v \div Span[3] = Span[3] - 2
                <=> Index(v, 4) = Entries - 1 /\ Index(v, 3) = Entries - 2
           /\ v % Span[3] = Index(v, 2) * Entries + (v % Entries)
<1> DEFINE E == Entries
           d == Index(v, 4)
           c == Index(v, 3)
           b == Index(v, 2)
           a == Index(v, 1)
           q == v \div Span[3]
<1>1. v \in Nat /\ E \in Nat /\ E > 2 /\ E * E \in Nat \ {0} /\ Span[3] = E * E
  BY TopDigit, SpanIs
<1>2. d \in 0 .. E - 1 /\ c \in 0 .. E - 1 /\ b \in 0 .. E - 1 /\ a \in 0 .. E - 1
  BY <1>1, IndexType DEF Indices
<1>3. q = E * d + c
  BY <1>1, TopDigit, DigitByDigit DEF Above
<1>4. Above(v, 2) = E * q + b /\ v = E * Above(v, 2) + a
  <2>1. q = Above(v, 3)
    BY DEF Above
  <2> HIDE DEF q
  <2> QED
    BY <1>1, <2>1, DigitByDigit
<1>5. a = v % E
  BY <1>1, DigitByDigit
<1>6. q \in Nat
  BY <1>1
<1> HIDE DEF E, d, c, b, a, q
<1>7. v = (E * E) * q + (E * b + a)
  <2>1. E * (E * q + b) = (E * E) * q + E * b
    BY <1>1, <1>2, <1>6
  <2>2. E * b \in Nat /\ (E * E) * q \in Nat
    BY <1>1, <1>2, <1>6
  <2> QED
    BY <1>2, <1>4, <2>1, <2>2
<1>8. E * b \in Nat /\ E * b + a \in 0 .. (E * E) - 1
  <2>1. E - 1 - b \in Nat
    BY <1>1, <1>2
  <2>2. E * (E - 1 - b) = E * E - E - E * b /\ E * b \in Nat
    BY <1>1, <1>2
  <2>3. E * (E - 1 - b) \in Nat
    BY <1>1, <2>1
  <2> QED
    BY <1>1, <1>2, <2>2, <2>3
<1>9. v % (E * E) = E * b + a
  <2> DEFINE m == E * E
             r == E * b + a
  <2>1. m \in Nat \ {0} /\ r \in 0 .. m - 1 /\ v = m * q + r
    BY <1>1, <1>7, <1>8
  <2> HIDE DEF m, r
  <2>2. v \in Nat /\ q \in Nat
    BY <1>1, <1>6
  <2>3. v \div m = q /\ v % m = r
    BY <2>1, <2>2, Quotient
  <2> QED
    BY <2>3 DEF m, r
<1>10. E * b = b * E
  BY <1>1, <1>2
<1>11. v < E * E <=> q = 0
  <2>1. q >= 1 => (E * E) * q >= E * E
    BY <1>1, <1>6, MultipleApart
  <2>2. q = 0 => (E * E) * q = 0
    BY <1>1
  <2>3. (E * E) * q \in Nat
    BY <1>1, <1>6
  <2> QED
    BY <1>1, <1>6, <1>7, <1>8, <2>1, <2>2, <2>3
<1>12. q = 0 <=> d = 0 /\ c = 0
  <2>1. d >= 1 => E * d >= E
    BY <1>1, <1>2, MultipleApart
  <2>2. d = 0 => E * d = 0
    BY <1>1
  <2> QED
    BY <1>1, <1>2, <1>3, <2>1, <2>2
<1>13. q = E * E - 2 <=> d = E - 1 /\ c = E - 2
  <2>1. E * (E - 1 - d) = E * E - E - E * d /\ E * d \in Nat /\ E - 1 - d \in Nat
    BY <1>1, <1>2
  <2>2. E - 1 - d >= 1 => E * (E - 1 - d) >= E
    BY <1>1, <2>1, MultipleApart
  <2>3. E - 1 - d = 0 => E * (E - 1 - d) = 0
    BY <1>1
  <2> HIDE DEF E
  <2>4. CASE E - 1 - d >= 1
    BY <1>1, <1>2, <1>3, <2>1, <2>2, <2>4
  <2>5. CASE E - 1 - d = 0
    BY <1>1, <1>2, <1>3, <2>1, <2>3, <2>5
  <2> QED
    BY <2>1, <2>4, <2>5
<1>14. /\ v < E * E <=> d = 0 /\ c = 0
       /\ q = E * E - 2 <=> d = E - 1 /\ c = E - 2
       /\ v % (E * E) = b * E + (v % E)
  BY <1>5, <1>9, <1>10, <1>11, <1>12, <1>13
<1> QED
  BY <1>1, <1>14 DEF E, d, c, b, a, q

\* The heap of a process begins in the identity map.
LEMMA HeapDigits ==
    /\ 2 * Entries \in VPages
    /\ Index(2 * Entries, 4) = 0 /\ Index(2 * Entries, 3) = 0
<1>1. Entries \in Nat /\ Entries > 2 /\ Span[3] = Entries * Entries
      /\ Span[4] = (Entries * Entries) * Entries
  BY SpanIs
<1>2. Entries * Entries = 2 * Entries + Entries * (Entries - 2)
  BY <1>1
<1>3. Entries * (Entries - 2) \in Nat /\ Entries * (Entries - 2) >= Entries
  BY <1>1, MultipleApart
<1>4. 2 * Entries < Span[3] /\ Span[3] \in Nat
  BY <1>1, <1>2, <1>3
<1>5. Span[3] <= Span[4] /\ Span[4] <= Entries * Span[4] /\ Span[4] \in Nat
  <2>1. Span[3] \in Nat \ {0} /\ Span[4] \in Nat \ {0} /\ Entries \in Nat \ {0}
        /\ Span[4] = Span[3] * Entries /\ Entries >= 1
    BY SpanIs
  <2>2. Span[3] * Entries >= Span[3]
    BY <2>1, MultipleApart
  <2>3. Span[4] * Entries >= Span[4] /\ Span[4] * Entries = Entries * Span[4]
    BY <2>1, MultipleApart
  <2> QED
    BY <2>1, <2>2, <2>3
<1>6. 2 * Entries \in VPages
  <2>1. 2 * Entries \in Nat /\ Entries * Span[4] \in Nat
    BY <1>1, <1>5
  <2> QED
    BY <1>4, <1>5, <2>1 DEF VPages
<1> QED
  BY <1>4, <1>6, BootDigits

-----------------------------------------------------------------------------
(***************************************************************************)
(* The way to a virtual page.                                              *)
(***************************************************************************)

pd == BootTables["pd"]

\* The entries on the way to virtual page v, from the PML4 down.
Step(e, i) == IF e.present THEN table[e.page][i] ELSE Empty
Entry4(v) == table[cr3][Index(v, 4)]
Entry3(v) == Step(Entry4(v), Index(v, 3))
Entry2(v) == Step(Entry3(v), Index(v, 2))
Entry1(v) == Step(Entry2(v), Index(v, 1))

\* Huge pages are the business of pd_table alone, which stays what it was.
HugeInPd ==
    /\ level[pd] = 2
    /\ \A i \in Indices : table[pd][i] = Huge(i * Entries)
    /\ \A p \in AllPages, i \in Indices, q \in Nat :
          level[p] > 1 /\ p # pd => table[p][i] # Huge(q)

\* The identity map keeps its tables, and the two upper boot tables keep the
\* one entry that points to each.
BootKept ==
    /\ table[cr3][0] = Pointer(BootTables["low"])
    /\ table[BootTables["low"]][0] = Pointer(pd)
    /\ \A t \in {"low", "high"}, a, b \in AllPages, i, j \in Indices :
          Points(a, i, BootTables[t]) /\ Points(b, j, BootTables[t]) => a = b /\ i = j

\* The walk has come to where its page leads.
OnPath ==
    /\ job.k = 4 => job.at = cr3
    /\ job.k = 3 => Entry4(job.virt) = Pointer(job.at)
    /\ job.k = 2 => Entry3(job.virt) = Pointer(job.at)
    /\ job.k = 1 => Entry2(job.virt) = Pointer(job.at)

\* A call stays within the address space, unless it is the mapping of a heap,
\* which begins in the identity map and comes to a huge page.
HeapStart == 2 * Entries
CallFits ==
    \/ job = NoJob
    \/ /\ job.op \in {"map", "unmap"} /\ job.phys \in Nat /\ job.left \in Nat \ {0}
       /\ \/ job.virt + job.left <= Entries * Span[4]
          \/ job.op = "map" /\ job.virt = HeapStart

HeapsAtStart ==
    job.op # "map" \/ job.virt # HeapStart => \A as \in spaces : as.heap_end = HeapStart

MapInv == HugeInPd /\ BootKept /\ OnPath /\ CallFits /\ HeapsAtStart

\* What a table of level k + 1 has in an entry that is no huge page.
Down(e, k) == e = Empty \/ \E q \in AllPages : e = Pointer(q) /\ level[q] = k

\* paging_virt_to_phys reads these entries.
LEMMA TranslateIs ==
    ASSUME NEW v
    PROVE  paging_virt_to_phys(v) = IF Entry2(v).huge THEN Entry2(v).page + (v % Entries)
                                    ELSE Entry1(v).page
  BY Zenon DEF paging_virt_to_phys, Entry1, Entry2, Entry3, Entry4, Step

LEMMA BootPages ==
    /\ cr3 \in AllPages /\ pd \in AllPages /\ cr3 \in Boots /\ pd \in Boots
    /\ BootTables["low"] \in AllPages /\ BootTables["high"] \in AllPages
    /\ BootTables["low"] \in Boots /\ BootTables["high"] \in Boots
    /\ \A p \in Boots : \/ p = cr3 \/ p = pd
                        \/ p = BootTables["low"] \/ p = BootTables["high"]
  BY BootTablesType DEF Boots, cr3, pd

\* One step down the tables.
LEMMA StepDown ==
    ASSUME TreeInv, HugeInPd, NEW k \in 2 .. 3, NEW e, Down(e, k), NEW i \in Indices
    PROVE  \/ Down(Step(e, i), k - 1)
           \/ k = 2 /\ e = Pointer(pd) /\ Step(e, i) = Huge(i * Entries)
<1>1. CASE e = Empty
  BY <1>1, EntryKinds DEF Step, Down
<1>2. ASSUME NEW q \in AllPages, e = Pointer(q), level[q] = k
      PROVE  \/ Down(Step(e, i), k - 1)
             \/ k = 2 /\ e = Pointer(pd) /\ Step(e, i) = Huge(i * Entries)
  <2>1. Step(e, i) = table[q][i] /\ level[q] > 1
    BY <1>2, EntryKinds DEF Step
  <2>2. CASE q = pd
    BY <1>2, <2>1, <2>2 DEF HugeInPd
  <2>3. CASE q # pd
    <3>1. \A h \in Nat : table[q][i] # Huge(h)
      BY <2>1, <2>3 DEF HugeInPd
    <3> QED
      BY <1>2, <2>1, <3>1 DEF TreeInv, Linked, Down
  <2> QED
    BY <2>2, <2>3
<1> QED
  BY <1>1, <1>2 DEF Down

LEMMA EntryForms ==
    ASSUME TreeInv, HugeInPd, NEW v \in Nat
    PROVE  /\ Down(Entry4(v), 3) /\ Down(Entry3(v), 2)
           /\ \/ Down(Entry2(v), 1)
              \/ Entry3(v) = Pointer(pd) /\ Entry2(v) = Huge(Index(v, 2) * Entries)
<1>1. \A k \in 1 .. 4 : Index(v, k) \in Indices
  BY IndexType
<1>2. Down(Entry4(v), 3)
  <2>1. cr3 \in AllPages /\ level[cr3] = 4 /\ cr3 # pd
    BY BootPages DEF TreeInv, WalkInTable, HugeInPd
  <2>2. \A h \in Nat : Entry4(v) # Huge(h)
    BY <1>1, <2>1 DEF HugeInPd, Entry4
  <2> QED
    BY <1>1, <2>1, <2>2 DEF TreeInv, Linked, Down, Entry4
<1>3. Down(Entry3(v), 2)
  BY <1>1, <1>2, StepDown DEF Entry3
<1>4. \/ Down(Entry2(v), 1)
      \/ Entry3(v) = Pointer(pd) /\ Entry2(v) = Huge(Index(v, 2) * Entries)
  BY <1>1, <1>3, StepDown DEF Entry2
<1> QED
  BY <1>2, <1>3, <1>4

\* A pointer that was read was in a table of the level above.
LEMMA StepBack ==
    ASSUME NEW k \in 2 .. 3, NEW e, Down(e, k), NEW i, NEW p, Step(e, i) = Pointer(p)
    PROVE  \E a \in AllPages : e = Pointer(a) /\ level[a] = k /\ Points(a, i, p)
<1>1. e # Empty
  BY EntryKinds DEF Step
<1>2. PICK a \in AllPages : e = Pointer(a) /\ level[a] = k
  BY <1>1 DEF Down
<1>3. Step(e, i) = table[a][i]
  BY <1>2, EntryKinds DEF Step
<1> QED
  BY <1>2, <1>3 DEF Points

\* A table of an address space hangs from one entry, pd_table apart.
LEMMA OneWay ==
    ASSUME TreeInv, HugeInPd, BootKept, NEW p \in AllPages, level[p] \in 1 .. 3, p # pd,
           NEW a \in AllPages, NEW i \in Indices, NEW b \in AllPages, NEW j \in Indices,
           Points(a, i, p), Points(b, j, p)
    PROVE  a = b /\ i = j
<1>1. CASE p \notin Boots
  <2>1. PICK c \in AllPages, l \in Indices :
           /\ Points(c, l, p)
           /\ \A x \in AllPages, y \in Indices : Points(x, y, p) => x = c /\ y = l
    <3>1. level[p] # 0
      OBVIOUS
    <3> QED
      BY <1>1, <3>1 DEF TreeInv, OneParent
  <2> QED
    BY <2>1
<1>2. CASE p \in Boots
  <2>1. p # cr3
    BY DEF TreeInv, WalkInTable
  <2>2. p = BootTables["low"] \/ p = BootTables["high"]
    BY <1>2, <2>1, BootPages
  <2> QED
    BY <2>2 DEF BootKept
<1> QED
  BY <1>1, <1>2

\* The entry of the lowest level that a page uses is its own.
LEMMA OwnEntry ==
    ASSUME TreeInv, HugeInPd, BootKept, NEW v \in VPages, NEW w \in VPages,
           NEW p \in AllPages, level[p] = 1,
           Entry2(v) = Pointer(p), Entry2(w) = Pointer(p), Index(v, 1) = Index(w, 1)
    PROVE  v = w
<1>0. v \in Nat /\ w \in Nat
  BY TopDigit
<1>1. /\ \A k \in 1 .. 4 : Index(v, k) \in Indices /\ Index(w, k) \in Indices
      /\ Down(Entry4(v), 3) /\ Down(Entry4(w), 3) /\ Down(Entry3(v), 2) /\ Down(Entry3(w), 2)
  BY <1>0, IndexType, EntryForms
<1>2. PICK a \in AllPages : Entry3(v) = Pointer(a) /\ level[a] = 2 /\ Points(a, Index(v, 2), p)
  BY <1>1, StepBack DEF Entry2
<1>3. PICK b \in AllPages : Entry3(w) = Pointer(b) /\ level[b] = 2 /\ Points(b, Index(w, 2), p)
  BY <1>1, StepBack DEF Entry2
<1>4. a = b /\ Index(v, 2) = Index(w, 2)
  <2>1. p # pd
    BY DEF HugeInPd
  <2> QED
    BY <1>1, <1>2, <1>3, <2>1, OneWay
<1>5. a # pd
  BY <1>1, <1>2, EntryKinds DEF HugeInPd, Points
<1>6. PICK c \in AllPages : Entry4(v) = Pointer(c) /\ level[c] = 3 /\ Points(c, Index(v, 3), a)
  BY <1>1, <1>2, StepBack DEF Entry3
<1>7. PICK d \in AllPages : Entry4(w) = Pointer(d) /\ level[d] = 3 /\ Points(d, Index(w, 3), a)
  BY <1>1, <1>3, <1>4, StepBack DEF Entry3
<1>8. c = d /\ Index(v, 3) = Index(w, 3)
  BY <1>1, <1>2, <1>5, <1>6, <1>7, OneWay
<1>9. Index(v, 4) = Index(w, 4)
  <2>1. cr3 \in AllPages /\ c # pd
    BY <1>6, BootPages DEF HugeInPd
  <2>2. Points(cr3, Index(v, 4), c) /\ Points(cr3, Index(w, 4), c)
    BY <1>6, <1>7, <1>8 DEF Points, Entry4, TreeInv, WalkInTable
  <2> QED
    BY <1>1, <1>6, <2>1, <2>2, OneWay
<1>10. \A k \in 1 .. 4 : Index(v, k) = Index(w, k)
  <2>1. \A k \in 1 .. 4 : k = 1 \/ k = 2 \/ k = 3 \/ k = 4
    OBVIOUS
  <2> QED
    BY <1>4, <1>8, <1>9, <2>1
<1> QED
  BY <1>10, SameDigits

-----------------------------------------------------------------------------
(***************************************************************************)
(* What boot.asm leaves.                                                   *)
(***************************************************************************)

low == BootTables["low"]
high == BootTables["high"]

\* The entries of the boot tables, one by one.
LEMMA BootEntries ==
    ASSUME NEW p \in AllPages, NEW i \in Indices
    PROVE  /\ p = pd => BootEntry(p, i) = Huge(i * Entries)
           /\ p = cr3 /\ i = 0 => BootEntry(p, i) = Pointer(low)
           /\ p = cr3 /\ i = Entries - 1 => BootEntry(p, i) = Pointer(high)
           /\ p = low /\ i = 0 => BootEntry(p, i) = Pointer(pd)
           /\ p = high /\ i = Entries - 2 => BootEntry(p, i) = Pointer(pd)
           /\ \/ p = pd
              \/ p = cr3 /\ i \in {0, Entries - 1}
              \/ p = low /\ i = 0
              \/ p = high /\ i = Entries - 2
              \/ BootEntry(p, i) = Empty
<1> DEFINE links == {l \in BootLinks : BootTables[l[1]] = p /\ l[2] = i}
           m == CHOOSE l \in links : TRUE
<1>1. /\ p = pd => BootEntry(p, i) = Huge(i * Entries)
      /\ p # pd /\ links = {} => BootEntry(p, i) = Empty
      /\ p # pd /\ links # {} => BootEntry(p, i) = Pointer(BootTables[m[3]])
  BY Zenon DEF BootEntry, pd
<1>2. links # {} => m \in links
  BY Zenon
<1> HIDE DEF m
<1>3. \A l \in links : l \in BootLinks /\ BootTables[l[1]] = p /\ l[2] = i
  OBVIOUS
<1>4. \A l \in BootLinks : BootTables[l[1]] = p /\ l[2] = i => l \in links
  OBVIOUS
<1> HIDE DEF links
<1>5. /\ cr3 = BootTables["pml4"] /\ low = BootTables["low"] /\ high = BootTables["high"]
      /\ pd = BootTables["pd"]
  BY DEF cr3, low, high, pd
<1>6. /\ cr3 # low /\ cr3 # high /\ cr3 # pd /\ low # high /\ low # pd /\ high # pd
  BY <1>5, BootTablesType
<1>7. Entries - 1 # 0 /\ Entries - 2 # 0
  BY PagingAssumption
<1>8. /\ <<"pml4", 0, "low">> \in BootLinks /\ <<"pml4", Entries - 1, "high">> \in BootLinks
      /\ <<"low", 0, "pd">> \in BootLinks /\ <<"high", Entries - 2, "pd">> \in BootLinks
  BY DEF BootLinks
<1>9. \A l \in BootLinks :
         \/ l[1] = "pml4" /\ l[2] = 0 /\ l[3] = "low"
         \/ l[1] = "pml4" /\ l[2] = Entries - 1 /\ l[3] = "high"
         \/ l[1] = "low" /\ l[2] = 0 /\ l[3] = "pd"
         \/ l[1] = "high" /\ l[2] = Entries - 2 /\ l[3] = "pd"
  BY DEF BootLinks
<1>10. \A l \in links :
         \/ p = cr3 /\ i = 0 /\ BootTables[l[3]] = low
         \/ p = cr3 /\ i = Entries - 1 /\ BootTables[l[3]] = high
         \/ p = low /\ i = 0 /\ BootTables[l[3]] = pd
         \/ p = high /\ i = Entries - 2 /\ BootTables[l[3]] = pd
  BY <1>3, <1>5, <1>9
<1>11. /\ p = cr3 /\ i = 0 => links # {}
       /\ p = cr3 /\ i = Entries - 1 => links # {}
       /\ p = low /\ i = 0 => links # {}
       /\ p = high /\ i = Entries - 2 => links # {}
  BY <1>4, <1>5, <1>8
<1>12. p = cr3 /\ i = 0 => BootEntry(p, i) = Pointer(low)
  BY <1>1, <1>2, <1>6, <1>7, <1>10, <1>11
<1>13. p = cr3 /\ i = Entries - 1 => BootEntry(p, i) = Pointer(high)
  BY <1>1, <1>2, <1>6, <1>7, <1>10, <1>11
<1>14. p = low /\ i = 0 => BootEntry(p, i) = Pointer(pd)
  BY <1>1, <1>2, <1>6, <1>7, <1>10, <1>11
<1>15. p = high /\ i = Entries - 2 => BootEntry(p, i) = Pointer(pd)
  BY <1>1, <1>2, <1>6, <1>7, <1>10, <1>11
<1>16. \/ p = pd
       \/ p = cr3 /\ i \in {0, Entries - 1}
       \/ p = low /\ i = 0
       \/ p = high /\ i = Entries - 2
       \/ BootEntry(p, i) = Empty
  BY <1>1, <1>2, <1>10
<1> QED
  BY <1>1, <1>12, <1>13, <1>14, <1>15, <1>16

\* At the start the way to a page is the one the boot tables give.
LEMMA MapInit == MInit => MapInv
<1> SUFFICES ASSUME MInit PROVE MapInv
  OBVIOUS
<1>0. TreeInv
  BY TreeInit
<1>1. /\ table = [p \in AllPages |-> [i \in Indices |-> BootEntry(p, i)]]
      /\ job = NoJob /\ spaces = {}
  BY DEF MInit, PagingInit
<1>2. \A p \in AllPages, i \in Indices : table[p][i] = BootEntry(p, i)
  BY <1>1
<1>3. level[pd] = 2
  BY BootLevels, BootTablesType DEF pd, BootLevel
<1>4. /\ cr3 \in AllPages /\ low \in AllPages /\ high \in AllPages /\ pd \in AllPages
      /\ cr3 # low /\ cr3 # high /\ cr3 # pd /\ low # high /\ low # pd /\ high # pd
  BY BootTablesType DEF cr3, low, high, pd
<1>5. 0 \in Indices
  BY PagingAssumption DEF Indices
<1>6. HugeInPd
  <2>1. \A p \in AllPages, i \in Indices, q \in Nat : p # pd => table[p][i] # Huge(q)
    <3> SUFFICES ASSUME NEW p \in AllPages, NEW i \in Indices, p # pd
                 PROVE  \A q \in Nat : BootEntry(p, i) # Huge(q)
      BY <1>2
    <3>1. BootEntry(p, i) = Empty \/ \E q : BootEntry(p, i) = Pointer(q)
      BY BootEntries
    <3> QED
      BY <3>1, EntryKinds
  <2> QED
    BY <1>2, <1>3, <1>4, <2>1, BootEntries DEF HugeInPd
<1>7. BootKept
  <2>1. table[cr3][0] = Pointer(low) /\ table[low][0] = Pointer(pd)
    BY <1>2, <1>4, <1>5, BootEntries
  <2>2. ASSUME NEW a \in AllPages, NEW i \in Indices, NEW p, p = low \/ p = high, Points(a, i, p)
        PROVE  a = cr3 /\ (p = low => i = 0) /\ (p = high => i = Entries - 1)
    <3>1. BootEntry(a, i) = Pointer(p) /\ p # pd
      BY <1>2, <1>4, <2>2 DEF Points
    <3>2. a # pd
      BY <3>1, BootEntries, EntryKinds
    <3>3. ~(a = low /\ i = 0) /\ ~(a = high /\ i = Entries - 2)
      BY <3>1, BootEntries, EntryKinds
    <3>4. a = cr3 /\ i \in {0, Entries - 1}
      BY <3>1, <3>2, <3>3, BootEntries, EntryKinds
    <3>5. (i = 0 => p = low) /\ (i = Entries - 1 => p = high)
      BY <3>1, <3>4, BootEntries, EntryKinds
    <3> QED
      BY <1>4, <3>4, <3>5
  <2>3. \A t \in {"low", "high"} : BootTables[t] = low \/ BootTables[t] = high
    BY DEF low, high
  <2>4. \A t \in {"low", "high"}, a, b \in AllPages, i, j \in Indices :
          Points(a, i, BootTables[t]) /\ Points(b, j, BootTables[t]) => a = b /\ i = j
    BY <1>4, <2>2, <2>3
  <2> QED
    BY <2>1, <2>4 DEF BootKept, low
<1>8. OnPath /\ CallFits /\ HeapsAtStart
  BY <1>1 DEF OnPath, CallFits, HeapsAtStart, NoJob
<1> QED
  BY <1>6, <1>7, <1>8 DEF MapInv

\* And it leads where the boot code says: two copies of the first GiB.
LEMMA BootTranslation ==
    ASSUME MInit, NEW v \in VPages
    PROVE  paging_virt_to_phys(v) = BootMap[v]
<1>0. TreeInv /\ HugeInPd
  BY TreeInit, MapInit DEF MapInv
<1>1. \A p \in AllPages, i \in Indices : table[p][i] = BootEntry(p, i)
  BY DEF MInit, PagingInit
<1>2. /\ cr3 \in AllPages /\ low \in AllPages /\ high \in AllPages /\ pd \in AllPages
      /\ cr3 # low /\ cr3 # high /\ cr3 # pd /\ low # high /\ low # pd /\ high # pd
  BY BootTablesType DEF cr3, low, high, pd
<1>3. v \in Nat /\ \A k \in 1 .. 4 : Index(v, k) \in Indices
  BY TopDigit, IndexType
<1> DEFINE d == Index(v, 4)
           c == Index(v, 3)
           b == Index(v, 2)
<1>4. BootMap[v] = IF (d = 0 /\ c = 0) \/ (d = Entries - 1 /\ c = Entries - 2)
                   THEN b * Entries + (v % Entries) ELSE 0
  <2>1. BootMap[v] = IF v < Span[3] \/ v \div Span[3] = Span[3] - 2 THEN v % Span[3] ELSE 0
    BY DEF BootMap
  <2> QED
    BY <2>1, BootDigits
<1>5. Entry4(v) = BootEntry(cr3, d) /\ d \in Indices /\ c \in Indices /\ b \in Indices
  BY <1>1, <1>2, <1>3 DEF Entry4
<1>6. \A q, e, i : e = Pointer(q) => Step(e, i) = table[q][i]
  BY EntryKinds DEF Step
<1>7. \A i : Step(Empty, i) = Empty
  BY EntryKinds DEF Step
<1> HIDE DEF d, c, b
<1>8. ASSUME Entry3(v) = Pointer(pd)
      PROVE  paging_virt_to_phys(v) = b * Entries + (v % Entries)
  <2>1. Entry2(v) = Huge(b * Entries)
    BY <1>1, <1>2, <1>5, <1>6, <1>8, BootEntries DEF Entry2, b
  <2>2. Entry2(v).huge /\ Entry2(v).page = b * Entries
    BY <2>1 DEF Huge
  <2> QED
    BY <2>2, TranslateIs
<1>9. ASSUME Entry3(v) = Empty
      PROVE  paging_virt_to_phys(v) = 0
  <2>1. Entry2(v) = Empty /\ Entry1(v) = Empty
    BY <1>7, <1>9 DEF Entry2, Entry1
  <2>2. ~Empty.huge /\ Empty.page = 0
    BY DEF Empty
  <2> QED
    BY <2>1, <2>2, TranslateIs
<1>10. CASE d = 0
  <2>1. Entry4(v) = Pointer(low)
    BY <1>2, <1>5, <1>10, BootEntries
  <2>2. Entry3(v) = BootEntry(low, c)
    BY <1>1, <1>2, <1>5, <1>6, <2>1 DEF Entry3, c
  <2>3. c = 0 => Entry3(v) = Pointer(pd)
    BY <1>2, <1>5, <2>2, BootEntries
  <2>4. c # 0 => Entry3(v) = Empty
    BY <1>2, <1>5, <2>2, BootEntries
  <2>5. d # Entries - 1
    BY <1>10, PagingAssumption
  <2> QED
    BY <1>4, <1>8, <1>9, <1>10, <2>3, <2>4, <2>5
<1>11. CASE d = Entries - 1
  <2>1. Entry4(v) = Pointer(high)
    BY <1>2, <1>5, <1>11, BootEntries
  <2>2. Entry3(v) = BootEntry(high, c)
    BY <1>1, <1>2, <1>5, <1>6, <2>1 DEF Entry3, c
  <2>3. c = Entries - 2 => Entry3(v) = Pointer(pd)
    BY <1>2, <1>5, <2>2, BootEntries
  <2>4. c # Entries - 2 => Entry3(v) = Empty
    BY <1>2, <1>5, <2>2, BootEntries
  <2>5. d # 0
    BY <1>11, PagingAssumption
  <2> QED
    BY <1>4, <1>8, <1>9, <1>11, <2>3, <2>4, <2>5
<1>12. CASE d # 0 /\ d # Entries - 1
  <2>1. Entry4(v) = Empty
    BY <1>2, <1>5, <1>12, BootEntries
  <2>2. Entry3(v) = Empty
    BY <1>7, <2>1 DEF Entry3
  <2> QED
    BY <1>4, <1>9, <1>12, <2>2
<1> QED
  BY <1>10, <1>11, <1>12

-----------------------------------------------------------------------------
(***************************************************************************)
(* The steps of a walk.                                                    *)
(***************************************************************************)

\* One step down the tables t.
Read(t, e, i) == IF e.present THEN t[e.page][i] ELSE Empty

\* The way to a page, before and after a step.
LEMMA WaysAre ==
    ASSUME NEW v
    PROVE  /\ Entry4(v) = table[cr3][Index(v, 4)]
           /\ Entry3(v) = Read(table, Entry4(v), Index(v, 3))
           /\ Entry2(v) = Read(table, Entry3(v), Index(v, 2))
           /\ Entry1(v) = Read(table, Entry2(v), Index(v, 1))
           /\ Entry4(v)' = table'[cr3][Index(v, 4)]
           /\ Entry3(v)' = Read(table', Entry4(v)', Index(v, 3))
           /\ Entry2(v)' = Read(table', Entry3(v)', Index(v, 2))
           /\ Entry1(v)' = Read(table', Entry2(v)', Index(v, 1))
           /\ paging_virt_to_phys(v)' =
                 IF Entry2(v)'.huge THEN Entry2(v)'.page + (v % Entries)
                 ELSE Entry1(v)'.page
<1>1. /\ Entry4(v) = table[cr3][Index(v, 4)]
      /\ Entry3(v) = Read(table, Entry4(v), Index(v, 3))
      /\ Entry2(v) = Read(table, Entry3(v), Index(v, 2))
      /\ Entry1(v) = Read(table, Entry2(v), Index(v, 1))
  BY Zenon DEF Entry1, Entry2, Entry3, Entry4, Step, Read
<1>2. Entry4(v)' = table'[cr3][Index(v, 4)]
  BY Zenon DEF Entry4, cr3, Index, Span
<1>3. Entry3(v)' = Read(table', Entry4(v)', Index(v, 3))
  BY Zenon DEF Entry3, Step, Read, Index, Span, Empty
<1>4. Entry2(v)' = Read(table', Entry3(v)', Index(v, 2))
  BY Zenon DEF Entry2, Step, Read, Index, Span, Empty
<1>5. Entry1(v)' = Read(table', Entry2(v)', Index(v, 1))
  BY Zenon DEF Entry1, Step, Read, Index, Span, Empty
<1>6. paging_virt_to_phys(v)' =
         IF Entry2(v)'.huge THEN Entry2(v)'.page + (v % Entries) ELSE Entry1(v)'.page
  BY Zenon DEF paging_virt_to_phys, Entry1, Entry2, Entry3, Entry4, Step, Index, Span,
               Empty, cr3
<1> QED
  BY <1>1, <1>2, <1>3, <1>4, <1>5, <1>6

LEMMA ReadIs ==
    /\ \A t, q, i : Read(t, Pointer(q), i) = t[q][i]
    /\ \A t, i : Read(t, Empty, i) = Empty
  BY EntryKinds DEF Read

\* Where the walk is, the entry it looks at is the one on the way to its page.
LEMMA HereIs ==
    ASSUME MemTypes, OnPath
    PROVE  /\ job.k = 4 => Here = Entry4(job.virt)
           /\ job.k = 3 => Here = Entry3(job.virt)
           /\ job.k = 2 => Here = Entry2(job.virt)
           /\ job.k = 1 => Here = Entry1(job.virt)
<1>1. /\ Entry4(job.virt) = table[cr3][Index(job.virt, 4)]
      /\ Entry3(job.virt) = Read(table, Entry4(job.virt), Index(job.virt, 3))
      /\ Entry2(job.virt) = Read(table, Entry3(job.virt), Index(job.virt, 2))
      /\ Entry1(job.virt) = Read(table, Entry2(job.virt), Index(job.virt, 1))
  BY Zenon DEF Entry1, Entry2, Entry3, Entry4, Step, Read
<1>2. job.k = 4 => Here = Entry4(job.virt)
  BY <1>1, Zenon DEF OnPath, Here
<1>3. job.k = 3 => Here = Entry3(job.virt)
  BY <1>1, ReadIs DEF OnPath, Here
<1>4. job.k = 2 => Here = Entry2(job.virt)
  BY <1>1, ReadIs DEF OnPath, Here
<1>5. job.k = 1 => Here = Entry1(job.virt)
  BY <1>1, ReadIs DEF OnPath, Here
<1> QED
  BY <1>2, <1>3, <1>4, <1>5

\* An entry that is not present ends the way, and the answer is 0.
LEMMA NowhereIsZero ==
    ASSUME NEW v, Entry4(v) = Empty \/ Entry3(v) = Empty \/ Entry2(v) = Empty
    PROVE  paging_virt_to_phys(v) = 0
<1>1. Entry3(v) = Empty \/ Entry2(v) = Empty
  BY WaysAre, ReadIs
<1>2. Entry2(v) = Empty
  BY <1>1, WaysAre, ReadIs
<1>3. Entry1(v) = Empty
  BY <1>2, WaysAre, ReadIs
<1>4. ~Empty.huge /\ Empty.page = 0
  BY DEF Empty
<1> QED
  BY <1>2, <1>3, <1>4, TranslateIs

\* The heap of a process begins in a huge page: no walk gets past it.
LEMMA HeapIsHuge ==
    ASSUME TreeInv, HugeInPd, BootKept
    PROVE  \A p : Entry2(HeapStart) # Pointer(p)
<1>1. HeapStart \in Nat /\ Index(HeapStart, 4) = 0 /\ Index(HeapStart, 3) = 0
  BY HeapDigits, TopDigit DEF HeapStart
<1>2. Entry4(HeapStart) = Pointer(BootTables["low"])
  BY <1>1, WaysAre DEF BootKept
<1>3. Entry3(HeapStart) = Pointer(pd)
  BY <1>1, <1>2, WaysAre, ReadIs DEF BootKept
<1>4. Entry2(HeapStart) = table[pd][Index(HeapStart, 2)]
  BY <1>3, WaysAre, ReadIs
<1>5. Index(HeapStart, 2) \in Indices
  BY <1>1, IndexType
<1> QED
  BY <1>4, <1>5, EntryKinds DEF HugeInPd

\* What the walk finds at an upper level.
LEMMA HereForms ==
    ASSUME MemTypes, TreeInv, HugeInPd, OnPath, job.k > 1
    PROVE  /\ ~Here.present => Here = Empty
           /\ Here.present /\ ~Here.huge => Here = Pointer(Here.page)
<1>1. job.virt \in Nat /\ job.k \in 2 .. 4
  BY DEF MemTypes
<1>2. \A e, k : Down(e, k) => /\ ~e.present => e = Empty
                              /\ e.present => e = Pointer(e.page)
  BY EntryKinds DEF Down
<1>3. \A q : Huge(q).present /\ Huge(q).huge
  BY EntryKinds
<1>4. /\ Down(Entry4(job.virt), 3) /\ Down(Entry3(job.virt), 2)
      /\ \/ Down(Entry2(job.virt), 1)
         \/ Entry2(job.virt) = Huge(Index(job.virt, 2) * Entries)
  BY <1>1, EntryForms
<1>5. Here = Entry4(job.virt) \/ Here = Entry3(job.virt) \/ Here = Entry2(job.virt)
  <2>1. job.k = 4 \/ job.k = 3 \/ job.k = 2
    BY <1>1
  <2> QED
    BY <2>1, HereIs
<1> QED
  BY <1>2, <1>3, <1>4, <1>5

-----------------------------------------------------------------------------
(***************************************************************************)
(* Every step keeps MapInv, and changes the translation as it should.      *)
(***************************************************************************)

Map == [v \in VPages |-> paging_virt_to_phys(v)]

\* Where the tables stay, so do the ways.
LEMMA SameWays ==
    ASSUME table' = table
    PROVE  /\ \A v : /\ Entry4(v)' = Entry4(v) /\ Entry3(v)' = Entry3(v)
                     /\ Entry2(v)' = Entry2(v)
           /\ Map' = Map
<1>1. ASSUME NEW v
      PROVE  /\ Entry4(v)' = Entry4(v) /\ Entry3(v)' = Entry3(v)
             /\ Entry2(v)' = Entry2(v)
             /\ paging_virt_to_phys(v)' = paging_virt_to_phys(v)
  <2>1. Entry4(v)' = Entry4(v)
    BY WaysAre, Zenon
  <2>2. Entry3(v)' = Entry3(v)
    BY <2>1, WaysAre, Zenon
  <2>3. Entry2(v)' = Entry2(v)
    BY <2>2, WaysAre, Zenon
  <2>4. Entry1(v)' = Entry1(v)
    BY <2>3, WaysAre, Zenon
  <2>5. paging_virt_to_phys(v)' = paging_virt_to_phys(v)
    BY <2>3, <2>4, WaysAre, TranslateIs, Zenon
  <2> QED
    BY <2>1, <2>2, <2>3, <2>5
<1>2. Map' = [v \in VPages |-> paging_virt_to_phys(v)']
  BY Zenon DEF Map, VPages, Span
<1>3. Map' = Map
  BY <1>1, <1>2, Zenon DEF Map
<1> QED
  BY <1>1, <1>3

LEMMA SameTables ==
    ASSUME HugeInPd, BootKept, UNCHANGED <<table, level>>
    PROVE  HugeInPd' /\ BootKept'
<1>1. HugeInPd'
  BY DEF HugeInPd, AllPages, Indices, Huge, pd
<1>2. BootKept'
  <2>1. /\ table'[cr3][0] = Pointer(BootTables["low"])
        /\ table'[BootTables["low"]][0] = Pointer(pd)
    BY DEF BootKept
  <2>2. \A t \in {"low", "high"}, a, b \in AllPages, i, j \in Indices :
           /\ level'[a] > 1 /\ table'[a][i] = Pointer(BootTables[t])
           /\ level'[b] > 1 /\ table'[b][j] = Pointer(BootTables[t])
           => a = b /\ i = j
    BY DEF BootKept, Points
  <2> QED
    BY <2>1, <2>2, Zenon DEF BootKept, Points, AllPages, Indices, Pointer, pd, cr3
<1> QED
  BY <1>1, <1>2

\* Steps of others.
LEMMA MapIdle ==
    ASSUME MapInv, UNCHANGED <<table, level, job>>,
           \A as \in spaces' : as \in spaces \/ as.heap_end = HeapStart
    PROVE  MapInv' /\ Map' = Map
<1>1. HugeInPd' /\ BootKept' /\ Map' = Map
  BY SameTables, SameWays DEF MapInv
<1>2. OnPath'
  <2>1. /\ Entry4(job.virt)' = Entry4(job.virt) /\ Entry3(job.virt)' = Entry3(job.virt)
        /\ Entry2(job.virt)' = Entry2(job.virt)
    BY DEF Entry4, Entry3, Entry2, Step, Index, Span, Empty, cr3
  <2> QED
    BY <2>1 DEF MapInv, OnPath, Pointer, cr3
<1>3. CallFits' /\ HeapsAtStart'
  BY DEF MapInv, CallFits, HeapsAtStart, HeapStart, NoJob, Span, cr3
<1> QED
  BY <1>1, <1>2, <1>3 DEF MapInv

\* A walk begins, or goes on, at the top.
LEMMA MapRestart ==
    ASSUME MapInv, UNCHANGED <<table, level>>, job'.k = 4, job'.at = cr3,
           CallFits', HeapsAtStart'
    PROVE  MapInv' /\ Map' = Map
<1>1. HugeInPd' /\ BootKept' /\ Map' = Map
  BY SameTables, SameWays DEF MapInv
<1>2. OnPath'
  BY DEF OnPath, cr3
<1> QED
  BY <1>1, <1>2 DEF MapInv

\* What is left of a call fits as the call did.
LEMMA NextFits ==
    ASSUME MemTypes, CallFits, HeapsAtStart, job.op \in {"map", "unmap"},
           ~(job.op = "map" /\ job.virt = HeapStart), job' = NextPage, spaces' = spaces
    PROVE  /\ CallFits' /\ HeapsAtStart' /\ job'.k = 4 /\ job'.at = cr3
           /\ job.virt \in VPages
<1>1. /\ job.op \in {"map", "unmap"} /\ job.phys \in Nat /\ job.left \in Nat \ {0}
      /\ job.virt + job.left <= Entries * Span[4] /\ job.virt \in Nat
  BY DEF CallFits, NoJob, MemTypes
<1>2. \A as \in spaces : as.heap_end = HeapStart
  BY DEF HeapsAtStart
<1>3. job'.k = 4 /\ job'.at = cr3
  BY DEF NextPage, NoJob, MemTypes
<1>4. Entries * Span[4] \in Nat
  BY SpanIs
<1>5. job.virt \in VPages
  BY <1>1, <1>4 DEF VPages
<1>6. CASE job.left = 1
  <2>1. job' = NoJob
    BY <1>6 DEF NextPage
  <2>2. CallFits'
    BY <2>1 DEF CallFits, NoJob, cr3
  <2> QED
    BY <1>2, <1>3, <1>5, <2>2 DEF HeapsAtStart, HeapStart
<1>7. CASE job.left # 1
  <2>1. /\ job'.op = job.op /\ job'.virt = job.virt + 1 /\ job'.phys = job.phys + 1
        /\ job'.left = job.left - 1
    BY <1>7 DEF NextPage, MemTypes
  <2>2. job'.virt + job'.left <= Entries * Span[4] /\ job'.left \in Nat \ {0}
        /\ job'.phys \in Nat
    BY <1>1, <1>4, <1>7, <2>1
  <2>3. CallFits'
    BY <1>1, <2>1, <2>2 DEF CallFits, Span
  <2> QED
    BY <1>2, <1>3, <1>5, <2>3 DEF HeapsAtStart, HeapStart
<1> QED
  BY <1>6, <1>7

\* A pointer that is followed leads to where the way leads.
LEMMA MapFollow ==
    ASSUME MemTypes, TreeInv, MapInv, follow
    PROVE  MapInv' /\ Map' = Map
<1>1. /\ job.k \in 2 .. 4 /\ Here = Pointer(Here.page)
      /\ UNCHANGED <<table, level, spaces>>
  BY HereForms DEF follow, MapInv, MemTypes
<1>2. /\ job'.k = job.k - 1 /\ job'.at = Here.page /\ job'.virt = job.virt
      /\ job'.op = job.op /\ job'.phys = job.phys /\ job'.left = job.left
  BY DEF follow, MemTypes
<1>3. HugeInPd' /\ BootKept' /\ Map' = Map
  BY <1>1, SameTables, SameWays DEF MapInv
<1>4. OnPath'
  <2> DEFINE v == job.virt
  <2>1. /\ job.k = 4 => Entry4(v) = Pointer(job'.at)
        /\ job.k = 3 => Entry3(v) = Pointer(job'.at)
        /\ job.k = 2 => Entry2(v) = Pointer(job'.at)
    BY <1>1, <1>2, HereIs DEF MapInv
  <2>2. /\ Entry4(job.virt)' = Entry4(v) /\ Entry3(job.virt)' = Entry3(v)
        /\ Entry2(job.virt)' = Entry2(v)
    BY <1>1, <1>2 DEF Entry4, Entry3, Entry2, Step, Index, Span, Empty, cr3
  <2>3. /\ job'.k = 3 => Entry4(job.virt)' = Pointer(job'.at)
        /\ job'.k = 2 => Entry3(job.virt)' = Pointer(job'.at)
        /\ job'.k = 1 => Entry2(job.virt)' = Pointer(job'.at)
        /\ job'.k # 4
    BY <1>1, <1>2, <2>1, <2>2
  <2> QED
    BY <2>3 DEF OnPath, Pointer
<1>5. CallFits' /\ HeapsAtStart'
  <2>1. job # NoJob
    BY DEF follow, Walking, NoJob
  <2> QED
    BY <1>1, <1>2, <2>1 DEF MapInv, CallFits, HeapsAtStart, HeapStart, Span
<1> QED
  BY <1>3, <1>4, <1>5 DEF MapInv

\* paging_unmap returns early: there was no translation to take away.
LEMMA MapNothing ==
    ASSUME MemTypes, TreeInv, MapInv, unmap_nothing
    PROVE  /\ MapInv' /\ Map' = Map
           /\ job.virt \in VPages /\ paging_virt_to_phys(job.virt) = 0
<1>1. /\ job.k \in 2 .. 4 /\ Here = Empty /\ UNCHANGED <<table, level, spaces>>
      /\ job.op = "unmap" /\ job' = NextPage
  BY HereForms DEF unmap_nothing, MapInv, MemTypes, Walking
<1>2. CallFits' /\ HeapsAtStart' /\ job'.k = 4 /\ job'.at = cr3 /\ job.virt \in VPages
  BY <1>1, NextFits DEF MapInv
<1>3. paging_virt_to_phys(job.virt) = 0
  <2> DEFINE v == job.virt
  <2>1. Entry4(v) = Empty \/ Entry3(v) = Empty \/ Entry2(v) = Empty
    <3>1. job.k = 4 \/ job.k = 3 \/ job.k = 2
      BY <1>1
    <3> QED
      BY <1>1, <3>1, HereIs DEF MapInv
  <2> HIDE DEF v
  <2>2. paging_virt_to_phys(v) = 0
    BY <2>1, NowhereIsZero
  <2> QED
    BY <2>2 DEF v
<1> QED
  BY <1>1, <1>2, <1>3, MapRestart

\* The boot tables are kept if their entries are and no table gains a pointer
\* to them.
LEMMA BootKeptNext ==
    ASSUME BootKept, table'[cr3][0] = table[cr3][0],
           table'[BootTables["low"]][0] = table[BootTables["low"]][0],
           \A t \in {"low", "high"}, a \in AllPages, i \in Indices :
              level'[a] > 1 /\ table'[a][i] = Pointer(BootTables[t])
                 => Points(a, i, BootTables[t])
    PROVE  BootKept'
<1>1. /\ table'[cr3][0] = Pointer(BootTables["low"])
      /\ table'[BootTables["low"]][0] = Pointer(pd)
  BY DEF BootKept
<1>2. \A t \in {"low", "high"}, a, b \in AllPages, i, j \in Indices :
         /\ level'[a] > 1 /\ table'[a][i] = Pointer(BootTables[t])
         /\ level'[b] > 1 /\ table'[b][j] = Pointer(BootTables[t])
         => a = b /\ i = j
  BY DEF BootKept
<1> QED
  BY <1>1, <1>2, Zenon DEF BootKept, Points, AllPages, Indices, Pointer, pd, cr3

\* What a store finds: an entry of the lowest level that only one page uses.
Stored(at, x, e) ==
    \A a \in AllPages, i \in Indices :
        table'[a][i] = IF a = at /\ i = x THEN e ELSE table[a][i]

LEMMA StoreWays ==
    ASSUME MemTypes, TreeInv, HugeInPd, NEW at \in AllPages, level[at] = 1,
           NEW x \in Indices, NEW e, Stored(at, x, e), NEW v \in Nat
    PROVE  /\ Entry4(v)' = Entry4(v) /\ Entry3(v)' = Entry3(v) /\ Entry2(v)' = Entry2(v)
           /\ \A q \in AllPages : Entry2(v) = Pointer(q) =>
                 /\ Entry1(v) = table[q][Index(v, 1)]
                 /\ Entry1(v)' = IF q = at /\ Index(v, 1) = x THEN e ELSE Entry1(v)
           /\ Entry2(v) = Empty => Entry1(v)' = Empty
<1>0. \A k \in 1 .. 4 : Index(v, k) \in Indices
  BY IndexType
<1>1. \A a \in AllPages, i \in Indices : level[a] > 1 => table'[a][i] = table[a][i]
  BY DEF Stored
<1>2. Entry4(v)' = Entry4(v)
  <2>1. cr3 \in AllPages /\ level[cr3] > 1
    BY BootPages DEF TreeInv, WalkInTable
  <2> QED
    BY <1>0, <1>1, <2>1, WaysAre
<1>3. ASSUME NEW f, NEW k \in 2 .. 3, Down(f, k), NEW i \in Indices
      PROVE  Read(table', f, i) = Read(table, f, i)
  <2>1. CASE f = Empty
    BY <2>1, ReadIs
  <2>2. ASSUME NEW q \in AllPages, f = Pointer(q), level[q] = k
        PROVE  Read(table', f, i) = Read(table, f, i)
    BY <1>1, <2>2, ReadIs
  <2> QED
    BY <1>3, <2>1, <2>2 DEF Down
<1>4. Down(Entry4(v), 3) /\ Down(Entry3(v), 2)
  BY EntryForms
<1>5. Entry3(v)' = Entry3(v)
  BY <1>0, <1>2, <1>3, <1>4, WaysAre
<1>6. Entry2(v)' = Entry2(v)
  BY <1>0, <1>3, <1>4, <1>5, WaysAre
<1>7. \A q \in AllPages : Entry2(v) = Pointer(q) =>
         /\ Entry1(v) = table[q][Index(v, 1)]
         /\ Entry1(v)' = IF q = at /\ Index(v, 1) = x THEN e ELSE Entry1(v)
  <2> SUFFICES ASSUME NEW q \in AllPages, Entry2(v) = Pointer(q)
               PROVE  /\ Entry1(v) = table[q][Index(v, 1)]
                      /\ Entry1(v)' = IF q = at /\ Index(v, 1) = x THEN e ELSE Entry1(v)
    OBVIOUS
  <2>1. Entry1(v) = table[q][Index(v, 1)]
    BY WaysAre, ReadIs
  <2>2. Entry1(v)' = table'[q][Index(v, 1)]
    BY <1>6, WaysAre, ReadIs
  <2> QED
    BY <1>0, <2>1, <2>2 DEF Stored
<1>8. Entry2(v) = Empty => Entry1(v)' = Empty
  BY <1>6, WaysAre, ReadIs
<1> QED
  BY <1>2, <1>5, <1>6, <1>7, <1>8

\* pt[pt_i] = ... changes the translation of its own page and of no other.
LEMMA MapStore ==
    ASSUME MemTypes, TreeInv, MapInv, store
    PROVE  /\ MapInv' /\ job.virt \in VPages
           /\ Map' = [Map EXCEPT ![job.virt] = IF job.op = "map" THEN job.phys ELSE 0]
<1> DEFINE at == job.at
           v == job.virt
           x == Index(v, 1)
           e == IF job.op = "map" THEN Pointer(job.phys) ELSE Empty
<1>1. /\ job.k = 1 /\ at \in AllPages /\ level[at] = 1 /\ v \in Nat /\ x \in Indices
      /\ Entry2(v) = Pointer(at) /\ job.op \in {"map", "unmap"}
  BY IndexType DEF store, Walking, MemTypes, TreeInv, WalkInTable, MapInv, OnPath
<1>2. /\ table' = [table EXCEPT ![at][x] = e] /\ level' = level
      /\ job' = NextPage /\ spaces' = spaces
  BY <1>1 DEF store, Put
<1>3. v # HeapStart
  BY <1>1, HeapIsHuge DEF MapInv
<1>4. CallFits' /\ HeapsAtStart' /\ job'.k = 4 /\ job'.at = cr3 /\ v \in VPages
  BY <1>1, <1>2, <1>3, NextFits DEF MapInv
<1>5. e.page = IF job.op = "map" THEN job.phys ELSE 0
  BY DEF Pointer, Empty
<1>6. ~e.huge
  BY EntryKinds
<1> HIDE DEF at, v, x, e
<1>7. Stored(at, x, e)
  BY <1>1, <1>2 DEF Stored, TreeInv, TreeTypes
<1>8. \A a \in AllPages, i \in Indices : level[a] > 1 => table'[a][i] = table[a][i]
  BY <1>1, <1>7 DEF Stored
<1>9. HugeInPd'
  <2>1. /\ level'[pd] = 2 /\ pd \in AllPages
        /\ \A i \in Indices : table'[pd][i] = Huge(i * Entries)
    BY <1>2, <1>8, BootPages DEF MapInv, HugeInPd
  <2>2. \A p \in AllPages, i \in Indices, q \in Nat :
           level'[p] > 1 /\ p # pd => table'[p][i] # Huge(q)
    BY <1>2, <1>8 DEF MapInv, HugeInPd
  <2> QED
    BY <2>1, <2>2, Zenon DEF HugeInPd, AllPages, Indices, Huge, pd
<1>10. BootKept'
  <2>1. 0 \in Indices
    BY PagingAssumption DEF Indices
  <2>2. level[cr3] > 1 /\ level[BootTables["low"]] > 1
    <3>1. level[cr3] = 4 /\ Points(cr3, 0, BootTables["low"])
      BY DEF TreeInv, WalkInTable, MapInv, BootKept, Points
    <3>2. level[BootTables["low"]] = 3
      BY <2>1, <3>1, BootPages, EntryKinds DEF TreeInv, Linked, Points
    <3> QED
      BY <3>1, <3>2
  <2> QED
    BY <1>2, <1>8, <2>1, <2>2, BootPages, BootKeptNext DEF MapInv, Points
<1>11. OnPath'
  BY <1>4 DEF OnPath, cr3
<1>12. MapInv'
  BY <1>4, <1>9, <1>10, <1>11 DEF MapInv
<1>13. ASSUME NEW w \in VPages
       PROVE  paging_virt_to_phys(w)' = IF w = v THEN e.page ELSE paging_virt_to_phys(w)
  <2>1. w \in Nat
    BY TopDigit
  <2>2. /\ Entry2(w)' = Entry2(w)
        /\ \A q \in AllPages : Entry2(w) = Pointer(q) =>
              Entry1(w)' = IF q = at /\ Index(w, 1) = x THEN e ELSE Entry1(w)
        /\ Entry2(w) = Empty => Entry1(w)' = Empty
    BY <1>1, <1>7, <2>1, StoreWays DEF MapInv
  <2>3. /\ paging_virt_to_phys(w)' = IF Entry2(w)'.huge THEN Entry2(w)'.page + (w % Entries)
                                     ELSE Entry1(w)'.page
        /\ paging_virt_to_phys(w) = IF Entry2(w).huge THEN Entry2(w).page + (w % Entries)
                                    ELSE Entry1(w).page
    BY WaysAre, TranslateIs, Zenon
  <2>4. \/ Entry2(w) = Empty
        \/ \E q \in AllPages : Entry2(w) = Pointer(q) /\ level[q] = 1
        \/ Entry2(w) = Huge(Index(w, 2) * Entries)
    BY <2>1, EntryForms DEF MapInv, Down
  <2>5. CASE Entry2(w) = Empty
    <3>1. w # v
      BY <1>1, <2>5, EntryKinds
    <3>2. Entry1(w) = Empty /\ Entry1(w)' = Empty
      BY <2>2, <2>5, WaysAre, ReadIs
    <3> QED
      BY <2>2, <2>3, <3>1, <3>2, Zenon
  <2>6. CASE Entry2(w) = Huge(Index(w, 2) * Entries)
    <3>1. w # v /\ Entry2(w).huge
      BY <1>1, <2>6, EntryKinds
    <3> QED
      BY <2>2, <2>3, <3>1, Zenon
  <2>7. ASSUME NEW q \in AllPages, Entry2(w) = Pointer(q), level[q] = 1
        PROVE  paging_virt_to_phys(w)' = IF w = v THEN e.page ELSE paging_virt_to_phys(w)
    <3>1. ~Entry2(w).huge
      BY <2>7, EntryKinds
    <3>2. w = v => q = at /\ Index(w, 1) = x
      BY <1>1, <2>7, EntryKinds DEF x
    <3>3. q = at /\ Index(w, 1) = x => w = v
      <4> SUFFICES ASSUME q = at, Index(w, 1) = x PROVE w = v
        OBVIOUS
      <4>1. Entry2(w) = Pointer(at) /\ Index(v, 1) = Index(w, 1)
        BY <2>7 DEF x
      <4> QED
        BY <1>1, <1>4, <4>1, OwnEntry DEF MapInv
    <3>4. Entry1(w)' = IF w = v THEN e ELSE Entry1(w)
      BY <2>2, <2>7, <3>2, <3>3
    <3> QED
      BY <2>2, <2>3, <3>1, <3>4, Zenon
  <2> QED
    BY <2>4, <2>5, <2>6, <2>7
<1>14. Map' = [w \in VPages |-> paging_virt_to_phys(w)']
  BY Zenon DEF Map, VPages, Span
<1>15. Map' = [Map EXCEPT ![v] = e.page]
  BY <1>4, <1>13, <1>14 DEF Map
<1> QED
  BY <1>4, <1>5, <1>12, <1>15 DEF v

\* A new table, in a page that was no table, all entries zero, hangs from an
\* entry that was empty.
Grown(at, x, first) ==
    \A a \in AllPages, i \in Indices :
        table'[a][i] = IF a = first THEN Empty
                       ELSE IF a = at /\ i = x THEN Pointer(first) ELSE table[a][i]

\* An entry on a way, before and after: the same, or the one that was filled.
Filled(e, f, first) == f = e \/ (e = Empty /\ f = Pointer(first))

LEMMA GrowStep ==
    ASSUME NEW at \in AllPages, NEW x \in Indices, NEW first \in AllPages, at # first,
           level[first] = 0, table[at][x] = Empty, Grown(at, x, first),
           NEW k \in 1 .. 3, NEW e, Down(e, k), NEW f, Filled(e, f, first), NEW i \in Indices
    PROVE  /\ Filled(Read(table, e, i), Read(table', f, i), first)
           /\ k # level[at] => Read(table', f, i) = Read(table, e, i)
<1>1. CASE e = Empty /\ f = Empty
  BY <1>1, ReadIs DEF Filled
<1>2. CASE e = Empty /\ f = Pointer(first)
  <2>1. Read(table', f, i) = Empty /\ Read(table, e, i) = Empty
    BY <1>2, ReadIs DEF Grown
  <2> QED
    BY <2>1 DEF Filled
<1>3. ASSUME NEW q \in AllPages, e = Pointer(q), level[q] = k
      PROVE  /\ Filled(Read(table, e, i), Read(table', f, i), first)
             /\ k # level[at] => Read(table', f, i) = Read(table, e, i)
  <2>1. f = e /\ q # first
    BY <1>3, EntryKinds DEF Filled
  <2>2. Read(table, e, i) = table[q][i] /\ Read(table', f, i) = table'[q][i]
    BY <1>3, <2>1, ReadIs
  <2>3. table'[q][i] = IF q = at /\ i = x THEN Pointer(first) ELSE table[q][i]
    BY <2>1 DEF Grown
  <2> QED
    BY <1>3, <2>2, <2>3 DEF Filled
<1> QED
  BY <1>1, <1>2, <1>3 DEF Down, Filled

\* get_or_create_table changes no translation.
LEMMA GrowWays ==
    ASSUME TreeInv, HugeInPd, NEW at \in AllPages, NEW x \in Indices, NEW first \in AllPages,
           at # first, level[first] = 0, level[at] \in 2 .. 4, table[at][x] = Empty,
           Grown(at, x, first), NEW v \in Nat
    PROVE  /\ Filled(Entry4(v), Entry4(v)', first) /\ Filled(Entry3(v), Entry3(v)', first)
           /\ Filled(Entry2(v), Entry2(v)', first)
           /\ paging_virt_to_phys(v)' = paging_virt_to_phys(v)
<1>0. \A k \in 1 .. 4 : Index(v, k) \in Indices
  BY IndexType
<1>1. Filled(Entry4(v), Entry4(v)', first)
  <2>1. cr3 \in AllPages /\ cr3 # first
    BY BootPages DEF TreeInv, WalkInTable
  <2>2. Entry4(v)' = table'[cr3][Index(v, 4)] /\ Entry4(v) = table[cr3][Index(v, 4)]
    BY WaysAre, Zenon
  <2> QED
    BY <1>0, <2>1, <2>2 DEF Grown, Filled
<1>2. Down(Entry4(v), 3) /\ Down(Entry3(v), 2)
  BY EntryForms
<1>3. Filled(Entry3(v), Entry3(v)', first)
  BY <1>0, <1>1, <1>2, WaysAre, GrowStep
<1>4. Filled(Entry2(v), Entry2(v)', first)
  BY <1>0, <1>2, <1>3, WaysAre, GrowStep
<1>5. /\ paging_virt_to_phys(v)' = IF Entry2(v)'.huge THEN Entry2(v)'.page + (v % Entries)
                                   ELSE Entry1(v)'.page
      /\ paging_virt_to_phys(v) = IF Entry2(v).huge THEN Entry2(v).page + (v % Entries)
                                  ELSE Entry1(v).page
  BY WaysAre, TranslateIs, Zenon
<1>6. CASE Down(Entry2(v), 1)
  <2>1. Entry1(v)' = Entry1(v)
    BY <1>0, <1>4, <1>6, WaysAre, GrowStep
  <2>2. ~Entry2(v).huge /\ ~Entry2(v)'.huge
    BY <1>4, <1>6, EntryKinds DEF Down, Filled
  <2> QED
    BY <1>1, <1>3, <1>4, <1>5, <2>1, <2>2, Zenon
<1>7. CASE Entry2(v) = Huge(Index(v, 2) * Entries)
  <2>1. Entry2(v)' = Entry2(v) /\ Entry2(v).huge
    BY <1>4, <1>7, EntryKinds DEF Filled
  <2> QED
    BY <1>1, <1>3, <1>4, <1>5, <2>1, Zenon
<1> QED
  BY <1>6, <1>7, EntryForms

LEMMA MapGrow ==
    ASSUME MemInv, MemTypes, Owned, TreeInv, MapInv, ~panicked, create_table
    PROVE  /\ MapInv' /\ Map' = Map
           /\ job'.op = job.op /\ job'.virt = job.virt
           /\ job'.phys = job.phys /\ job'.left = job.left
<1>1. pmm_alloc_pages(1) /\ job.k \in 2 .. 4
  BY DEF create_table, Walking, pmm_alloc_pages, MemTypes
<1>2. CASE panicked'
  <2>1. UNCHANGED <<table, level, job, spaces>>
    BY <1>2 DEF create_table, pagingVars
  <2> QED
    BY <2>1, MapIdle
<1>3. CASE ~panicked'
  <2>1. PICK first \in AllPages :
              /\ <<first, 1>> \notin held
              /\ first \notin UsedRegion(KernelBase, KernelSize)
              /\ Granted = first
    BY <1>1, <1>3, FreshGrant DEF MemInv
  <2>2. level[first] = 0 /\ first \notin Boots
    BY <2>1, BootTablesType DEF Owned, TablesOwned
  <2>0. PICK v \in Nat : v = job.virt
    BY DEF MemTypes
  <2> DEFINE x == Index(v, job.k)
             at == job.at
             k == job.k
  <2>3. /\ x \in Indices /\ at \in AllPages /\ level[at] = k /\ k \in 2 .. 4
        /\ at # first
    BY <1>1, <2>0, <2>2, IndexType DEF MemTypes, TreeInv, WalkInTable
  <2>4. Here = Empty /\ Here = table[at][x]
    BY <1>1, <2>0, HereForms DEF create_table, MapInv, Here
  <2>5. /\ table' = [[table EXCEPT ![at][x] = Pointer(first)]
                        EXCEPT ![first] = [i \in Indices |-> Empty]]
        /\ level' = [level EXCEPT ![first] = k - 1]
        /\ job' = [job EXCEPT !.k = @ - 1, !.at = first] /\ spaces' = spaces
    BY <1>3, <2>0, <2>1 DEF create_table, Put
  <2>6. /\ job'.at = first /\ job'.k = k - 1 /\ job'.virt = v
        /\ job'.op = job.op /\ job'.phys = job.phys /\ job'.left = job.left
    BY <2>0, <2>5 DEF MemTypes
  <2>7. \A a \in AllPages : level'[a] = IF a = first THEN k - 1 ELSE level[a]
    BY <2>5 DEF MemTypes
  <2>8. /\ k = 4 => at = cr3
        /\ k = 3 => Entry4(v) = Pointer(at)
        /\ k = 2 => Entry3(v) = Pointer(at)
    BY <2>0 DEF MapInv, OnPath
  <2>9. job # NoJob
    BY DEF create_table, Walking, NoJob
  <2>10. x = Index(v, k)
    OBVIOUS
  <2> HIDE DEF x, at, k
  <2>11. Grown(at, x, first)
    BY <2>3, <2>5 DEF TreeInv, TreeTypes, Grown
  <2>12. table[at][x] = Empty
    BY <2>4
  <2>13. \A w \in Nat :
            /\ Filled(Entry4(w), Entry4(w)', first) /\ Filled(Entry3(w), Entry3(w)', first)
            /\ paging_virt_to_phys(w)' = paging_virt_to_phys(w)
    BY <2>2, <2>3, <2>11, <2>12, GrowWays DEF MapInv
  <2>14. \A a \in AllPages, i \in Indices :
            a # first /\ table[a][i] # Empty => table'[a][i] = table[a][i]
    BY <2>11, <2>12 DEF Grown
  <2>15. \A a \in AllPages, i \in Indices : \A q : q # first /\ table'[a][i] = Pointer(q)
            => a # first /\ table[a][i] = Pointer(q)
    BY <2>11, EntryKinds DEF Grown
  <2>16. cr3 # first /\ pd # first /\ BootTables["low"] # first /\ BootTables["high"] # first
    BY <2>2, BootPages
  <2>17. HugeInPd'
    <3>1. level'[pd] = 2 /\ \A i \in Indices : table'[pd][i] = Huge(i * Entries)
      BY <2>7, <2>14, <2>16, BootPages, EntryKinds DEF MapInv, HugeInPd
    <3>2. \A p \in AllPages, i \in Indices, q \in Nat :
             level'[p] > 1 /\ p # pd => table'[p][i] # Huge(q)
      BY <2>7, <2>11, EntryKinds DEF MapInv, HugeInPd, Grown
    <3> QED
      BY <3>1, <3>2, Zenon DEF HugeInPd, AllPages, Indices, Huge, pd
  <2>18. BootKept'
    <3>1. 0 \in Indices
      BY PagingAssumption DEF Indices
    <3>2. /\ table'[cr3][0] = table[cr3][0]
          /\ table'[BootTables["low"]][0] = table[BootTables["low"]][0]
      BY <2>14, <2>16, <3>1, BootPages, EntryKinds DEF MapInv, BootKept
    <3>3. \A t \in {"low", "high"}, a \in AllPages, i \in Indices :
             level'[a] > 1 /\ table'[a][i] = Pointer(BootTables[t])
                => Points(a, i, BootTables[t])
      BY <2>7, <2>15, <2>16 DEF Points
    <3> QED
      BY <3>2, <3>3, BootKeptNext DEF MapInv
  <2>19. OnPath'
    <3>1. /\ Entry4(job.virt)' = Entry4(v)' /\ Entry3(job.virt)' = Entry3(v)'
          /\ Entry2(job.virt)' = Entry2(v)'
      BY <2>6 DEF Entry4, Entry3, Entry2, Step, Index, Span, Empty, cr3
    <3>2. table'[at][x] = Pointer(first)
      BY <2>3, <2>11 DEF Grown
    <3>3. x = Index(v, k)
      BY <2>10
    <3>4. k = 4 => Entry4(v)' = Pointer(first)
      BY <2>8, <3>2, <3>3, WaysAre
    <3>5. k = 3 => Entry3(v)' = Pointer(first)
      <4>1. k = 3 => Entry4(v)' = Pointer(at)
        BY <2>3, <2>8, <2>13, EntryKinds DEF Filled
      <4> QED
        BY <3>2, <3>3, <4>1, WaysAre, ReadIs
    <3>6. k = 2 => Entry2(v)' = Pointer(first)
      <4>1. k = 2 => Entry3(v)' = Pointer(at)
        BY <2>3, <2>8, <2>13, EntryKinds DEF Filled
      <4> QED
        BY <3>2, <3>3, <4>1, WaysAre, ReadIs
    <3>7. /\ job'.k = 3 => Entry4(job.virt)' = Pointer(job'.at)
          /\ job'.k = 2 => Entry3(job.virt)' = Pointer(job'.at)
          /\ job'.k = 1 => Entry2(job.virt)' = Pointer(job'.at)
          /\ job'.k # 4
      BY <2>3, <2>6, <3>1, <3>4, <3>5, <3>6
    <3> QED
      BY <3>7 DEF OnPath, Pointer
  <2>20. CallFits' /\ HeapsAtStart'
    BY <2>0, <2>5, <2>6, <2>9 DEF MapInv, CallFits, HeapsAtStart, HeapStart, Span
  <2>21. Map' = [w \in VPages |-> paging_virt_to_phys(w)']
    BY Zenon DEF Map, VPages, Span
  <2>22. \A w \in VPages : paging_virt_to_phys(w)' = paging_virt_to_phys(w)
    BY <2>13, TopDigit
  <2>23. Map' = Map
    BY <2>21, <2>22, Zenon DEF Map
  <2> QED
    BY <2>0, <2>6, <2>17, <2>18, <2>19, <2>20, <2>23 DEF MapInv
<1> QED
  BY <1>2, <1>3

-----------------------------------------------------------------------------
(***************************************************************************)
(* The translation is module AddressMap's.                                 *)
(***************************************************************************)

\* What AddressMap sees of a walk.
Seen(j) == [op |-> j.op, virt |-> j.virt, phys |-> j.phys, left |-> j.left]

\* A call begins.
LEMMA MapBegin ==
    ASSUME MapInv, job = NoJob, UNCHANGED <<table, level>>, NEW c, c \in Calls,
           job' = Start(c), c.left # 0, c.phys \in Nat,
           \/ c.virt + c.left <= Entries * Span[4] /\ spaces' = spaces
           \/ c.op = "map" /\ c.virt = HeapStart
    PROVE  MapInv' /\ Map' = Map /\ Seen(job)' = c
<1>1. /\ DOMAIN c = {"op", "virt", "phys", "left"} /\ c = Seen(c)
      /\ c.op \in {"map", "unmap"} /\ c.left \in Nat
  BY PagingAssumption, PmmAssumption DEF Calls, Seen
<1>2. /\ job'.op = c.op /\ job'.virt = c.virt /\ job'.phys = c.phys /\ job'.left = c.left
      /\ job'.k = 4 /\ job'.at = cr3
  BY DEF Start
<1>3. Seen(job)' = c
  BY <1>1, <1>2 DEF Seen
<1>4. CallFits'
  BY <1>1, <1>2 DEF CallFits, HeapStart, Span
<1>5. HeapsAtStart'
  BY <1>2 DEF MapInv, HeapsAtStart, NoJob, HeapStart
<1> QED
  BY <1>2, <1>3, <1>4, <1>5, MapRestart

\* What AddressMap sees of the next page.
LEMMA SeenNext ==
    ASSUME MemTypes, job.op \in {"map", "unmap"}, job' = NextPage
    PROVE  Seen(job)' = IF Seen(job).left = 1 THEN Translation!Done
                        ELSE [Seen(job) EXCEPT !.virt = @ + 1, !.phys = @ + 1, !.left = @ - 1]
<1>1. CASE job.left = 1
  BY <1>1 DEF NextPage, NoJob, Seen, Translation!Done
<1>2. CASE job.left # 1
  <2>1. /\ job'.op = job.op /\ job'.virt = job.virt + 1 /\ job'.phys = job.phys + 1
        /\ job'.left = job.left - 1
    BY <1>2 DEF NextPage, MemTypes
  <2>2. Seen(job)' = [op |-> job.op, virt |-> job.virt + 1, phys |-> job.phys + 1,
                      left |-> job.left - 1]
    BY <2>1 DEF Seen
  <2> QED
    BY <1>2, <2>2 DEF Seen
<1> QED
  BY <1>1, <1>2

\* The steps of AddressMap, in terms of Map and Seen.
LEMMA AbstractSteps ==
    /\ Map' = Map /\ Seen(job)' = Seen(job) => UNCHANGED Translation!avars
    /\ /\ Seen(job) = Translation!Done /\ Seen(job)' \in Calls /\ Map' = Map
       => Translation!Next
    /\ /\ Seen(job) # Translation!Done
       /\ Map' = [Map EXCEPT ![job.virt] = IF job.op = "map" THEN job.phys ELSE 0]
       /\ Seen(job)' = IF Seen(job).left = 1 THEN Translation!Done
                       ELSE [Seen(job) EXCEPT !.virt = @ + 1, !.phys = @ + 1, !.left = @ - 1]
       => Translation!Next
<1>1. Map' = Map /\ Seen(job)' = Seen(job) => UNCHANGED Translation!avars
  BY DEF Map, Seen, Translation!avars
<1>2. Seen(job) = Translation!Done /\ Seen(job)' \in Calls /\ Map' = Map => Translation!Next
  BY Zenon DEF Map, Seen, Translation!Next, Translation!Begin, Translation!Done
<1>3. /\ Seen(job) # Translation!Done
      /\ Map' = [Map EXCEPT ![job.virt] = IF job.op = "map" THEN job.phys ELSE 0]
      /\ Seen(job)' = IF Seen(job).left = 1 THEN Translation!Done
                      ELSE [Seen(job) EXCEPT !.virt = @ + 1, !.phys = @ + 1, !.left = @ - 1]
      => Translation!Next
  <2>1. Seen(job).virt = job.virt /\ Seen(job).op = job.op /\ Seen(job).phys = job.phys
    BY DEF Seen
  <2> SUFFICES ASSUME
         Seen(job) # Translation!Done,
         Map' = [Map EXCEPT ![Seen(job).virt] =
                    IF Seen(job).op = "map" THEN Seen(job).phys ELSE 0],
         Seen(job)' = IF Seen(job).left = 1 THEN Translation!Done
                      ELSE [Seen(job) EXCEPT !.virt = @ + 1, !.phys = @ + 1, !.left = @ - 1]
       PROVE Translation!Page
    BY <2>1, Zenon DEF Translation!Next
  <2> QED
    BY Zenon DEF Map, Seen, Translation!Page, Translation!Rest, Translation!Done
<1> QED
  BY <1>1, <1>2, <1>3

\* Every step of the kernel is a step of AddressMap or changes nothing it sees.
LEMMA MapStep ==
    ASSUME MemInv, MemTypes, Owned, TreeInv, MapInv, [MNext]_mvars
    PROVE  MapInv' /\ [Translation!Next]_(Translation!avars)
<1> DEFINE Goal == MapInv' /\ [Translation!Next]_(Translation!avars)
<1>0. ASSUME MapInv', Map' = Map, Seen(job)' = Seen(job)
      PROVE  Goal
  BY <1>0, AbstractSteps
<1>1. ASSUME UNCHANGED <<table, level, job>>,
             \A as \in spaces' : as \in spaces \/ as.heap_end = HeapStart
      PROVE  Goal
  <2>1. MapInv' /\ Map' = Map /\ Seen(job)' = Seen(job)
    BY <1>1, MapIdle DEF Seen
  <2> QED
    BY <1>0, <2>1
<1> HIDE DEF Goal
<1>2. ASSUME UNCHANGED mvars \/ Boot \/ (ShmNext /\ UNCHANGED pagingVars)
      PROVE  Goal
  BY <1>1, <1>2 DEF mvars, Boot, pagingVars
<1>3. ASSUME follow_huge \/ \E as \in spaces : \/ vmm_destroy_address_space(as)
                                               \/ vmm_switch_address_space(as)
      PROVE  Goal
  BY <1>1, <1>3 DEF follow_huge, vmm_destroy_address_space, vmm_switch_address_space,
                    pagingVars
<1>4. ASSUME vmm_create_address_space
      PROVE  Goal
  <2> DEFINE new == [pml4 |-> Granted, heap_end |-> 2 * Entries]
  <2>1. new.heap_end = HeapStart
    BY DEF HeapStart
  <2>2. spaces' \subseteq spaces \cup {new} /\ UNCHANGED <<table, level, job>>
    BY <1>4 DEF vmm_create_address_space
  <2> HIDE DEF new
  <2> QED
    BY <1>1, <2>1, <2>2
<1>5. ASSUME NEW c \in RangeCalls, range_call(c)
      PROVE  Goal
  <2>1. /\ job = NoJob /\ job' = Start(c) /\ UNCHANGED <<table, level, spaces>>
        /\ c \in Calls /\ c.left # 0 /\ c.phys \in Nat
        /\ c.virt + c.left <= Entries * Span[4]
    BY <1>5, PagingAssumption DEF range_call, Calls
  <2>2. MapInv' /\ Map' = Map /\ Seen(job)' = c
    BY <2>1, MapBegin
  <2>3. Seen(job) = Translation!Done
    BY <2>1 DEF Seen, NoJob, Translation!Done
  <2> QED
    BY <2>1, <2>2, <2>3, AbstractSteps DEF Goal
<1>6. ASSUME NEW as \in spaces, NEW n \in Requests, vmm_alloc_pages(as, n), ~panicked
      PROVE  Goal
  <2>1. CASE panicked'
    <3>1. UNCHANGED <<table, level, job, spaces>>
      BY <1>6, <2>1 DEF vmm_alloc_pages, pagingVars
    <3> QED
      BY <1>1, <3>1
  <2>2. CASE ~panicked'
    <3>1. pmm_alloc_pages(n) /\ n \in Nat /\ job = NoJob
      BY <1>6, PmmAssumption DEF vmm_alloc_pages
    <3>2. PICK first \in AllPages : n # 0 /\ Granted = first
      BY <1>6, <2>2, <3>1, FreshGrant DEF MemInv
    <3>3. as.heap_end = HeapStart
      BY <3>1 DEF MapInv, HeapsAtStart, NoJob
    <3> DEFINE c == [op |-> "map", virt |-> HeapStart, phys |-> first, left |-> n]
    <3>4. job' = Start(c) /\ UNCHANGED <<table, level>>
      BY <1>6, <2>2, <3>2, <3>3 DEF vmm_alloc_pages
    <3>5. /\ c \in Calls /\ c.left # 0 /\ c.phys \in Nat
          /\ c.op = "map" /\ c.virt = HeapStart
      BY <3>2, HeapDigits, PmmAssumption DEF Calls, HeapStart, AllPages
    <3> HIDE DEF c
    <3>6. MapInv' /\ Map' = Map /\ Seen(job)' = c
      BY <3>1, <3>4, <3>5, MapBegin
    <3>7. Seen(job) = Translation!Done
      BY <3>1 DEF Seen, NoJob, Translation!Done
    <3> QED
      BY <3>5, <3>6, <3>7, AbstractSteps DEF Goal
  <2> QED
    BY <2>1, <2>2
<1>7. ASSUME follow
      PROVE  Goal
  <2>1. Seen(job)' = Seen(job)
    <3>1. /\ job'.op = job.op /\ job'.virt = job.virt
          /\ job'.phys = job.phys /\ job'.left = job.left
      BY <1>7 DEF follow, MemTypes
    <3> QED
      BY <3>1 DEF Seen
  <2> QED
    BY <1>0, <1>7, <2>1, MapFollow
<1>8. ASSUME create_table, ~panicked
      PROVE  Goal
  <2>1. MapInv' /\ Map' = Map /\ Seen(job)' = Seen(job)
    BY <1>8, MapGrow DEF Seen
  <2> QED
    BY <1>0, <2>1
<1>9. ASSUME job.op \in {"map", "unmap"}, job' = NextPage, MapInv',
             Map' = [Map EXCEPT ![job.virt] = IF job.op = "map" THEN job.phys ELSE 0]
      PROVE  Goal
  <2>1. Seen(job) # Translation!Done
    BY <1>9 DEF Seen, Translation!Done
  <2> QED
    BY <1>9, <2>1, SeenNext, AbstractSteps DEF Goal
<1>10. ASSUME unmap_nothing
       PROVE  Goal
  <2>1. /\ MapInv' /\ Map' = Map
        /\ job.virt \in VPages /\ paging_virt_to_phys(job.virt) = 0
    BY <1>10, MapNothing
  <2>2. job.op = "unmap" /\ job' = NextPage
    BY <1>10 DEF unmap_nothing, Walking
  <2>3. Map' = [Map EXCEPT ![job.virt] = 0]
    BY <2>1 DEF Map
  <2> QED
    BY <1>9, <2>1, <2>2, <2>3
<1>11. ASSUME store
       PROVE  Goal
  <2>1. job.op \in {"map", "unmap"} /\ job' = NextPage
    BY <1>11 DEF store, Walking
  <2> QED
    BY <1>9, <1>11, <2>1, MapStore
<1>12. Goal
  BY <1>2, <1>3, <1>4, <1>5, <1>6, <1>7, <1>8, <1>10, <1>11, Zenon DEF MNext, PagingNext
<1> QED
  BY <1>12 DEF Goal

\* Four levels of tables implement a function from virtual pages to physical
\* ones, for every size of a table, memory map and sequence of calls: a range
\* call changes the translation of its own pages, one after another, and of no
\* other page; making a table, and whatever the other clients of the allocator
\* do between two steps of a walk, changes none.
THEOREM TablesTranslate == MSpec => MapSpec
<1>1. MInit => MapInv /\ Translation!Init
  <2> SUFFICES ASSUME MInit PROVE Translation!Init
    BY MapInit
  <2>1. job = NoJob
    BY DEF MInit, PagingInit
  <2>2. Seen(job) = Translation!Done
    BY <2>1 DEF Seen, NoJob, Translation!Done
  <2>3. Map = BootMap
    <3>1. \A v \in VPages : paging_virt_to_phys(v) = BootMap[v]
      BY BootTranslation
    <3> QED
      BY <3>1 DEF Map, BootMap
  <2> QED
    BY <2>2, <2>3, Zenon DEF Map, Seen, Translation!Init
<1> QED
  BY <1>1, ClaimsHold, TreeInit, TreeNext, MapStep, PTL
     DEF MSpec, MapSpec, Translation!Spec

=============================================================================
