----------------------------- MODULE PmmProofs ------------------------------
(***************************************************************************)
(* The physical memory manager is safe for every memory map, page size and *)
(* request: types, the free-page counter and the ownership of pages.       *)
(***************************************************************************)
EXTENDS Pmm, FiniteSetTheorems, WellFoundedInduction, TLAPS

(***************************************************************************)
(* Lemmas about the operators.                                             *)
(***************************************************************************)

\* A non-empty set of naturals has a least element, and Least names it.
LEMMA LeastProperty ==
    ASSUME NEW S \in SUBSET Nat, S # {}
    PROVE  Least(S) \in S /\ \A y \in S : Least(S) <= y
<1>1. \E x \in S : \A y \in S : ~(<<y, x>> \in OpToRel(<, Nat))
  BY NatLessThanWellFounded, WFMin, Zenon
<1>2. PICK x \in S : \A y \in S : ~(<<y, x>> \in OpToRel(<, Nat))
  BY <1>1
<1>3. \A y \in S : ~(y < x)
  <2> TAKE y \in S
  <2>1. <<y, x>> \in Nat \X Nat
    OBVIOUS
  <2>2. y < x => <<y, x>> \in OpToRel(<, Nat)
    BY <2>1, Zenon DEF OpToRel
  <2> QED
    BY <1>2, <2>2
<1>4. \A y \in S : x <= y
  BY <1>3
<1> QED
  BY <1>4, Zenon DEF Least

\* Sets of pages are finite; so cardinalities are numbers.
LEMMA PagesFinite ==
    ASSUME NEW S \in SUBSET AllPages
    PROVE  IsFiniteSet(S) /\ Cardinality(S) \in Nat
<1>1. IsFiniteSet(AllPages)
  BY PmmAssumption, FS_Interval DEF AllPages
<1>2. IsFiniteSet(S)
  BY <1>1, FS_Subset
<1> QED
  BY <1>2, FS_CardinalityType

\* What adding disjoint pages and removing pages does to the number of pages.
LEMMA CardinalityAdd ==
    ASSUME NEW S \in SUBSET AllPages, NEW T \in SUBSET AllPages, S \cap T = {}
    PROVE  Cardinality(S \cup T) = Cardinality(S) + Cardinality(T)
<1>1. Cardinality(S \cup T) = Cardinality(S) + Cardinality(T) - Cardinality({})
  BY PagesFinite, FS_Union
<1> QED
  BY <1>1, PagesFinite, FS_EmptySet

\* Taking pages out of a set of pages takes out the ones that were in it.
LEMMA CardinalityRemove ==
    ASSUME NEW S \in SUBSET AllPages, NEW T
    PROVE  /\ Cardinality(S \ T) = Cardinality(S) - Cardinality(S \cap T)
           /\ Cardinality(S \cap T) <= Cardinality(S)
  BY PagesFinite, FS_Difference, FS_Intersection

\* A run of free pages is exactly as long as its count says.
LEMMA RunExtent ==
    ASSUME NEW S \in SUBSET AllPages, NEW first \in AllPages,
           NEW n \in Nat \ {0}, \A p \in first .. first + n - 1 : p \in S
    PROVE  Extent(first, n) \subseteq S /\ Cardinality(Extent(first, n)) = n
<1>1. Extent(first, n) = first .. first + n - 1
  BY PmmAssumption DEF Extent, AllPages
<1>2. Cardinality(first .. first + n - 1) = n
  BY PmmAssumption, FS_Interval DEF AllPages
<1> QED
  BY <1>1, <1>2

\* The pages an entry of the memory map contributes are pages of the bitmap.
LEMMA EntryPagesType ==
    ASSUME NEW k \in 1 .. Len(MemMap)
    PROVE  /\ MemMap[k].length \div PageSize \in Nat
           /\ EntryPages(k) \subseteq AllPages
<1> DEFINE Entries == [base : Nat, length : Nat, available : BOOLEAN]
<1>0. MemMap \in Seq(Entries)
  BY PmmAssumption
<1> HIDE DEF Entries
<1>1a. MemMap[k] \in Entries
  BY <1>0
<1> USE DEF Entries
<1>1. MemMap[k].base \in Nat /\ MemMap[k].length \in Nat
  BY <1>1a
<1> DEFINE start == MemMap[k].base \div PageSize
           cnt == MemMap[k].length \div PageSize
<1>2. \A n \in Nat : n \div PageSize \in Nat
  BY PmmAssumption
<1>3. start \in Nat /\ cnt \in Nat
  BY <1>1, <1>2
<1>4. EntryPages(k) = {p \in start .. start + cnt - 1 : p < MaxPages}
  BY DEF EntryPages
<1> HIDE DEF start, cnt
<1>5. EntryPages(k) \subseteq AllPages
  BY <1>3, <1>4, PmmAssumption DEF AllPages
<1> QED
  BY <1>3, <1>5 DEF cnt

-----------------------------------------------------------------------------
(***************************************************************************)
(* The inductive invariant.  While the memory map is being read, the free  *)
(* pages all come from entries already passed: that, with the disjointness *)
(* of the entries, is why the counter is exact.                            *)
(***************************************************************************)

FreeFromPastEntries ==
    phase = "map" => \A p \in free : \E k \in 1 .. entry - 1 :
                                        AvailableAt(k) /\ p \in EntryPages(k)

NothingHeldAtBoot == phase # "run" => held = {}

Inv == /\ TypeOK
       /\ CountExact
       /\ HeldSafe
       /\ FreeFromPastEntries
       /\ NothingHeldAtBoot

\* Before pmm_init everything is marked used and the counters are zero.
LEMMA InitInv == Init => Inv
<1> SUFFICES ASSUME Init PROVE Inv
  OBVIOUS
<1>1. Len(MemMap) \in Nat
  BY PmmAssumption
<1>2. TypeOK
  <2>1. entry \in 1 .. Len(MemMap) + 1 /\ hint \in 0 .. MaxPages
    BY <1>1, PmmAssumption DEF Init
  <2>2. freePages \in Nat /\ totalPages \in Nat
    BY DEF Init
  <2> QED
    BY <2>1, <2>2, Zenon DEF Init, TypeOK
<1>3. CountExact
  BY FS_EmptySet DEF Init, CountExact
<1>4. HeldSafe
  BY DEF Init, HeldSafe
<1>5. FreeFromPastEntries /\ NothingHeldAtBoot
  BY DEF Init, FreeFromPastEntries, NothingHeldAtBoot
<1> QED
  BY <1>2, <1>3, <1>4, <1>5 DEF Inv

\* pmm_init preserves the invariant.
LEMMA BootInv ==
    ASSUME Inv, ~panicked,
           init_no_multiboot \/ init_entry \/ init_low \/ init_kernel
    PROVE  Inv'
<1> USE DEF Inv
<1>0. Len(MemMap) \in Nat /\ free \in SUBSET AllPages
  BY PmmAssumption DEF TypeOK
<1>1. CASE init_no_multiboot
  BY <1>1 DEF init_no_multiboot, TypeOK, CountExact, HeldSafe,
              FreeFromPastEntries, NothingHeldAtBoot
<1>2. CASE init_entry
  <2>1. entry \in 1 .. Len(MemMap) /\ held = {} /\ phase = "map"
    BY <1>0, <1>2 DEF init_entry, TypeOK, NothingHeldAtBoot
  <2>2. EntryPages(entry) \in SUBSET AllPages
    BY <2>1, EntryPagesType
  <2>3. CASE AvailableAt(entry)
    <3>1. free \cap EntryPages(entry) = {}
      BY <1>0, <2>1, <2>3, MapAssumption DEF FreeFromPastEntries
    <3>2. /\ free' = free \cup EntryPages(entry)
          /\ freePages' = freePages + Cardinality(EntryPages(entry))
          /\ totalPages' = totalPages + Cardinality(EntryPages(entry))
          /\ entry' = entry + 1
          /\ UNCHANGED <<phase, hint, held, panicked>>
      BY <1>2, <2>3 DEF init_entry
    <3>3. CountExact'
      BY <1>0, <2>2, <3>1, <3>2, CardinalityAdd DEF CountExact
    <3>4. TypeOK'
      BY <1>0, <2>1, <2>2, <3>2, PagesFinite DEF TypeOK
    <3>5. HeldSafe' /\ NothingHeldAtBoot'
      BY <2>1, <3>2 DEF HeldSafe, NothingHeldAtBoot
    <3>6. FreeFromPastEntries'
      <4> SUFFICES ASSUME NEW p \in free'
                   PROVE  \E k \in 1 .. entry : AvailableAt(k) /\ p \in EntryPages(k)
        BY <2>1, <3>2 DEF FreeFromPastEntries
      <4>1. CASE p \in free
        BY <2>1, <4>1 DEF FreeFromPastEntries
      <4>2. CASE p \in EntryPages(entry)
        BY <2>1, <2>3, <4>2
      <4> QED
        BY <3>2, <4>1, <4>2
    <3> QED
      BY <3>3, <3>4, <3>5, <3>6
  <2>4. CASE ~AvailableAt(entry)
    <3>1. /\ totalPages' = totalPages + MemMap[entry].length \div PageSize
          /\ entry' = entry + 1
          /\ UNCHANGED <<phase, hint, held, panicked, free, freePages>>
      BY <1>2, <2>4 DEF init_entry
    <3>2. totalPages' \in Nat
      BY <2>1, <3>1, EntryPagesType DEF TypeOK
    <3>3. TypeOK'
      BY <1>0, <2>1, <3>1, <3>2 DEF TypeOK
    <3>4. CountExact' /\ HeldSafe' /\ NothingHeldAtBoot'
      BY <2>1, <3>1 DEF CountExact, HeldSafe, NothingHeldAtBoot
    <3>5. FreeFromPastEntries'
      BY <2>1, <3>1 DEF FreeFromPastEntries
    <3> QED
      BY <3>3, <3>4, <3>5
  <2> QED
    BY <2>3, <2>4
<1>3. CASE init_low
  <2> DEFINE low == Extent(0, LowPages)
  <2>1. /\ phase' = "low" /\ phase = "map"
        /\ free' = free \ low
        /\ freePages' = freePages - Cardinality(free \cap low)
        /\ UNCHANGED <<entry, totalPages, hint, held, panicked>>
    BY <1>3 DEF init_low, reserve
  <2>2. /\ Cardinality(free \ low) = Cardinality(free) - Cardinality(free \cap low)
        /\ Cardinality(free \cap low) <= Cardinality(free)
    BY <1>0, CardinalityRemove
  <2>3. Cardinality(free \cap low) \in Nat
    BY <1>0, PagesFinite
  <2>4. CountExact'
    BY <2>1, <2>2 DEF CountExact
  <2>5. TypeOK'
    BY <1>0, <2>1, <2>2, <2>3 DEF TypeOK, CountExact
  <2>6. HeldSafe' /\ FreeFromPastEntries' /\ NothingHeldAtBoot'
    BY <2>1 DEF HeldSafe, FreeFromPastEntries, NothingHeldAtBoot
  <2> QED
    BY <2>4, <2>5, <2>6
<1>4. CASE init_kernel
  <2> DEFINE taken == free \cap UsedRegion(KernelBase, KernelSize)
  <2>1. /\ phase = "low" /\ phase' = "run"
        /\ free' = free \ taken
        /\ freePages' = IF freePages > Cardinality(taken)
                        THEN freePages - Cardinality(taken) ELSE 0
        /\ UNCHANGED <<entry, totalPages, hint, held, panicked>>
    BY <1>4 DEF init_kernel, mark_used
  <2>2. free \cap taken = taken
    OBVIOUS
  <2>3. /\ Cardinality(free \ taken) = Cardinality(free) - Cardinality(taken)
        /\ Cardinality(taken) <= Cardinality(free)
    BY <1>0, <2>2, CardinalityRemove
  <2>4. Cardinality(taken) \in Nat
    BY <1>0, PagesFinite
  <2> HIDE DEF taken
  <2>5. CountExact'
    BY <2>1, <2>3, <2>4 DEF CountExact, TypeOK
  <2>6. TypeOK'
    BY <1>0, <2>1, <2>3, <2>4 DEF TypeOK, CountExact
  <2>7. HeldSafe' /\ FreeFromPastEntries' /\ NothingHeldAtBoot'
    BY <2>1 DEF HeldSafe, FreeFromPastEntries, NothingHeldAtBoot
  <2> QED
    BY <2>5, <2>6, <2>7
<1> QED
  BY <1>1, <1>2, <1>3, <1>4

\* Handing out a run of free pages preserves it, for the new owner included.
LEMMA GrantInv ==
    ASSUME Inv, phase = "run", NEW first \in AllPages, NEW n \in Nat \ {0},
           \A p \in first .. first + n - 1 : p \in free,
           grant(first, n), hint' \in 0 .. MaxPages
    PROVE  Inv'
<1> USE DEF Inv
<1> DEFINE X == Extent(first, n)
<1>0. free \in SUBSET AllPages /\ freePages \in Nat
  BY DEF TypeOK
<1>1. X \subseteq free /\ Cardinality(X) = n
  BY <1>0, RunExtent
<1>2. /\ free' = free \ X
      /\ freePages' = freePages - n
      /\ held' = held \cup {<<first, n>>}
      /\ UNCHANGED <<phase, entry, totalPages, panicked>>
  BY DEF grant
<1>3. /\ Cardinality(free \ X) = Cardinality(free) - Cardinality(free \cap X)
      /\ Cardinality(free \cap X) <= Cardinality(free)
      /\ free \cap X = X
  BY <1>0, <1>1, CardinalityRemove
<1>4. CountExact'
  BY <1>1, <1>2, <1>3 DEF CountExact
<1>5. TypeOK'
  <2>1. freePages' \in Nat
    <3>1. n <= freePages
      BY <1>1, <1>3 DEF CountExact
    <3> QED
      BY <1>0, <1>2, <3>1
  <2>2. held' \subseteq AllPages \X Nat
    <3>1. <<first, n>> \in AllPages \X Nat
      OBVIOUS
    <3>2. held \subseteq AllPages \X Nat
      BY DEF TypeOK
    <3> QED
      BY <1>2, <3>1, <3>2, Zenon
  <2>3. free' \subseteq AllPages
    BY <1>0, <1>2
  <2> QED
    BY <1>2, <2>1, <2>2, <2>3, Zenon DEF TypeOK, AllPages
<1>6. HeldSafe'
  <2>1. \A e \in held : Extent(e[1], e[2]) \cap free = {}
    BY DEF HeldSafe
  <2>2. \A e \in held : Extent(e[1], e[2]) \cap X = {}
    BY <1>1, <2>1
  <2>3. \A e \in held' : Extent(e[1], e[2]) = X \/ e \in held
    BY <1>2
  <2>4. \A e \in held' : Extent(e[1], e[2]) \cap free' = {}
    BY <1>2, <2>1, <2>3
  <2>5. ASSUME NEW d \in held', NEW e \in held', d # e
        PROVE  Extent(d[1], d[2]) \cap Extent(e[1], e[2]) = {}
    <3>1. CASE d \in held /\ e \in held
      BY <2>5, <3>1 DEF HeldSafe
    <3>2. CASE d \notin held
      <4>1. d = <<first, n>> /\ e \in held
        BY <1>2, <2>5, <3>2
      <4> QED
        BY <2>2, <4>1
    <3>3. CASE e \notin held
      <4>1. e = <<first, n>> /\ d \in held
        BY <1>2, <2>5, <3>3
      <4> QED
        BY <2>2, <4>1
    <3> QED
      BY <3>1, <3>2, <3>3
  <2> QED
    BY <2>4, <2>5 DEF HeldSafe, Extent, AllPages
<1>7. FreeFromPastEntries' /\ NothingHeldAtBoot'
  BY <1>2 DEF FreeFromPastEntries, NothingHeldAtBoot
<1> QED
  BY <1>4, <1>5, <1>6, <1>7

\* An allocation panics, and changes nothing else, or hands out a run of pages
\* that were all free, whichever of the two scans has found it.
LEMMA AllocGrants ==
    ASSUME Inv, NEW n \in Nat, pmm_alloc_pages(n)
    PROVE  \/ panic
           \/ \E first \in AllPages :
                 /\ n # 0 /\ grant(first, n) /\ hint' \in 0 .. MaxPages
                 /\ \A p \in first .. first + n - 1 : p \in free
<1> USE DEF Inv
<1>0. free \in SUBSET AllPages /\ free \in SUBSET Nat
  BY PmmAssumption DEF TypeOK, AllPages
<1>1. CASE panic
  BY <1>1
<1>2. CASE n = 1 /\ alloc_page /\ ~panic
  <2> DEFINE above == {p \in free : p >= hint}
             below == {p \in free : p < hint}
             page == IF above # {} THEN Least(above) ELSE Least(below)
  <2>1. above \cup below # {} /\ grant(page, 1) /\ hint' = page + 1
    BY <1>2 DEF alloc_page
  <2>2. page \in free
    <3>1. CASE above # {}
      BY <1>0, <3>1, LeastProperty
    <3>2. CASE above = {}
      BY <1>0, <2>1, <3>2, LeastProperty
    <3> QED
      BY <3>1, <3>2
  <2> HIDE DEF page
  <2>3. page \in AllPages /\ hint' \in 0 .. MaxPages
    BY <1>0, <2>1, <2>2, PmmAssumption DEF AllPages
  <2>4. \A p \in page .. page + 1 - 1 : p \in free
    BY <2>2, <2>3, PmmAssumption DEF AllPages
  <2> QED
    BY <1>2, <2>1, <2>3, <2>4
<1>3. CASE n > 1 /\ alloc_run(n) /\ ~panic
  <2>1. /\ Runs(n) # {}
        /\ grant(Least(Runs(n)), n)
        /\ hint' = hint
    BY <1>3 DEF alloc_run
  <2>2. Runs(n) \in SUBSET Nat
    BY PmmAssumption DEF Runs, AllPages
  <2>3. Least(Runs(n)) \in Runs(n)
    BY <2>1, <2>2, LeastProperty
  <2>4. n # 0 /\ hint' \in 0 .. MaxPages
    BY <1>3, <2>1 DEF TypeOK
  <2>5. PICK first \in AllPages : /\ first = Least(Runs(n))
                                 /\ \A p \in first .. first + n - 1 : p \in free
    BY <2>3 DEF Runs
  <2>6. grant(first, n)
    BY <2>1, <2>5
  <2> QED
    BY <2>4, <2>5, <2>6
<1> QED
  BY <1>1, <1>2, <1>3 DEF pmm_alloc_pages

\* Allocation preserves the invariant.
LEMMA AllocInv ==
    ASSUME Inv, NEW n \in Nat, pmm_alloc_pages(n)
    PROVE  Inv'
<1>1. CASE panic
  BY <1>1 DEF panic, Inv, TypeOK, CountExact, HeldSafe, FreeFromPastEntries,
              NothingHeldAtBoot
<1>2. CASE ~panic
  <2>1. PICK first \in AllPages :
                 /\ n # 0 /\ grant(first, n) /\ hint' \in 0 .. MaxPages
                 /\ \A p \in first .. first + n - 1 : p \in free
    BY <1>2, AllocGrants
  <2> QED
    BY <2>1, GrantInv DEF pmm_alloc_pages
<1> QED
  BY <1>1, <1>2

\* Freeing preserves it: pages that become free had no other owner.
LEMMA ReleaseInv ==
    ASSUME Inv, phase = "run", NEW first \in AllPages, NEW n \in Nat,
           release(first, n),
           held' \subseteq AllPages \X Nat,
           \A e \in held' : Extent(e[1], e[2]) \cap (free \cup Extent(first, n)) = {},
           \A d, e \in held' : d # e => Extent(d[1], d[2]) \cap Extent(e[1], e[2]) = {}
    PROVE  Inv'
<1> USE DEF Inv
<1> DEFINE freed == Extent(first, n) \ free
<1>0. /\ free \in SUBSET AllPages /\ freed \in SUBSET AllPages
      /\ free \cap freed = {}
  BY DEF TypeOK, Extent
<1>1. /\ free' = free \cup freed
      /\ freePages' = freePages + Cardinality(freed)
      /\ hint' = Least({hint} \cup freed)
      /\ UNCHANGED <<phase, entry, totalPages, panicked>>
  BY DEF release
<1> HIDE DEF freed
<1>2. CountExact'
  BY <1>0, <1>1, CardinalityAdd DEF CountExact
<1>3. hint' \in 0 .. MaxPages
  <2>1. {hint} \cup freed \in SUBSET (0 .. MaxPages)
    BY <1>0, PmmAssumption DEF TypeOK, AllPages
  <2>2. hint' \in {hint} \cup freed
    BY <1>1, <2>1, LeastProperty
  <2> QED
    BY <2>1, <2>2
<1>4. TypeOK'
  BY <1>0, <1>1, <1>3, PagesFinite DEF TypeOK
<1>5. HeldSafe'
  <2>1. \A e \in held' : Extent(e[1], e[2]) \cap free' = {}
    BY <1>1 DEF freed
  <2> QED
    BY <2>1 DEF HeldSafe, Extent, AllPages
<1>6. FreeFromPastEntries' /\ NothingHeldAtBoot'
  BY <1>1 DEF FreeFromPastEntries, NothingHeldAtBoot
<1> QED
  BY <1>2, <1>4, <1>5, <1>6

\* After a stale free an owner has his extent as it was, or single pages of it
\* that were not freed.
Remains(e, d, freed) ==
    /\ Extent(e[1], e[2]) \cap freed = {}
    /\ \/ e = d
       \/ /\ Extent(d[1], d[2]) \cap freed # {}
          /\ \E p \in Extent(d[1], d[2]) : e = <<p, 1>> /\ Extent(e[1], e[2]) = {p}

\* A page is an extent of one.
LEMMA OnePage ==
    ASSUME NEW p \in AllPages
    PROVE  Extent(p, 1) = {p}
  BY PmmAssumption DEF Extent, AllPages

\* What the owners have left after a stale free.
LEMMA StaleRemains ==
    ASSUME TypeOK, NEW first, NEW n, free_stale(first, n), NEW e \in held'
    PROVE  \E d \in held : Remains(e, d, Extent(first, n))
<1> DEFINE freed == Extent(first, n)
           robbed == {d \in held : Extent(d[1], d[2]) \cap freed # {}}
           rest == (UNION {Extent(d[1], d[2]) : d \in robbed}) \ freed
<1>1. e \in held \ robbed \/ \E p \in rest : e = <<p, 1>>
  BY DEF free_stale
<1> HIDE DEF freed
<1>2. CASE e \in held \ robbed
  BY <1>2 DEF Remains, freed
<1>3. ASSUME NEW p \in rest, e = <<p, 1>>
      PROVE  \E d \in held : Remains(e, d, freed)
  <2>1. PICK d \in robbed : p \in Extent(d[1], d[2])
    BY <1>3
  <2>2. p \notin freed /\ p \in AllPages
    BY <1>3, <2>1 DEF Extent
  <2>4. Extent(e[1], e[2]) = {p}
    BY <1>3, <2>2, OnePage
  <2>3. Remains(e, d, freed)
    BY <1>3, <2>1, <2>2, <2>4 DEF Remains
  <2> QED
    BY <2>1, <2>3
<1> QED
  BY <1>1, <1>2, <1>3 DEF freed

\* Every step preserves the invariant.
LEMMA NextInv == Inv /\ [Next]_vars => Inv'
<1> SUFFICES ASSUME Inv, [Next]_vars PROVE Inv'
  OBVIOUS
<1>1. CASE UNCHANGED vars
  BY <1>1 DEF vars, Inv, TypeOK, CountExact, HeldSafe, FreeFromPastEntries,
              NothingHeldAtBoot
<1>2. CASE ~panicked /\ (init_no_multiboot \/ init_entry \/ init_low \/ init_kernel)
  BY <1>2, BootInv
<1>3. ASSUME ~panicked, NEW n \in Requests, pmm_alloc_pages(n)
      PROVE  Inv'
  BY <1>3, AllocInv, PmmAssumption
<1>4. ASSUME NEW e \in held, pmm_free_pages(e)
      PROVE  Inv'
  <2>1. /\ e[1] \in AllPages /\ e[2] \in Nat
        /\ phase = "run" /\ held' = held \ {e} /\ release(e[1], e[2])
    BY <1>4 DEF pmm_free_pages, Inv, TypeOK
  <2>2. \A d \in held' : Extent(d[1], d[2]) \cap Extent(e[1], e[2]) = {}
    BY <2>1 DEF Inv, HeldSafe
  <2>3. /\ held' \subseteq AllPages \X Nat
        /\ \A d \in held' : Extent(d[1], d[2]) \cap free = {}
        /\ \A c, d \in held' : c # d => Extent(c[1], c[2]) \cap Extent(d[1], d[2]) = {}
    BY <2>1 DEF Inv, TypeOK, HeldSafe
  <2>4. \A d \in held' : Extent(d[1], d[2]) \cap (free \cup Extent(e[1], e[2])) = {}
    BY <2>2, <2>3
  <2> QED
    BY <2>1, <2>3, <2>4, ReleaseInv
<1>5. ASSUME NEW first \in AllPages, NEW n \in Requests, free_stale(first, n)
      PROVE  Inv'
  <2>1. phase = "run" /\ release(first, n) /\ n \in Nat
    BY <1>5, PmmAssumption DEF free_stale
  <2>2. \A e \in held' : \E d \in held : Remains(e, d, Extent(first, n))
    BY <1>5, StaleRemains DEF Inv
  <2>3. /\ held \subseteq AllPages \X Nat
        /\ \A d \in held : Extent(d[1], d[2]) \cap free = {}
        /\ \A c, d \in held : c # d => Extent(c[1], c[2]) \cap Extent(d[1], d[2]) = {}
    BY DEF Inv, TypeOK, HeldSafe
  <2>4. held' \subseteq AllPages \X Nat
    <3>1. \A d \in held : Extent(d[1], d[2]) \subseteq AllPages
      BY DEF Extent
    <3>2. \A p \in AllPages : <<p, 1>> \in AllPages \X Nat
      OBVIOUS
    <3> QED
      BY <2>2, <2>3, <3>1, <3>2 DEF Remains
  <2>5. \A e \in held' : Extent(e[1], e[2]) \cap (free \cup Extent(first, n)) = {}
    <3>1. ASSUME NEW e \in held', NEW d \in held, Remains(e, d, Extent(first, n))
          PROVE  Extent(e[1], e[2]) \cap free = {}
      BY <2>3, <3>1 DEF Remains
    <3>2. \A e \in held' : Extent(e[1], e[2]) \cap Extent(first, n) = {}
      BY <2>2 DEF Remains
    <3> QED
      BY <2>2, <3>1, <3>2
  <2>6. ASSUME NEW e1 \in held', NEW e2 \in held', e1 # e2
        PROVE  Extent(e1[1], e1[2]) \cap Extent(e2[1], e2[2]) = {}
    <3>1. PICK d1 \in held : Remains(e1, d1, Extent(first, n))
      BY <2>2
    <3>2. PICK d2 \in held : Remains(e2, d2, Extent(first, n))
      BY <2>2
    <3>3. CASE d1 # d2
      BY <2>3, <3>1, <3>2, <3>3 DEF Remains
    <3>4. CASE d1 = d2
      BY <2>6, <3>1, <3>2, <3>4 DEF Remains
    <3> QED
      BY <3>3, <3>4
  <2> QED
    BY <2>1, <2>4, <2>5, <2>6, ReleaseInv
<1>6. ASSUME NEW r \in Reclaims, pmm_mark_free(r[1], r[2])
      PROVE  Inv'
  <2> DEFINE freed == Extent(r[1] \div PageSize, r[2] \div PageSize) \ free
  <2>1. /\ phase = "run"
        /\ freed \cap HeldPages = {}
        /\ free' = free \cup freed
        /\ freePages' = freePages + Cardinality(freed)
        /\ UNCHANGED <<phase, entry, totalPages, hint, held, panicked>>
    BY <1>6 DEF pmm_mark_free
  <2>2. /\ free \in SUBSET AllPages /\ freed \in SUBSET AllPages
        /\ free \cap freed = {}
    BY DEF Inv, TypeOK, Extent
  <2> HIDE DEF freed
  <2>3. CountExact'
    BY <2>1, <2>2, CardinalityAdd DEF Inv, CountExact
  <2>4. TypeOK'
    BY <2>1, <2>2, PagesFinite DEF Inv, TypeOK
  <2>5. \A e \in held : Extent(e[1], e[2]) \cap freed = {}
    BY <2>1 DEF HeldPages
  <2>6. HeldSafe' /\ FreeFromPastEntries' /\ NothingHeldAtBoot'
    BY <2>1, <2>5 DEF Inv, HeldSafe, FreeFromPastEntries, NothingHeldAtBoot
  <2> QED
    BY <2>3, <2>4, <2>6 DEF Inv
<1> QED
  BY <1>1, <1>2, <1>3, <1>4, <1>5, <1>6 DEF Next

-----------------------------------------------------------------------------

\* The invariant holds throughout.
LEMMA InvHolds == Spec => []Inv
  BY InitInv, NextInv, PTL DEF Spec

\* Types are kept; no counter goes below zero.
THEOREM PmmTypes == Spec => []TypeOK
<1>1. Inv => TypeOK
  BY DEF Inv
<1> QED
  BY <1>1, InvHolds, PTL

\* pmm_free_phys_pages counts the zero bits of the bitmap, for every memory
\* map with disjoint entries, every reserved region and every sequence of
\* requests, frees, double frees and reclaims.
THEOREM CounterIsExact == Spec => []CountExact
<1>1. Inv => CountExact
  BY DEF Inv
<1> QED
  BY <1>1, InvHolds, PTL

\* No page has two owners or is free while owned, for the same machines and
\* the same sequences of calls.
THEOREM OwnersAreApart == Spec => []HeldSafe
<1>1. Inv => HeldSafe
  BY DEF Inv
<1> QED
  BY <1>1, InvHolds, PTL

-----------------------------------------------------------------------------
(***************************************************************************)
(* The panic.                                                              *)
(***************************************************************************)

\* A panic of pmm_alloc_pages means that no run of the length is free.
LEMMA PanicMeansOut ==
    ASSUME Inv, ~panicked, panicked', NEW n \in Requests \ {0}, pmm_alloc_pages(n),
           NEW first \in AllPages
    PROVE  ~(first .. first + n - 1 \subseteq free)
<1>0. n \in Nat /\ free \in SUBSET AllPages /\ first \in Int /\ hint \in Int
  BY PmmAssumption DEF Inv, TypeOK, AllPages
<1>1. \A page, count : ~grant(page, count)
  BY DEF grant
<1>2. CASE n = 1 /\ alloc_page
  <2>1. {p \in free : p >= hint} \cup {p \in free : p < hint} = {}
    BY <1>1, <1>2 DEF alloc_page
  <2>2. \A p \in free : p >= hint \/ p < hint
    BY <1>0 DEF AllPages
  <2>3. free = {}
    BY <2>1, <2>2
  <2>4. first \in first .. first + n - 1
    BY <1>0, <1>2
  <2> QED
    BY <2>3, <2>4
<1>3. CASE n > 1 /\ alloc_run(n)
  BY <1>1, <1>3 DEF alloc_run, Runs
<1> QED
  BY <1>2, <1>3 DEF pmm_alloc_pages

\* The allocator gives up only when memory is short: neither the hint nor the
\* wrap of the scan hides a run of free pages.
THEOREM PanicIsJustified == Spec => PanicOnlyWhenOut
<1>1. Inv /\ [Next]_vars
         => [panicked' /\ ~panicked
                => \A n \in Requests \ {0} : pmm_alloc_pages(n)
                      => \A first \in AllPages :
                            ~(first .. first + n - 1 \subseteq free)]_vars
  BY PanicMeansOut
<1> QED
  BY <1>1, InvHolds, PTL DEF Spec, PanicOnlyWhenOut

-----------------------------------------------------------------------------
(***************************************************************************)
(* The hint.                                                               *)
(***************************************************************************)

\* A hint that moves past the page it hands out passes no other free page.
LEMMA HintAlloc ==
    ASSUME Inv, HintIsLowerBound, alloc_page
    PROVE  HintIsLowerBound'
<1> DEFINE above == {p \in free : p >= hint}
           below == {p \in free : p < hint}
           page  == IF above # {} THEN Least(above) ELSE Least(below)
<1>0. free \in SUBSET Nat /\ hint \in Nat
  BY PmmAssumption DEF Inv, TypeOK, AllPages
<1>1. CASE panic
  BY <1>1 DEF panic, HintIsLowerBound
<1>2. CASE above \cup below # {} /\ grant(page, 1) /\ hint' = page + 1
  <2>1. page \in free /\ \A p \in free \ Reclaimable : page <= p
    <3>1. CASE above # {}
      <4>1. page \in above /\ \A p \in above : page <= p
        BY <1>0, <3>1, LeastProperty
      <4> QED
        BY <4>1 DEF HintIsLowerBound
    <3>2. CASE above = {}
      <4>1. page \in below /\ \A p \in below : page <= p
        BY <1>0, <1>2, <3>2, LeastProperty
      <4>2. \A p \in free : p \in below
        BY <1>0, <3>2
      <4> QED
        BY <4>1, <4>2
    <3> QED
      BY <3>1, <3>2
  <2> HIDE DEF page
  <2>2. page \in AllPages /\ page \in Extent(page, 1)
    BY <2>1, PmmAssumption DEF Inv, TypeOK, Extent, AllPages
  <2>3. free' \subseteq free /\ page \notin free'
    BY <1>2, <2>2 DEF grant
  <2> QED
    BY <1>0, <1>2, <2>1, <2>3 DEF HintIsLowerBound
<1> QED
  BY <1>1, <1>2 DEF alloc_page

\* pmm_free_page pulls the hint down to what it frees.
LEMMA HintRelease ==
    ASSUME Inv, HintIsLowerBound, NEW first, NEW n, release(first, n)
    PROVE  HintIsLowerBound'
<1> DEFINE freed == Extent(first, n) \ free
<1>1. free' = free \cup freed /\ hint' = Least({hint} \cup freed)
  BY DEF release
<1>2. {hint} \cup freed \in SUBSET Nat /\ free \in SUBSET Nat
  BY PmmAssumption DEF Inv, TypeOK, Extent, AllPages
<1> HIDE DEF freed
<1>3. hint' \in Nat /\ hint' <= hint /\ \A p \in freed : hint' <= p
  BY <1>1, <1>2, LeastProperty
<1> QED
  BY <1>1, <1>2, <1>3 DEF HintIsLowerBound

\* pmm_init does not move the hint: it adds free pages while the hint is 0.
HintAtBoot == phase # "run" => hint = 0

\* Every step keeps the hint below the free pages.
LEMMA HintNext ==
    ASSUME Inv, HintAtBoot, HintIsLowerBound, [Next]_vars
    PROVE  HintAtBoot' /\ HintIsLowerBound'
<1>1. ASSUME free' \subseteq free, hint' = hint
      PROVE  HintIsLowerBound'
  BY <1>1 DEF HintIsLowerBound
<1>2. ASSUME UNCHANGED vars
      PROVE  HintIsLowerBound'
  BY <1>1, <1>2 DEF vars
<1>3. ASSUME init_no_multiboot \/ init_low \/ init_kernel
      PROVE  HintIsLowerBound'
  BY <1>1, <1>3 DEF init_no_multiboot, init_low, reserve, init_kernel, mark_used
<1>4. ASSUME init_entry
      PROVE  HintIsLowerBound'
  <2>1. hint' = 0 /\ phase' = "map"
    BY <1>4 DEF init_entry, HintAtBoot
  <2>2. TypeOK'
    BY NextInv DEF Inv
  <2> QED
    BY <2>1, <2>2 DEF HintIsLowerBound, TypeOK, AllPages
<1>5. ASSUME NEW n \in Requests, pmm_alloc_pages(n)
      PROVE  HintIsLowerBound'
  BY <1>1, <1>5, HintAlloc DEF pmm_alloc_pages, alloc_run, panic, grant
<1>6. ASSUME NEW first, NEW n, release(first, n)
      PROVE  HintIsLowerBound'
  BY <1>6, HintRelease
<1>7. ASSUME NEW r \in Reclaims, pmm_mark_free(r[1], r[2])
      PROVE  HintIsLowerBound'
  <2>1. free' \subseteq free \cup Reclaimable /\ hint' = hint
    BY <1>7 DEF pmm_mark_free, Reclaimable
  <2> QED
    BY <2>1 DEF HintIsLowerBound
<1>8. HintIsLowerBound'
  BY <1>2, <1>3, <1>4, <1>5, <1>6, <1>7 DEF Next, pmm_free_pages, free_stale
<1>9. HintAtBoot'
  BY DEF HintAtBoot, Next, vars, init_no_multiboot, init_entry, init_low, reserve,
         init_kernel, mark_used, pmm_alloc_pages, alloc_page, alloc_run, panic, grant,
         pmm_free_pages, free_stale, release, pmm_mark_free
<1> QED
  BY <1>8, <1>9

\* No free page lies below pmm_last_free_hint, whatever is allocated and freed
\* in runs or singly; only pmm_mark_free may put one there.
THEOREM HintIsBelow == Spec => []HintIsLowerBound
<1>1. Init => HintAtBoot /\ HintIsLowerBound
  BY DEF Init, HintAtBoot, HintIsLowerBound
<1>2. Inv /\ HintAtBoot /\ HintIsLowerBound /\ [Next]_vars
         => HintAtBoot' /\ HintIsLowerBound'
  BY HintNext
<1> QED
  BY <1>1, <1>2, InvHolds, PTL DEF Spec

-----------------------------------------------------------------------------
(***************************************************************************)
(* Where pages come from.  Known are the pages the allocator can ever hand *)
(* out or take back: after pmm_init they only move between the bitmap and  *)
(* the clients, but for those pmm_mark_free brings in.                     *)
(***************************************************************************)

Known == free \cup HeldPages

\* An allocation hands out pages of the bitmap and no other.
LEMMA AllocMoves ==
    ASSUME Inv, NEW n \in Nat, pmm_alloc_pages(n)
    PROVE  Known' \subseteq Known
<1>1. CASE panic
  BY <1>1 DEF panic, Known, HeldPages, Extent, AllPages
<1>2. CASE ~panic
  <2>0. PICK first \in AllPages :
           /\ n # 0 /\ grant(first, n)
           /\ \A p \in first .. first + n - 1 : p \in free
    BY <1>2, AllocGrants
  <2>1. Extent(first, n) \subseteq free
    BY <2>0, RunExtent DEF Inv, TypeOK
  <2>2. HeldPages' \subseteq HeldPages \cup Extent(first, n)
    <3>1. \A e \in held' : e \in held \/ Extent(e[1], e[2]) = Extent(first, n)
      BY <2>0 DEF grant
    <3>2. \A p \in HeldPages' : \E e \in held' : p \in Extent(e[1], e[2])
      BY DEF HeldPages, Extent, AllPages
    <3>3. \A e \in held : Extent(e[1], e[2]) \subseteq HeldPages
      BY DEF HeldPages
    <3> QED
      BY <3>1, <3>2, <3>3
  <2> QED
    BY <2>0, <2>1, <2>2 DEF grant, Known
<1> QED
  BY <1>1, <1>2

\* What a client gives back it held.
LEMMA FreeMoves ==
    ASSUME NEW e \in held, held' = held \ {e}, release(e[1], e[2])
    PROVE  Known' \subseteq Known
<1>1. Extent(e[1], e[2]) \subseteq HeldPages /\ HeldPages' \subseteq HeldPages
  BY DEF HeldPages, Extent, AllPages
<1> QED
  BY <1>1 DEF release, Known

\* Allocation and release move pages between the bitmap and the clients.
LEMMA PagesOnlyMove ==
    ASSUME Inv, phase = "run", [Next]_vars
    PROVE  phase' = "run" /\ Known' \subseteq Known \cup Reclaimable
<1>0. phase' = "run"
  BY DEF Next, vars, init_no_multiboot, init_entry, init_low, init_kernel,
         pmm_alloc_pages, alloc_page, alloc_run, panic, grant,
         pmm_free_pages, free_stale, release, pmm_mark_free
<1>1. ASSUME UNCHANGED <<free, held>>
      PROVE  Known' \subseteq Known
  BY <1>1 DEF Known, HeldPages, Extent, AllPages
<1>3. ASSUME NEW n \in Requests, pmm_alloc_pages(n)
      PROVE  Known' \subseteq Known
  BY <1>3, AllocMoves, PmmAssumption
<1>4. ASSUME NEW e \in held, pmm_free_pages(e)
      PROVE  Known' \subseteq Known
  BY <1>4, FreeMoves DEF pmm_free_pages
<1>5. ASSUME NEW first \in AllPages, NEW n \in Requests, free_stale(first, n)
      PROVE  Known' \subseteq Known
  <2>1. /\ Extent(first, n) \subseteq Known
        /\ free' = free \cup (Extent(first, n) \ free)
    BY <1>5 DEF free_stale, release, Known
  <2>2. \A e \in held' : \E d \in held : Extent(e[1], e[2]) \subseteq Extent(d[1], d[2])
    BY <1>5, StaleRemains DEF Inv, Remains
  <2>3. \A p \in HeldPages' : \E e \in held' : p \in Extent(e[1], e[2])
    BY DEF HeldPages, Extent, AllPages
  <2>4. \A d \in held : Extent(d[1], d[2]) \subseteq HeldPages
    BY DEF HeldPages
  <2>5. HeldPages' \subseteq HeldPages
    BY <2>2, <2>3, <2>4
  <2> QED
    BY <2>1, <2>5 DEF Known
<1>6. ASSUME NEW r \in Reclaims, pmm_mark_free(r[1], r[2])
      PROVE  Known' \subseteq Known \cup Reclaimable
  <2>1. free' \subseteq free \cup Reclaimable
    BY <1>6 DEF pmm_mark_free, Reclaimable
  <2>2. HeldPages' = HeldPages
    BY <1>6 DEF pmm_mark_free, HeldPages, Extent, AllPages
  <2> QED
    BY <2>1, <2>2 DEF Known
<1>7. ~(init_no_multiboot \/ init_entry \/ init_low \/ init_kernel)
  BY DEF init_no_multiboot, init_entry, init_low, init_kernel
<1>8. Known' \subseteq Known \cup Reclaimable
  BY <1>1, <1>3, <1>4, <1>5, <1>6, <1>7 DEF Next, vars
<1> QED
  BY <1>0, <1>8

\* While pmm_init runs nothing is held, and what it reserves leaves the bitmap.
ReservedKept ==
    /\ phase = "low" => free \cap Extent(0, LowPages) = {}
    /\ phase = "run" => Known \cap Reserved \subseteq Reclaimable

\* What is reserved stays so, at boot and under the clients.
LEMMA ReservedNext ==
    ASSUME Inv, ReservedKept, [Next]_vars
    PROVE  ReservedKept'
<1>0. Reserved' = Reserved /\ Reclaimable' = Reclaimable
  BY DEF Reserved, Reclaimable
<1>1. CASE phase = "run"
  BY <1>0, <1>1, PagesOnlyMove DEF ReservedKept
<1>2. CASE init_no_multiboot
  <2>1. phase = "map" /\ free = {} /\ held = {}
    BY <1>2 DEF init_no_multiboot, Inv, FreeFromPastEntries, NothingHeldAtBoot
  <2> QED
    BY <1>2, <2>1 DEF init_no_multiboot, ReservedKept, Known, HeldPages
<1>3. CASE init_entry
  BY <1>3 DEF init_entry, ReservedKept
<1>4. CASE init_low
  BY <1>4 DEF init_low, reserve, ReservedKept
<1>5. CASE init_kernel
  <2>1. phase = "low" /\ held' = {}
    BY <1>5 DEF init_kernel, mark_used, Inv, NothingHeldAtBoot
  <2>2. HeldPages' = {}
    BY <2>1 DEF HeldPages
  <2>3. free' = free \ UsedRegion(KernelBase, KernelSize)
    BY <1>5 DEF init_kernel, mark_used
  <2>4. phase' = "run" /\ Known' \cap Reserved = {}
    BY <1>5, <2>1, <2>2, <2>3 DEF init_kernel, ReservedKept, Known, Reserved
  <2> QED
    BY <1>0, <2>4 DEF ReservedKept
<1>6. CASE UNCHANGED vars
  BY <1>6 DEF vars, ReservedKept, Known, HeldPages, Extent, AllPages
<1>7. phase # "run" => /\ held = {}
                       /\ \A n : ~pmm_alloc_pages(n)
                       /\ \A first, n : ~free_stale(first, n) /\ ~pmm_mark_free(first, n)
  BY DEF Inv, NothingHeldAtBoot, pmm_alloc_pages, free_stale, pmm_mark_free
<1> QED
  BY <1>1, <1>2, <1>3, <1>4, <1>5, <1>6, <1>7 DEF Next

\* The low memory and the kernel image are never handed out, for any map in
\* which they appear as available and any traffic, unless pmm_mark_free was
\* called for them.
THEOREM ReservedIsSafe == Spec => []ReservedNeverHeld
<1>1. Init => ReservedKept
  BY DEF Init, ReservedKept
<1>2. Inv /\ ReservedKept /\ [Next]_vars => ReservedKept'
  BY ReservedNext
<1>3. Inv /\ ReservedKept => ReservedNeverHeld
  BY DEF ReservedKept, ReservedNeverHeld, Known, Inv, NothingHeldAtBoot, HeldPages
<1> QED
  BY <1>1, <1>2, <1>3, InvHolds, PTL DEF Spec

-----------------------------------------------------------------------------
(***************************************************************************)
(* Free pages are memory.                                                  *)
(***************************************************************************)

\* Multiplication keeps the order of natural numbers and distributes.
LEMMA TimesOrder ==
    ASSUME NEW a \in Nat, NEW b \in Nat, NEW c \in Nat, a <= b
    PROVE  a * c <= b * c
<1>1. PICK d \in Nat : b = a + d
  <2>1. b - a \in Nat /\ b = a + (b - a)
    OBVIOUS
  <2> QED
    BY <2>1
<1>2. b * c = a * c + d * c /\ d * c \in Nat /\ a * c \in Nat
  BY <1>1
<1> QED
  BY <1>2

\* Integer division leaves less than it divides.
LEMMA DivBelow ==
    ASSUME NEW a \in Nat, NEW c \in Nat \ {0}
    PROVE  /\ a \div c \in Nat
           /\ (a \div c) * c <= a
           /\ a < (a \div c + 1) * c
<1>1. a = c * (a \div c) + (a % c) /\ a % c \in 0 .. c - 1 /\ a \div c \in Nat
  OBVIOUS
<1>2. /\ c * (a \div c) = (a \div c) * c /\ (a \div c) * c \in Nat
      /\ (a \div c + 1) * c = (a \div c) * c + c
  BY <1>1
<1> QED
  BY <1>1, <1>2

\* The pages of an available entry end in the entry, although neither its base
\* nor its length need be a number of pages.
LEMMA EntryEndsIn ==
    ASSUME NEW k \in 1 .. Len(MemMap), AvailableAt(k), NEW p \in EntryPages(k)
    PROVE  EndsIn(p, k)
<1> DEFINE base == MemMap[k].base
           length == MemMap[k].length
           start == base \div PageSize
           cnt == length \div PageSize
<1>1. base \in Nat /\ length \in Nat /\ PageSize \in Nat \ {0}
  <2> DEFINE Entries == [base : Nat, length : Nat, available : BOOLEAN]
  <2>1. MemMap \in Seq(Entries)
    BY PmmAssumption
  <2> HIDE DEF Entries
  <2>2. MemMap[k] \in Entries
    BY <2>1
  <2> QED
    BY <2>2, PmmAssumption DEF Entries
<1>3. p \in start .. start + cnt - 1
  BY DEF EntryPages
<1> HIDE DEF base, length
<1>4. /\ start \in Nat /\ cnt \in Nat /\ start * PageSize <= base
      /\ base < (start + 1) * PageSize /\ cnt * PageSize <= length
  BY <1>1, DivBelow
<1> HIDE DEF start, cnt
<1>5. p \in Nat /\ start <= p /\ p + 1 <= start + cnt
  BY <1>3, <1>4
<1>6. (start + 1) * PageSize <= (p + 1) * PageSize
  BY <1>1, <1>4, <1>5, TimesOrder
<1>7. (p + 1) * PageSize <= (start + cnt) * PageSize
  BY <1>1, <1>4, <1>5, TimesOrder
<1>8. (start + cnt) * PageSize = start * PageSize + cnt * PageSize
  BY <1>1, <1>4
<1>9. /\ cnt * PageSize \in Nat /\ (p + 1) * PageSize \in Nat
      /\ (start + 1) * PageSize \in Nat /\ start * PageSize \in Nat
  BY <1>1, <1>4, <1>5
<1>10. base < (p + 1) * PageSize /\ (p + 1) * PageSize <= base + length
  BY <1>1, <1>4, <1>6, <1>7, <1>8, <1>9
<1> QED
  BY <1>10 DEF EndsIn, base, length

Ram == Reclaimable \cup {p \in AllPages : \E k \in 1 .. Len(MemMap) : EndsIn(p, k)}

KnownIsRam == Known \subseteq Ram

\* Pages come from the map or from pmm_mark_free.
LEMMA KnownNext ==
    ASSUME Inv, KnownIsRam, [Next]_vars
    PROVE  KnownIsRam'
<1>0. Ram' = Ram
  BY DEF Ram, Reclaimable, EndsIn, AvailableAt, AllPages, Extent
<1>1. SUFFICES Known' \subseteq Ram
  BY <1>0 DEF KnownIsRam
<1>2. CASE phase = "run"
  BY <1>2, PagesOnlyMove DEF KnownIsRam, Ram
<1>3. CASE init_entry
  <2>1. held = {} /\ held' = {} /\ entry \in 1 .. Len(MemMap)
    BY <1>3, PmmAssumption DEF init_entry, Inv, NothingHeldAtBoot, TypeOK
  <2>2. Known' = free'
    BY <2>1 DEF Known, HeldPages
  <2>3. free \subseteq Ram
    BY DEF KnownIsRam, Known
  <2>4. CASE AvailableAt(entry)
    <3>1. EntryPages(entry) \subseteq AllPages
      BY NextInv, <1>3, <2>4 DEF init_entry, Inv, TypeOK
    <3>2. EntryPages(entry) \subseteq Ram
      BY <2>1, <2>4, <3>1, EntryEndsIn DEF Ram
    <3> QED
      BY <1>3, <2>2, <2>3, <2>4, <3>2 DEF init_entry
  <2>5. CASE ~AvailableAt(entry)
    BY <1>3, <2>2, <2>3, <2>5 DEF init_entry
  <2> QED
    BY <2>4, <2>5
<1>4. CASE init_no_multiboot \/ init_low \/ init_kernel \/ UNCHANGED vars
  <2>1. free' \subseteq free /\ held' = held
    BY <1>4 DEF init_no_multiboot, init_low, reserve, init_kernel, mark_used, vars
  <2>2. Known' \subseteq Known
    BY <2>1 DEF Known, HeldPages, Extent, AllPages
  <2> QED
    BY <2>2 DEF KnownIsRam
<1>5. phase # "run" => /\ held = {}
                       /\ \A n : ~pmm_alloc_pages(n)
                       /\ \A first, n : ~free_stale(first, n) /\ ~pmm_mark_free(first, n)
  BY DEF Inv, NothingHeldAtBoot, pmm_alloc_pages, free_stale, pmm_mark_free
<1> QED
  BY <1>2, <1>3, <1>4, <1>5 DEF Next

\* Whatever map the loader hands over: every page on the bitmap's free side,
\* but those pmm_mark_free returned, ends in available memory.
THEOREM FreePagesAreRam == Spec => []FreeEndsInRam
<1>1. Init => KnownIsRam
  BY DEF Init, KnownIsRam, Known, HeldPages
<1>2. Inv /\ KnownIsRam /\ [Next]_vars => KnownIsRam'
  BY KnownNext
<1>3. KnownIsRam => FreeEndsInRam
  BY DEF KnownIsRam, Ram, FreeEndsInRam, Known
<1> QED
  BY <1>1, <1>2, <1>3, InvHolds, PTL DEF Spec

=============================================================================
