------------------------------- MODULE Paging -------------------------------
(***************************************************************************)
(* Virtual memory (kernel/mm/vmm.c) over the page allocator of Pmm: the    *)
(* tables boot.asm leaves, mapping and unmapping of ranges, address        *)
(* spaces.                                                                 *)
(*                                                                         *)
(* Addresses are page numbers.  A virtual page is four digits in base      *)
(* Entries: the indices into the four levels of tables.  Tables are        *)
(* identity mapped, so a table is its page.  get_or_create_table is one    *)
(* step, so other clients of the allocator act in between; one range call  *)
(* is served at a time.  Address spaces are created and never filled: the  *)
(* range functions ignore the one they are given and work on CR3.          *)
(***************************************************************************)
EXTENDS Pmm

CONSTANTS Entries,       \* PT_ENTRIES: 512
          BootTables,    \* pages of pml4_table, pdpt_low, pdpt_high, pd_table
          RangeCalls     \* requests: records op, virt, phys, left

\* The pages that one entry of a table at level 1 .. 4 stands for.
Span == <<1, Entries, Entries * Entries, Entries * Entries * Entries>>

ASSUME PagingAssumption ==
    /\ Entries \in Nat /\ Entries > 2
    /\ BootTables \in [{"pml4", "low", "high", "pd"} -> UsedRegion(KernelBase, KernelSize)]
    /\ \A s, t \in DOMAIN BootTables : s # t => BootTables[s] # BootTables[t]
    /\ RangeCalls \subseteq [op : {"map", "unmap"}, virt : Nat, phys : Nat, left : Nat \ {0}]
    \* a range ends with the address space, at the latest: 48 bits of address
    /\ \A c \in RangeCalls : c.virt + c.left <= Entries * Span[4]

VARIABLES table,     \* table[p][i]: entry i of the table in page p
          level,     \* level[p]: 4 for a PML4 .. 1 for a PT, 0 for no table
          job,       \* the range call being served: request, level, table
          spaces,    \* address spaces: [pml4, heap_end]
          smashed    \* pages written as if they were page tables

pagingVars == <<table, level, job, spaces, smashed>>

Indices == 0 .. Entries - 1
VPages == 0 .. Entries * Span[4] - 1

\* Entries: PTE_PRESENT, PTE_HUGE and PTE_ADDR.
Empty == [present |-> FALSE, huge |-> FALSE, page |-> 0]
Pointer(p) == [present |-> TRUE, huge |-> FALSE, page |-> p]
Huge(p) == [present |-> TRUE, huge |-> TRUE, page |-> p]

\* Fault: PD_IDX takes the bits of PDPT_IDX.
Index_overlap(v, k) ==
    IF k = 2 THEN (v \div Span[3]) % Entries ELSE (v \div Span[k]) % Entries

\* PT_IDX, PD_IDX, PDPT_IDX and PML4_IDX for k = 1 .. 4.
Index(v, k) == (v \div Span[k]) % Entries

cr3 == BootTables["pml4"]
NoJob == [op |-> "none", virt |-> 0, phys |-> 0, left |-> 0, k |-> 4, at |-> cr3]

\* boot.asm links the tables so that the first GiB is mapped by the huge pages
\* of pd_table twice, at 0 and in the high half: <<table, index, table>>.
BootLinks == {<<"pml4", 0, "low">>, <<"pml4", Entries - 1, "high">>,
              <<"low", 0, "pd">>, <<"high", Entries - 2, "pd">>}
BootLevel == [pml4 |-> 4, low |-> 3, high |-> 3, pd |-> 2]

BootEntry(p, i) ==
    LET links == {l \in BootLinks : BootTables[l[1]] = p /\ l[2] = i}
    IN  IF p = BootTables["pd"] THEN Huge(i * Entries)
        ELSE IF links = {} THEN Empty
        ELSE Pointer(BootTables[(CHOOSE l \in links : TRUE)[3]])

PagingInit ==
    /\ table = [p \in AllPages |-> [i \in Indices |-> BootEntry(p, i)]]
    /\ level = [p \in AllPages |->
                   IF \E t \in DOMAIN BootTables : BootTables[t] = p
                   THEN BootLevel[CHOOSE t \in DOMAIN BootTables : BootTables[t] = p]
                   ELSE 0]
    /\ job = NoJob
    /\ spaces = {}
    /\ smashed = {}

-----------------------------------------------------------------------------
(***************************************************************************)
(* Range calls.                                                            *)
(***************************************************************************)

\* The page the allocator has just handed out.
Granted == (CHOOSE e \in held' : e \notin held)[1]

Start(c) == [op |-> c.op, virt |-> c.virt, phys |-> c.phys, left |-> c.left,
             k |-> 4, at |-> cr3]

\* vmm_map_range and vmm_unmap_range are called.
range_call(c) ==
    /\ phase = "run" /\ job = NoJob
    /\ job' = Start(c)
    /\ UNCHANGED <<vars, table, level, spaces, smashed>>

\* offset += PAGE_SIZE.
NextPage ==
    IF job.left = 1 THEN NoJob
    ELSE [job EXCEPT !.virt = @ + 1, !.phys = @ + 1, !.left = @ - 1,
                     !.k = 4, !.at = cr3]

Here == table[job.at][Index(job.virt, job.k)]

\* Put entry e at the place the job has come to.
Put(e) == [table EXCEPT ![job.at][Index(job.virt, job.k)] = e]

Walking(op) == phase = "run" /\ job.op \in op

\* An entry that is present is followed.  The code does not look at PTE_HUGE.
follow ==
    /\ Walking({"map", "unmap"}) /\ job.k > 1
    /\ Here.present /\ ~Here.huge
    /\ job' = [job EXCEPT !.k = @ - 1, !.at = Here.page]
    /\ UNCHANGED <<vars, table, level, spaces, smashed>>

\* So the first page of a huge page is taken for a page table and one of its
\* words is overwritten; whatever was there is lost and the model ends.
follow_huge ==
    /\ Walking({"map", "unmap"}) /\ Here.huge
    /\ smashed' = smashed \cup {Here.page}
    /\ UNCHANGED <<vars, table, level, job, spaces>>

\* Fault: a table that is there already is not looked for.
create_table_always ==
    /\ Walking({"map"}) /\ job.k > 1 /\ ~Here.huge
    /\ alloc_page
    /\ \/ panicked' /\ UNCHANGED pagingVars
       \/ /\ ~panicked'
          /\ table' = [Put(Pointer(Granted)) EXCEPT ![Granted] = [i \in Indices |-> Empty]]
          /\ level' = [level EXCEPT ![Granted] = job.k - 1]
          /\ job' = [job EXCEPT !.k = @ - 1, !.at = Granted]
          /\ UNCHANGED <<spaces, smashed>>

\* get_or_create_table makes a table where there is none, all entries zero.
create_table ==
    /\ Walking({"map"}) /\ job.k > 1 /\ ~Here.present
    /\ alloc_page
    /\ \/ panicked' /\ UNCHANGED pagingVars
       \/ /\ ~panicked'
          /\ table' = [Put(Pointer(Granted)) EXCEPT ![Granted] = [i \in Indices |-> Empty]]
          /\ level' = [level EXCEPT ![Granted] = job.k - 1]
          /\ job' = [job EXCEPT !.k = @ - 1, !.at = Granted]
          /\ UNCHANGED <<spaces, smashed>>

\* paging_unmap returns early where there is none.
unmap_nothing ==
    /\ Walking({"unmap"}) /\ job.k > 1 /\ ~Here.present
    /\ job' = NextPage
    /\ UNCHANGED <<vars, table, level, spaces, smashed>>

\* pt[pt_i] = phys | flags, or 0; tlb_flush_page.
store ==
    /\ Walking({"map", "unmap"}) /\ job.k = 1
    /\ table' = Put(IF job.op = "map" THEN Pointer(job.phys) ELSE Empty)
    /\ job' = NextPage
    /\ UNCHANGED <<vars, level, spaces, smashed>>

\* paging_virt_to_phys, in pages: 0 when there is no mapping.
paging_virt_to_phys(v) ==
    LET e4 == table[cr3][Index(v, 4)]
        e3 == IF e4.present THEN table[e4.page][Index(v, 3)] ELSE Empty
        e2 == IF e3.present THEN table[e3.page][Index(v, 2)] ELSE Empty
        e1 == IF e2.present THEN table[e2.page][Index(v, 1)] ELSE Empty
    IN  IF e2.huge THEN e2.page + (v % Entries) ELSE e1.page

-----------------------------------------------------------------------------
(***************************************************************************)
(* Address spaces.                                                         *)
(***************************************************************************)

\* proc_create makes one per process: an empty PML4, the heap at 4 MiB.
vmm_create_address_space ==
    /\ phase = "run"
    /\ alloc_page
    /\ spaces' = IF panicked' THEN spaces
                 ELSE spaces \cup {[pml4 |-> Granted, heap_end |-> 2 * Entries]}
    /\ UNCHANGED <<table, level, job, smashed>>

vmm_destroy_address_space(as) ==
    /\ held' = held \ {<<as.pml4, 1>>}
    /\ release(as.pml4, 1)
    /\ spaces' = spaces \ {as}
    /\ UNCHANGED <<table, level, job, smashed>>

\* Loading CR3 with a PML4 that maps nothing: the next fetch faults.
vmm_switch_address_space(as) ==
    /\ as \in spaces
    /\ panic
    /\ UNCHANGED pagingVars

\* vmm_alloc_pages: memory, then its mapping at the end of the user heap.
vmm_alloc_pages(as, count) ==
    /\ job = NoJob
    /\ pmm_alloc_pages(count)
    /\ \/ panicked' /\ UNCHANGED pagingVars
       \/ /\ ~panicked'
          /\ job' = Start([op |-> "map", virt |-> as.heap_end,
                           phys |-> Granted, left |-> count])
          /\ spaces' = (spaces \ {as})
                \cup {[as EXCEPT !.heap_end = @ + count]}
          /\ UNCHANGED <<table, level, smashed>>

\* A range call, the walk of its pages, and address spaces.
PagingNext ==
    \/ \E c \in RangeCalls : range_call(c)
    \/ follow \/ follow_huge \/ create_table \/ unmap_nothing \/ store
    \/ vmm_create_address_space
    \/ \E as \in spaces :
          \/ vmm_destroy_address_space(as)
          \/ vmm_switch_address_space(as)
          \/ \E n \in Requests : vmm_alloc_pages(as, n)

-----------------------------------------------------------------------------
(***************************************************************************)
(* Properties, of every specification that takes these steps (Memory).     *)
(***************************************************************************)

\* The tables form a tree the allocator will not tear: a table made by
\* get_or_create_table is a page that stays allocated, exactly one entry, of
\* a table one level up, points to it, and a walk is always in a table of the
\* level it has come to, whatever is mapped, unmapped and freed meanwhile.
TableTree ==
    /\ level[job.at] = job.k
    /\ \A p \in AllPages : level[p] # 0 =>
          /\ phase = "run" => p \notin free
          /\ p \in {BootTables[t] : t \in DOMAIN BootTables}
             \/ /\ <<p, 1>> \in held
                /\ Cardinality({x \in AllPages \X Indices :
                      level[x[1]] > 1 /\ table[x[1]][x[2]] = Pointer(p)}) = 1
          /\ \A i \in Indices : level[p] > 1 /\ table[p][i] = Pointer(table[p][i].page)
                => level[table[p][i].page] = level[p] - 1

\* The translation boot.asm has set up, and the calls clients may make.
BootMap == [v \in VPages |->
               IF v < Span[3] \/ v \div Span[3] = Span[3] - 2
               THEN v % Span[3] ELSE 0]
Calls == RangeCalls
            \cup [op : {"map"}, virt : VPages, phys : AllPages, left : Requests]

\* Four levels of tables implement a function from virtual pages to physical
\* ones: a range call changes the translation of its own pages, in order, and
\* of no other, and making a table changes none.  (Once a huge page has been
\* taken for a table nothing is claimed.)
Translation == INSTANCE AddressMap
    WITH map  <- [v \in VPages |-> paging_virt_to_phys(v)],
         call <- [op |-> job.op, virt |-> job.virt, phys |-> job.phys,
                  left |-> job.left]
MapSpec == Translation!Spec

=============================================================================
