------------------------------- MODULE Memory -------------------------------
(***************************************************************************)
(* The page allocator with its clients: page tables and address spaces     *)
(* (Paging) and shared memory (Shm) take pages from one bitmap and give    *)
(* them back, each on its own account.                                     *)
(***************************************************************************)
EXTENDS Paging, Shm

mvars == <<vars, pagingVars, shmVars>>

MInit == Init /\ PagingInit /\ ShmInit

\* pmm_init, of which nothing is seen by the clients.
Boot ==
    /\ init_no_multiboot \/ init_entry \/ init_low \/ init_kernel
    /\ UNCHANGED <<pagingVars, shmVars>>

\* After a panic, or once a huge page was overwritten, nothing is claimed.
MNext ==
    /\ ~panicked /\ smashed = {}
    /\ \/ Boot
       \/ PagingNext /\ UNCHANGED shmVars
       \/ ShmNext /\ UNCHANGED pagingVars

MSpec == MInit /\ [][MNext]_mvars

\* Memory is shared by agreement only: a region that exists owns its extent,
\* and no page of it is a page table, the root of an address space or part of
\* another region, whatever was created and destroyed before.
Tables == {p \in AllPages : level[p] # 0} \cup {as.pml4 : as \in spaces}
PagesOf(id) == Extent(region[id].base, region[id].pages)
RegionsApart ==
    \A id \in Shmids : region[id].base # 0 =>
        /\ <<region[id].base, region[id].pages>> \in held
        /\ PagesOf(id) \cap (Tables \cup free) = {}
        /\ \A other \in Shmids \ {id} :
              region[other].base # 0 => PagesOf(id) \cap PagesOf(other) = {}

=============================================================================
