-------------------------------- MODULE Shm ---------------------------------
(***************************************************************************)
(* Shared memory regions (kernel/ipc/ipc.c): extents of the page allocator *)
(* under identifiers that are never used again.  Nothing is mapped: attach *)
(* returns the physical address and counts.                                *)
(***************************************************************************)
EXTENDS Pmm

CONSTANTS MaxSegs,     \* SHM_MAX_SEGS: 64
          ShmSizes,    \* sizes shm_create is called with, in bytes
          ShmMaxSize,  \* SHM_MAX_SIZE: 1 MiB
          MaxAttach    \* bound: clients attached to a region

ASSUME ShmAssumption ==
    /\ MaxSegs \in Nat /\ ShmMaxSize \in Nat /\ MaxAttach \in Nat
    /\ ShmSizes \subseteq Nat

VARIABLES region,      \* region[id]: phys_base and size in pages, ref_count
          next_shmid

shmVars == <<region, next_shmid>>

Shmids == 0 .. MaxSegs - 1

ShmInit ==
    /\ region = [id \in Shmids |-> [base |-> 0, pages |-> 0, refs |-> 0]]
    /\ next_shmid = 0

\* A request that is refused (no identifier left, too large, empty) changes
\* nothing; one that memory is short for ends in the allocator's panic.
shm_create(size) ==
    /\ next_shmid < MaxSegs
    /\ RoundUp(size) * PageSize <= ShmMaxSize
    /\ pmm_alloc_pages(RoundUp(size))
    /\ \/ panicked' /\ UNCHANGED shmVars
       \/ /\ ~panicked'
          /\ \E e \in held' \ held :
                region' = [region EXCEPT ![next_shmid] =
                              [base |-> e[1], pages |-> e[2], refs |-> 0]]
          /\ next_shmid' = next_shmid + 1

shm_attach(id) ==
    /\ region[id].base # 0
    /\ region[id].refs < MaxAttach
    /\ region' = [region EXCEPT ![id].refs = @ + 1]
    /\ UNCHANGED <<vars, next_shmid>>

shm_detach(id) ==
    /\ region[id].refs > 0
    /\ region' = [region EXCEPT ![id].refs = @ - 1]
    /\ UNCHANGED <<vars, next_shmid>>

\* Fault: the region keeps its address.
shm_destroy_keeps_base(id) ==
    /\ region[id].base # 0
    /\ held' = held \ {<<region[id].base, region[id].pages>>}
    /\ release(region[id].base, region[id].pages)
    /\ UNCHANGED shmVars

\* ref_count is neither looked at nor cleared.
shm_destroy(id) ==
    /\ region[id].base # 0
    /\ held' = held \ {<<region[id].base, region[id].pages>>}
    /\ release(region[id].base, region[id].pages)
    /\ region' = [region EXCEPT ![id].base = 0]
    /\ UNCHANGED next_shmid

ShmNext ==
    \/ \E size \in ShmSizes : shm_create(size)
    \/ \E id \in Shmids : shm_attach(id) \/ shm_detach(id) \/ shm_destroy(id)

=============================================================================
