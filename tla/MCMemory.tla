------------------------------ MODULE MCMemory ------------------------------
(***************************************************************************)
(* Tables of three entries; nine pages, of which the kernel image has     *)
(* four, all of them boot tables.  The calls map a range across two PTs, a *)
(* page under a PML4 entry of its own and a page of the identity map, and  *)
(* unmap a range of which one page at most is mapped.                      *)
(***************************************************************************)
EXTENDS Memory

FlatMap == <<[base |-> 0, length |-> 9, available |-> TRUE]>>

KernelTables == [t \in {"pml4", "low", "high", "pd"} |->
                    CASE t = "pml4" -> 1 [] t = "low" -> 2
                      [] t = "high" -> 3 [] t = "pd" -> 4]

Call(op, virt, phys, left) ==
    [op |-> op, virt |-> virt, phys |-> phys, left |-> left]

SmallCalls == {Call("map", 11, 5, 2), Call("map", 27, 8, 1),
               Call("unmap", 10, 0, 2), Call("map", 4, 5, 1)}

=============================================================================
