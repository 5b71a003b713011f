------------------------------- MODULE MCPmm --------------------------------
(***************************************************************************)
(* A small machine: pages of 4 bytes, a bitmap of 12 pages, two low pages, *)
(* a kernel image of one page and a half, and a map with an available      *)
(* entry that ends mid page, one that begins and ends mid page and one     *)
(* that runs past the end of the bitmap.                                   *)
(***************************************************************************)
EXTENDS Pmm

SmallMap == <<[base |-> 0,  length |-> 10, available |-> TRUE],
              [base |-> 10, length |-> 3,  available |-> FALSE],
              [base |-> 13, length |-> 16, available |-> TRUE],
              [base |-> 29, length |-> 3,  available |-> FALSE],
              [base |-> 32, length |-> 24, available |-> TRUE]>>

\* Returning the low page, and a region that is free or in use already.
SmallReclaims == {<<0, 4>>, <<20, 7>>}

=============================================================================
