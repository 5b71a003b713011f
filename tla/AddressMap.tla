----------------------------- MODULE AddressMap -----------------------------
(***************************************************************************)
(* What the range functions of kernel/mm/vmm.h promise ("Map a virtual     *)
(* range (all pages)"): a translation is a function of virtual pages, and  *)
(* a call changes the pages of its range, one after another, and no other  *)
(* page.  0 is the answer of vmm_virt_to_phys for a page with no mapping.  *)
(***************************************************************************)
EXTENDS Integers

CONSTANTS VPages,     \* virtual pages
          BootMap,    \* the translation the boot code has set up
          Calls       \* requests: records op, virt, phys, left

VARIABLES map,        \* translation of each virtual page
          call        \* what is left of the call being served

avars == <<map, call>>

Done == [op |-> "none", virt |-> 0, phys |-> 0, left |-> 0]

Init == map = BootMap /\ call = Done

Begin == call = Done /\ call' \in Calls /\ UNCHANGED map

\* The call goes on with the next page, or is over.
Rest == IF call.left = 1 THEN Done
        ELSE [call EXCEPT !.virt = @ + 1, !.phys = @ + 1, !.left = @ - 1]

Page ==
    /\ call # Done
    /\ map' = [map EXCEPT ![call.virt] = IF call.op = "map" THEN call.phys ELSE 0]
    /\ call' = Rest

Next == Begin \/ Page

Spec == Init /\ [][Next]_avars

=============================================================================
