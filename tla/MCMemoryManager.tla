-------------------------- MODULE MCMemoryManager --------------------------
(***************************************************************************)
(* The memory manager for TLC: two mappings that overlap in part, and one  *)
(* that ends at the last address.  Who holds a segment of swap does not    *)
(* matter.                                                                 *)
(***************************************************************************)
EXTENDS MemoryManager

MCRegions ==
    {[vaddr |-> 2, paddr |-> 9, size |-> 4],
     [vaddr |-> 4, paddr |-> 1, size |-> 3],
     [vaddr |-> 12, paddr |-> 0, size |-> 4]}

HolderSymmetry == Permutations(Holders)
=============================================================================
