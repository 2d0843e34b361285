--------------------------- MODULE MCManagedHeap ---------------------------
(* A small instance of ManagedHeap: fewer addresses than allocations, so   *)
(* that freed addresses are handed out again.                              *)
EXTENDS ManagedHeap, TLC

AddressSymmetry == Permutations(Managed)
=============================================================================
