----------------------------- MODULE MCVmMemory -----------------------------
(* Fewer cells than the program wants, so that addresses are reused under  *)
(* another kind as soon as a root is missed.                               *)
EXTENDS VmMemory, TLC

AddressSymmetry == Permutations(Cells)
=============================================================================
