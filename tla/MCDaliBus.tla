----------------------------- MODULE MCDaliBus ------------------------------
(* Instances of DaliBus, and of what dali_bus.h claims, for TLC. *)
EXTENDS DaliBusClaims, TLC
Symmetry == Permutations(Request)
=============================================================================
