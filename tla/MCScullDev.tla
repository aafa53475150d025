------------------------------ MODULE MCScullDev ------------------------------
(* Instances of ScullDev for TLC. *)
EXTENDS ScullDev, TLC

Symmetric == Permutations(Procs)
=============================================================================
