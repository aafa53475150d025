---------------------------- MODULE MCScullStores ----------------------------
(* Instances of ScullStores for TLC. *)
EXTENDS ScullStores, TLC

Symmetric == Permutations(Procs)
=============================================================================
