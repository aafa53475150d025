-------------------------------- MODULE MCJiq --------------------------------
(* Interchangeable readers for TLC. *)
EXTENDS Jiq, TLC

Symmetric == Permutations(Procs)
=============================================================================
