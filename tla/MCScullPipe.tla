----------------------------- MODULE MCScullPipe -----------------------------
(* Instances of ScullPipe and of ScullPipeDevice for TLC. *)
EXTENDS ScullPipeDevice, TLC

Symmetric == Permutations(Procs)
=============================================================================
