----------------------------- MODULE MCSnullLoad -----------------------------
(* The life of the module with the configurations of MCSnull. *)
EXTENDS SnullLoad, MCSnull
=============================================================================
