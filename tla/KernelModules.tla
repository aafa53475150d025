---------------------------- MODULE KernelModules ----------------------------
(***************************************************************************)
(* The RAM disk together with the loading and unloading of the modules of  *)
(* Load.  They share no state: a behaviour is one of sbull, or one of the  *)
(* loading of one of the others.  The network module, whose interfaces go  *)
(* down and come back while traffic flows, is loaded in SnullLoad.         *)
(***************************************************************************)
EXTENDS Sbull

VARIABLES
  driver, mpc, script, have, failed, bad   \* as in Load

loading == <<driver, mpc, script, have, failed, bad>>
allvars == <<vars, loading>>

Loading == INSTANCE Load

(* The variables of sbull when another module is loaded. *)
NoSbull == Init /\ build = CHOOSE b \in Builds : TRUE

(* The variables of Load when sbull is. *)
NoLoading ==
  /\ driver = "sbull" /\ mpc = "out" /\ script = <<>>
  /\ have = [r \in Loading!Resources |-> 0]
  /\ failed = {} /\ bad = FALSE

AllInit == (Init /\ NoLoading) \/ (NoSbull /\ Loading!Init)

AllNext ==
  \/ driver = "sbull" /\ Next /\ UNCHANGED loading
  \/ driver # "sbull" /\ Loading!Next /\ UNCHANGED vars

AllSpec == AllInit /\ [][AllNext]_allvars
-----------------------------------------------------------------------------
(* Whatever step of loading fails, the unwinding and the removal give back *)
(* each resource exactly once: a module that is out holds nothing, with    *)
(* the exceptions Load names.                                              *)
NothingLeftBehind == NothingLeaked /\ Loading!NothingLeaked

(* Nothing is released under what still uses it, and what a user can reach *)
(* is set up, with the exception Load names.                               *)
SetUpInOrder == ReleasedInOrder /\ Loading!ReachableIsReady
=============================================================================
