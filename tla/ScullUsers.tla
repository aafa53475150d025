------------------------------ MODULE ScullUsers ------------------------------
(***************************************************************************)
(* Who uses the access-controlled devices (scull_full/impl): processes,    *)
(* their user ids, capabilities and terminals.                             *)
(***************************************************************************)
EXTENDS Integers, FiniteSets

CONSTANTS
  Procs,     \* processes
  Uids,      \* user ids
  uid,       \* current_uid() of each process
  euid,      \* its current_euid()
  Capable,   \* processes with CAP_DAC_OVERRIDE
  Nobody,    \* no process
  Keys,      \* terminals: tty_devnum()
  MaxItems   \* bound on the private devices ever made

ASSUME UsersAssumption ==
  /\ IsFiniteSet(Procs) /\ Nobody \notin Procs
  /\ uid \in [Procs -> Uids] /\ euid \in [Procs -> Uids]
  /\ Capable \subseteq Procs
  /\ MaxItems \in Nat
=============================================================================
