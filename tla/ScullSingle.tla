----------------------------- MODULE ScullSingle -----------------------------
(***************************************************************************)
(* The single-open device (scull_full/impl/scull_single.c): an atomic      *)
(* counter, available, lets one process in at a time.                      *)
(*                                                                         *)
(* The atomic decrement and the increment that undoes it are two steps.    *)
(* The storage behind the device (ScullDev) is abstracted to the process   *)
(* that changed it last.                                                   *)
(***************************************************************************)
EXTENDS ScullUsers

VARIABLES
  available,    \* atomic_t
  pc,           \* per process: where it is
  last,         \* who changed the storage last
  wrote,        \* processes that changed it in their current opening
  refused_free  \* history: refused with -EBUSY although nobody had it open

vars == <<available, pc, last, wrote, refused_free>>

Holders == {p \in Procs : pc[p] \in {"opening", "open"}}
Goto(p, l) == pc' = [pc EXCEPT ![p] = l]

(* init_scull_single *)
Init ==
  /\ available = 1
  /\ pc = [p \in Procs |-> "closed"]
  /\ last = Nobody
  /\ wrote = {}
  /\ refused_free = {}

(* Mutant: test, then decrement, without an atomic operation. *)
open_taken_twice(p) ==
  /\ pc[p] = "closed"
  /\ available' = available - 1
  /\ Goto(p, IF available' <= 0 THEN "opening" ELSE "busy")
  /\ UNCHANGED <<last, wrote, refused_free>>

(* atomic_dec_and_test *)
scull_single_open(p) ==
  /\ pc[p] = "closed"
  /\ available' = available - 1
  /\ Goto(p, IF available' = 0 THEN "opening" ELSE "busy")
  /\ refused_free' = IF available' # 0 /\ Holders = {} THEN refused_free \cup {p}
                                                      ELSE refused_free
  /\ UNCHANGED <<last, wrote>>

(* Give the count back and return -EBUSY. *)
scull_single_open_busy(p) ==
  /\ pc[p] = "busy"
  /\ available' = available + 1
  /\ refused_free' = refused_free \ {p}
  /\ Goto(p, "closed")
  /\ UNCHANGED <<last, wrote>>

(* Mutant: the count is not given back. *)
open_fail_keeps(p, wronly) ==
  /\ pc[p] = "opening"
  /\ \/ /\ Goto(p, "open")
        /\ last' = IF wronly THEN p ELSE last
        /\ wrote' = IF wronly THEN wrote \cup {p} ELSE wrote
        /\ UNCHANGED available
     \/ /\ wronly
        /\ Goto(p, "closed")
        /\ UNCHANGED <<available, last, wrote>>
  /\ UNCHANGED refused_free

(* scull_dev_open: a write-only opening trims the storage, or fails with   *)
(* -ERESTARTSYS and gives the count back.                                  *)
scull_single_dev_open(p, wronly) ==
  /\ pc[p] = "opening"
  /\ \/ /\ Goto(p, "open")
        /\ last' = IF wronly THEN p ELSE last
        /\ wrote' = IF wronly THEN wrote \cup {p} ELSE wrote
        /\ UNCHANGED available
     \/ /\ wronly
        /\ available' = available + 1
        /\ Goto(p, "closed")
        /\ UNCHANGED <<last, wrote>>
  /\ UNCHANGED refused_free

scull_single_write(p) ==
  /\ pc[p] = "open"
  /\ last' = p
  /\ wrote' = wrote \cup {p}
  /\ UNCHANGED <<available, pc, refused_free>>

scull_single_release(p) ==
  /\ pc[p] = "open"
  /\ available' = available + 1
  /\ Goto(p, "closed")
  /\ wrote' = wrote \ {p}
  /\ UNCHANGED <<last, refused_free>>

Next ==
  \E p \in Procs :
    \/ scull_single_open(p)
    \/ scull_single_open_busy(p)
    \/ \E wronly \in BOOLEAN : scull_single_dev_open(p, wronly)
    \/ scull_single_write(p)
    \/ scull_single_release(p)

Spec == Init /\ [][Next]_vars
-----------------------------------------------------------------------------
(* What a process wrote in its opening is not changed by anyone else until *)
(* it closes the device: read returns the caller's own data.               *)
NoInterference == \A p \in wrote : pc[p] = "open" /\ last = p

(* The count is never lost: it is what the holders and the processes that  *)
(* have still to undo a decrement account for, so that the device can be   *)
(* opened again when they are gone.                                        *)
CountConserved ==
  available = 1 - Cardinality(Holders) - Cardinality({p \in Procs : pc[p] = "busy"})

(* "return -EBUSY; /* already open */": a refused process is refused       *)
(* because another one has the device open.                                *)
BusyMeansOpen == refused_free = {}
=============================================================================
