------------------------------- MODULE ScullUid -------------------------------
(***************************************************************************)
(* The per-user device (scull_full/impl/scull_uid.c): many openings by one *)
(* user at a time; others are refused with -EBUSY (nothing changes).  A    *)
(* spinlock section is one action; scull_dev_open runs after the unlock.   *)
(* The storage is abstracted to the process that changed it last.          *)
(***************************************************************************)
EXTENDS ScullUsers

VARIABLES
  count, owner,
  pc,      \* per process: "closed", "opening" or "open"
  last,    \* who changed the storage last
  wrote    \* processes that changed it in their current opening

vars == <<count, owner, pc, last, wrote>>

Holders    == {p \in Procs : pc[p] # "closed"}
Goto(p, l) == pc' = [pc EXCEPT ![p] = l]
Owns(p)    == owner \in {uid[p], euid[p]} \/ p \in Capable

Init ==
  /\ count = 0
  /\ owner \in Uids
  /\ pc = [p \in Procs |-> "closed"]
  /\ last = Nobody
  /\ wrote = {}

(* Mutant: an opening by the superuser takes the device over. *)
uid_open_takeover(p) ==
  /\ pc[p] = "closed"
  /\ count = 0 \/ Owns(p)
  /\ owner' = uid[p]
  /\ count' = count + 1
  /\ Goto(p, "opening")
  /\ UNCHANGED <<last, wrote>>

(* Free, or the caller is the owner, did su to the owner, or is root. *)
scull_uid_open(p) ==
  /\ pc[p] = "closed"
  /\ count = 0 \/ Owns(p)
  /\ owner' = IF count = 0 THEN uid[p] ELSE owner
  /\ count' = count + 1
  /\ Goto(p, "opening")
  /\ UNCHANGED <<last, wrote>>

(* scull_dev_open: trim on a write-only opening, or -ERESTARTSYS. *)
scull_uid_dev_open(p, wronly) ==
  /\ pc[p] = "opening"
  /\ \/ /\ Goto(p, "open")
        /\ last' = IF wronly THEN p ELSE last
        /\ wrote' = IF wronly THEN wrote \cup {p} ELSE wrote
        /\ UNCHANGED count
     \/ /\ wronly
        /\ count' = count - 1
        /\ Goto(p, "closed")
        /\ UNCHANGED <<last, wrote>>
  /\ UNCHANGED owner

scull_uid_write(p) ==
  /\ pc[p] = "open"
  /\ last' = p
  /\ wrote' = wrote \cup {p}
  /\ UNCHANGED <<count, owner, pc>>

scull_uid_release(p) ==
  /\ pc[p] = "open"
  /\ count' = count - 1
  /\ wrote' = wrote \ {p}
  /\ Goto(p, "closed")
  /\ UNCHANGED <<owner, last>>

Next ==
  \E p \in Procs :
    \/ scull_uid_open(p)
    \/ \E wronly \in BOOLEAN : scull_uid_dev_open(p, wronly)
    \/ scull_uid_write(p)
    \/ scull_uid_release(p)

Spec == Init /\ [][Next]_vars
-----------------------------------------------------------------------------
(* count is the number of processes that have the device open or are about *)
(* to: after any mix of failed opens and releases a free device is free.   *)
CountExact == count = Cardinality(Holders)

(* Every process inside has the owner's uid or may override it.            *)
OneUserAtATime == \A p \in Holders : Owns(p)

(* What a process wrote is changed, while it has the device open, only by  *)
(* processes of the owner or with CAP_DAC_OVERRIDE.                        *)
NoForeignWrite == wrote # {} => last \in Procs /\ Owns(last)
=============================================================================
