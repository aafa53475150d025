------------------------------ MODULE ScullPriv ------------------------------
(***************************************************************************)
(* The per-terminal device (scull_full/impl/scull_priv.c): every terminal  *)
(* gets a scull_dev of its own, made on first open and kept on a list that *)
(* priv->lock protects.  The allocation happens with the lock held.        *)
(*                                                                         *)
(* The list is the sequence of the keys of its items in the order they     *)
(* were added; an item is named by its place in that order.  An open       *)
(* without a controlling terminal (-EINVAL) changes nothing.               *)
(***************************************************************************)
EXTENDS ScullUsers, Sequences

VARIABLES
  lock,          \* owner of priv->lock
  list,          \* keys of the list items
  key,           \* per process: the terminal it opened from
  private_data,  \* per process: the item of its open file, 0 for none
  pc

vars == <<lock, list, key, private_data, pc>>

Goto(p, l) == pc' = [pc EXCEPT ![p] = l]

(* init_scull_priv *)
Init ==
  /\ lock = Nobody
  /\ list = <<>>
  /\ key \in [Procs -> Keys]
  /\ private_data = [p \in Procs |-> 0]
  /\ pc = [p \in Procs |-> "closed"]

(* scull_priv_lookfor_device: the item found from the head of the list. *)
Found(k) == {i \in DOMAIN list : list[i] = k /\ \A j \in DOMAIN list : list[j] = k => j <= i}

(* Mutant: the lock is dropped for the allocation. *)
open_unlocked_alloc(p, k) ==
  /\ pc[p] = "closed" /\ lock = Nobody
  /\ key' = [key EXCEPT ![p] = k]
  /\ \/ /\ Found(k) # {}
        /\ \E i \in Found(k) : private_data' = [private_data EXCEPT ![p] = i]
        /\ Goto(p, "opening")
     \/ /\ Found(k) = {}
        /\ Goto(p, "alloc")
        /\ UNCHANGED private_data
  /\ UNCHANGED <<lock, list>>

(* Lock and search.  Found: unlock; otherwise allocate, with the lock held. *)
scull_priv_open(p, k) ==
  /\ pc[p] = "closed" /\ lock = Nobody
  /\ key' = [key EXCEPT ![p] = k]
  /\ \/ /\ Found(k) # {}
        /\ \E i \in Found(k) : private_data' = [private_data EXCEPT ![p] = i]
        /\ Goto(p, "opening")
        /\ UNCHANGED lock
     \/ /\ Found(k) = {}
        /\ lock' = p
        /\ Goto(p, "alloc")
        /\ UNCHANGED private_data
  /\ UNCHANGED list

(* kmalloc, list_add, unlock; or -ENOMEM. *)
scull_priv_lookfor_device(p) ==
  /\ pc[p] = "alloc"
  /\ lock' = Nobody
  /\ \/ /\ Len(list) < MaxItems
        /\ list' = Append(list, key[p])
        /\ private_data' = [private_data EXCEPT ![p] = Len(list')]
        /\ Goto(p, "opening")
     \/ /\ Goto(p, "closed")
        /\ UNCHANGED <<list, private_data>>
  /\ UNCHANGED key

(* scull_dev_open succeeds, or -ERESTARTSYS while it waits for the mutex. *)
scull_priv_dev_open(p) ==
  /\ pc[p] = "opening"
  /\ \/ Goto(p, "open") /\ UNCHANGED private_data
     \/ Goto(p, "closed") /\ private_data' = [private_data EXCEPT ![p] = 0]
  /\ UNCHANGED <<lock, list, key>>

scull_priv_release(p) ==
  /\ pc[p] = "open"
  /\ private_data' = [private_data EXCEPT ![p] = 0]
  /\ Goto(p, "closed")
  /\ UNCHANGED <<lock, list, key>>

(* Module unload: no file is open.  Free every item; a new load starts over. *)
clean_scull_priv ==
  /\ \A p \in Procs : pc[p] = "closed"
  /\ list' = <<>>
  /\ UNCHANGED <<lock, key, private_data, pc>>

Next ==
  \/ \E p \in Procs :
       \/ \E k \in Keys : scull_priv_open(p, k)
       \/ scull_priv_lookfor_device(p)
       \/ scull_priv_dev_open(p)
       \/ scull_priv_release(p)
  \/ clean_scull_priv

Spec == Init /\ [][Next]_vars
-----------------------------------------------------------------------------
(* Two open files share their storage exactly when they were opened from   *)
(* the same terminal, however the first opens of a terminal race; and an   *)
(* open file's storage is on the list.                                     *)
OneDevicePerTerminal ==
  \A p, q \in Procs :
    private_data[p] # 0 /\ private_data[q] # 0 =>
      /\ private_data[p] \in DOMAIN list
      /\ key[p] = key[q] <=> private_data[p] = private_data[q]
=============================================================================
