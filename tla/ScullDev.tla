------------------------------- MODULE ScullDev -------------------------------
(***************************************************************************)
(* The scull memory device (scull_full/impl/scull_dev_common.c): a linked  *)
(* list of quantum sets, each an array of qset pointers to quanta of       *)
(* quantum bytes, behind open, read, write, ioctl and llseek.              *)
(*                                                                         *)
(* read, write and the trim of a write-only open hold dev->mutex from      *)
(* their first look at the device to their return, so each is one action,  *)
(* one disjunct per way out.  ioctl and llseek take no lock.               *)
(*                                                                         *)
(* A quantum is its bytes.  Each process has at most one opening; f_pos is *)
(* the position of that opening.                                           *)
(*                                                                         *)
(* The sizes set through ioctl are naturals here: a negative quantum makes *)
(* the index arithmetic undefined and is outside the model.                *)
(***************************************************************************)
EXTENDS ScullStorage

CONSTANT
  Private   \* the device is one of scull_priv_lookfor_device, not of construct_scull_dev

VARIABLES
  data,         \* the list of quantum sets
  size,         \* amount of data stored here
  quantum, qset,
  new_quantum, new_qset,  \* geometry the next trim installs
  oops,         \* a write divided by zero, and died holding the mutex
  opened,       \* processes that have the device open
  f_pos,        \* per process
  tmp,          \* per process: the old value in an exchange or shift, or NULL
  got           \* what the last call copied to user space

geometry == <<quantum, qset>>
future   == <<new_quantum, new_qset>>
vars     == <<data, size, quantum, qset, new_quantum, new_qset, oops, opened,
              f_pos, tmp, got>>
-----------------------------------------------------------------------------
(* construct_scull_dev; a private device is zeroed and trimmed instead. *)
Init ==
  /\ data = Free /\ size = 0
  /\ quantum = IF Private THEN 0 ELSE DEFAULT_SCULL_QUANTUM
  /\ qset = IF Private THEN 0 ELSE DEFAULT_SCULL_QSET
  /\ new_quantum = quantum /\ new_qset = qset
  /\ oops = FALSE
  /\ opened = {}
  /\ f_pos = [p \in Procs |-> 0]
  /\ tmp = [p \in Procs |-> NULL]
  /\ got = <<>>

(* Mutants: trim installs the geometry and leaves the list, or the size. *)
trim_keeps_list ==
  /\ data' = data
  /\ size' = 0
  /\ quantum' = new_quantum
  /\ qset' = new_qset

trim_keeps_size ==
  /\ data' = Free
  /\ quantum' = new_quantum
  /\ qset' = new_qset
  /\ UNCHANGED size

(* Free every quantum, array and item; install the new geometry. *)
scull_trim ==
  /\ data' = Free
  /\ size' = 0
  /\ quantum' = new_quantum
  /\ qset' = new_qset

(* scull_dev_open: a write-only opening trims the device.  A signal while  *)
(* waiting for the mutex fails the open: nothing happens.                  *)
scull_dev_open(p, wronly) ==
  /\ p \notin opened
  /\ opened' = opened \cup {p}
  /\ f_pos' = [f_pos EXCEPT ![p] = 0]
  /\ got' = <<>>
  /\ \/ wronly /\ ~oops /\ scull_trim
     \/ ~wronly /\ UNCHANGED <<data, size, geometry>>
  /\ UNCHANGED <<future, oops, tmp>>

scull_dev_release(p) ==
  /\ p \in opened /\ tmp[p] = NULL
  /\ opened' = opened \ {p}
  /\ f_pos' = [f_pos EXCEPT ![p] = 0]
  /\ got' = <<>>
  /\ UNCHANGED <<data, size, geometry, future, oops, tmp>>
-----------------------------------------------------------------------------
(* p may enter read or write and take the mutex: nobody died holding it. *)
CanLock(p) == p \in opened /\ tmp[p] = NULL /\ ~oops

(* At or past the end, or in a hole: 0 bytes. *)
scull_dev_read_none(p) ==
  /\ CanLock(p)
  /\ got' = <<>>
  /\ \/ f_pos[p] >= size /\ data' = data
     \/ f_pos[p] < size /\ data' \in Holes(data, geometry, f_pos[p])
  /\ UNCHANGED <<size, geometry, future, oops, opened, f_pos, tmp>>

(* Up to the end of the quantum, or -EFAULT. *)
scull_dev_read(p, n) ==
  /\ CanLock(p) /\ f_pos[p] < size
  /\ data' = scull_follow(data, item(geometry, f_pos[p]))
  /\ QuantumAt(data', geometry, f_pos[p]) # NULL
  /\ LET count == min(min(n, size - f_pos[p]), quantum - q_pos(geometry, f_pos[p]))
     IN \/ /\ got' = CopyOut(data', geometry, f_pos[p], count)
           /\ f_pos' = [f_pos EXCEPT ![p] = @ + count]
        \/ count > 0 /\ got' = <<>> /\ f_pos' = f_pos
  /\ UNCHANGED <<size, geometry, future, oops, opened, tmp>>

(* Mutant: the count is not cut at the end of the quantum. *)
WriteCount_uncut(p, s) == Len(s)

(* Write only up to the end of the quantum. *)
WriteCount(p, s) == min(Len(s), quantum - q_pos(geometry, f_pos[p]))

Writable(p) == Prepared(data, geometry, f_pos[p], FreshBytes(quantum))

scull_dev_write(p, s) ==
  /\ CanLock(p) /\ itemsize(geometry) # 0
  /\ data' = CopyIn(Writable(p), geometry, f_pos[p], s, WriteCount(p, s))
  /\ f_pos[p] + WriteCount(p, s) <= MaxPos
  /\ f_pos' = [f_pos EXCEPT ![p] = @ + WriteCount(p, s)]
  /\ size' = IF size < f_pos'[p] THEN f_pos'[p] ELSE size
  /\ got' = <<>>
  /\ UNCHANGED <<geometry, future, oops, opened, tmp>>

(* -EFAULT after a partial copy. *)
scull_dev_write_fault(p, s) ==
  /\ CanLock(p) /\ itemsize(geometry) # 0 /\ f_pos[p] < MaxPos
  /\ \E k \in 0 .. WriteCount(p, s) - 1 :
       data' = CopyIn(Writable(p), geometry, f_pos[p], s, k)
  /\ got' = <<>>
  /\ UNCHANGED <<size, geometry, future, oops, opened, f_pos, tmp>>

(* -ENOMEM: the list, the array or the quantum could not be allocated. *)
scull_dev_write_nomem(p) ==
  /\ CanLock(p) /\ itemsize(geometry) # 0 /\ f_pos[p] < MaxPos
  /\ data' \in NotPrepared(data, geometry, f_pos[p])
  /\ got' = <<>>
  /\ UNCHANGED <<size, geometry, future, oops, opened, f_pos, tmp>>

(* item = f_pos / itemsize with itemsize 0: the process dies in the        *)
(* critical section.                                                       *)
scull_dev_write_oops(p) ==
  /\ CanLock(p) /\ itemsize(geometry) = 0
  /\ oops' = TRUE
  /\ opened' = opened \ {p}
  /\ f_pos' = [f_pos EXCEPT ![p] = 0]
  /\ got' = <<>>
  /\ UNCHANGED <<data, size, geometry, future, tmp>>
-----------------------------------------------------------------------------
(***************************************************************************)
(* scull_dev_ioctl, by an administrator.  The Get and Query commands, the  *)
(* QSET commands (-ENOTTY) and the refusals change nothing.  No lock.      *)
(***************************************************************************)
scull_dev_ioctl_reset(p) ==
  /\ p \in opened /\ tmp[p] = NULL
  /\ new_quantum' = DEFAULT_SCULL_QUANTUM
  /\ new_qset' = DEFAULT_SCULL_QSET
  /\ got' = <<>>
  /\ UNCHANGED <<data, size, geometry, oops, opened, f_pos, tmp>>

(* Set and Tell.  __get_user() stores 0 when it faults, so a Set that      *)
(* fails with -EFAULT has cleared new_quantum.                             *)
Stores == Quanta \cup {0}

scull_dev_ioctl_set(p, v) ==
  /\ p \in opened /\ tmp[p] = NULL
  /\ new_quantum' = v
  /\ got' = <<>>
  /\ UNCHANGED <<data, size, geometry, new_qset, oops, opened, f_pos, tmp>>

(* eXchange and sHift: read the old value, then store the new one (0 when  *)
(* the eXchange faults).                                                   *)
scull_dev_ioctl_xload(p) ==
  /\ p \in opened /\ tmp[p] = NULL
  /\ tmp' = [tmp EXCEPT ![p] = new_quantum]
  /\ got' = <<>>
  /\ UNCHANGED <<data, size, geometry, future, oops, opened, f_pos>>

scull_dev_ioctl_xstore(p, v) ==
  /\ tmp[p] # NULL
  /\ new_quantum' = v
  /\ tmp' = [tmp EXCEPT ![p] = NULL]
  /\ got' = <<>>
  /\ UNCHANGED <<data, size, geometry, new_qset, oops, opened, f_pos>>

(* SEEK_SET, SEEK_CUR and SEEK_END; a negative position is -EINVAL.  No lock. *)
scull_dev_llseek(p, off, whence) ==
  /\ p \in opened /\ tmp[p] = NULL
  /\ LET newpos == CASE whence = 0 -> off
                     [] whence = 1 -> f_pos[p] + off
                     [] whence = 2 -> size + off
     IN  /\ newpos \in 0 .. MaxPos
         /\ f_pos' = [f_pos EXCEPT ![p] = newpos]
  /\ got' = <<>>
  /\ UNCHANGED <<data, size, geometry, future, oops, opened, tmp>>
-----------------------------------------------------------------------------
Next ==
  \E p \in Procs :
    \/ \E wronly \in BOOLEAN : scull_dev_open(p, wronly)
    \/ scull_dev_release(p)
    \/ scull_dev_read_none(p)
    \/ \E n \in Counts : scull_dev_read(p, n)
    \/ \E s \in UserData : scull_dev_write(p, s) \/ scull_dev_write_fault(p, s)
    \/ scull_dev_write_nomem(p)
    \/ scull_dev_write_oops(p)
    \/ scull_dev_ioctl_reset(p)
    \/ \E v \in Stores : scull_dev_ioctl_set(p, v) \/ scull_dev_ioctl_xstore(p, v)
    \/ scull_dev_ioctl_xload(p)
    \/ \E off \in -MaxPos .. MaxPos, whence \in 0 .. 2 : scull_dev_llseek(p, off, whence)

Spec == Init /\ [][Next]_vars
-----------------------------------------------------------------------------
(***************************************************************************)
(* Properties.                                                             *)
(***************************************************************************)
(* Every array has qset pointers and every quantum has quantum bytes, for  *)
(* the geometry now installed: trim frees each pointer that was allocated  *)
(* and no other, and no copy runs past the end of a quantum, although      *)
(* ioctl changes the future geometry at any time.                          *)
GeometryMatchesData ==
  Shaped(data, geometry, [0 .. quantum - 1 -> Byte \cup {Unwritten}])

(* A read never divides by zero and never has to extend the list: when     *)
(* there is something to read the geometry is not empty and every item     *)
(* below size exists, also after writes that failed for lack of memory.    *)
ListCoversSize == Covers(data, geometry, size)

(* "Query: return it (it's positive)": the quantum that ioctl reports and  *)
(* the next trim installs is positive.                                     *)
QuantumPositive == new_quantum > 0

(* "eXchange: switch G and S atomically": between the read of the old      *)
(* value and the store of the new one nobody else changes new_quantum.     *)
ExchangeAtomic == \A p \in Procs : tmp[p] # NULL => tmp[p] = new_quantum

(* "scull_trim(&(lptr->dev)); /* initialize it */": a private device can   *)
(* be written after it was made.                                           *)
WritesSurvive == ~oops
=============================================================================
