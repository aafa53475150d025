----------------------------- MODULE ScullDevice -----------------------------
(***************************************************************************)
(* The older scull of scull_device/fops.c.  Its read and write load the    *)
(* geometry of the device BEFORE they take dev->sem, so that a trim by a   *)
(* write-only open can install another one in between.  A read or write is *)
(* two actions: scull_load, and one of the actions that follow it once the *)
(* semaphore is taken.                                                     *)
(*                                                                         *)
(* The ioctl changes the globals scull_quantum and scull_qset, which trim  *)
(* installs, without a lock.                                               *)
(*                                                                         *)
(* What the bytes are does not matter here: a quantum is the number of     *)
(* bytes it was allocated with.                                            *)
(***************************************************************************)
EXTENDS ScullStorage

VARIABLES
  data, size,
  quantum, qset,              \* of the device
  scull_quantum, scull_qset,  \* the globals
  opened, f_pos,
  loaded,    \* per process in read or write: the geometry it loaded, or NULL
  oops,      \* a process divided by zero, and died holding the semaphore
  overrun,   \* a copy ran past the end of a quantum
  outdated   \* history: some read or write went on with a geometry that
             \* was no longer the device's

geometry == <<quantum, qset>>
globals  == <<scull_quantum, scull_qset>>
harm     == <<oops, overrun>>
vars     == <<data, size, quantum, qset, scull_quantum, scull_qset, opened, f_pos,
              loaded, oops, overrun, outdated>>
-----------------------------------------------------------------------------
(* scull_init. *)
Init ==
  /\ data = Free /\ size = 0
  /\ quantum = DEFAULT_SCULL_QUANTUM /\ qset = DEFAULT_SCULL_QSET
  /\ scull_quantum = quantum /\ scull_qset = qset
  /\ opened = {}
  /\ f_pos = [p \in Procs |-> 0]
  /\ loaded = [p \in Procs |-> NULL]
  /\ oops = FALSE /\ overrun = FALSE /\ outdated = FALSE

(* Free every quantum, array and item; install the global geometry. *)
scull_trim ==
  /\ data' = Free
  /\ size' = 0
  /\ quantum' = scull_quantum
  /\ qset' = scull_qset

(* A signal while waiting for the semaphore fails the open. *)
scull_open(p, wronly) ==
  /\ p \notin opened
  /\ opened' = opened \cup {p}
  /\ f_pos' = [f_pos EXCEPT ![p] = 0]
  /\ \/ wronly /\ ~oops /\ scull_trim
     \/ ~wronly /\ UNCHANGED <<data, size, geometry>>
  /\ UNCHANGED <<globals, loaded, harm, outdated>>

Ready(p) == p \in opened /\ loaded[p] = NULL

scull_release(p) ==
  /\ Ready(p)
  /\ opened' = opened \ {p}
  /\ f_pos' = [f_pos EXCEPT ![p] = 0]
  /\ UNCHANGED <<data, size, geometry, globals, loaded, harm, outdated>>
-----------------------------------------------------------------------------
(* A read or write has loaded quantum and qset ... *)
scull_load(p) ==
  /\ Ready(p)
  /\ loaded' = [loaded EXCEPT ![p] = geometry]
  /\ UNCHANGED <<data, size, geometry, globals, opened, f_pos, harm, outdated>>

(* ... and a signal makes down_interruptible fail, ... *)
scull_interrupted(p) ==
  /\ loaded[p] # NULL
  /\ loaded' = [loaded EXCEPT ![p] = NULL]
  /\ UNCHANGED <<data, size, geometry, globals, opened, f_pos, harm, outdated>>

(* ... or it takes the semaphore and goes on with what it loaded. *)
Locked(p) ==
  /\ loaded[p] # NULL /\ ~oops
  /\ loaded' = [loaded EXCEPT ![p] = NULL]
  /\ outdated' = (outdated \/ loaded[p] # geometry)

(* At or past the end, or in a hole. *)
scull_read_none(p) ==
  /\ Locked(p)
  /\ \/ f_pos[p] >= size /\ data' = data
     \/ f_pos[p] < size /\ itemsize(loaded[p]) # 0 /\ data' \in Holes(data, loaded[p], f_pos[p])
  /\ UNCHANGED <<size, geometry, globals, opened, f_pos, harm>>

(* The bytes from the position to the end of the quantum, as p sees it. *)
Room(p) == loaded[p][1] - q_pos(loaded[p], f_pos[p])

(* A copy of n bytes at the position of p ends inside the quantum of d. *)
Inside(p, d, n) ==
  q_pos(loaded[p], f_pos[p]) + n <= QuantumAt(d, loaded[p], f_pos[p])

(* Up to the end of the quantum, or -EFAULT, which moves nothing. *)
scull_read(p, n) ==
  /\ Locked(p) /\ f_pos[p] < size /\ itemsize(loaded[p]) # 0
  /\ data' = scull_follow(data, item(loaded[p], f_pos[p]))
  /\ QuantumAt(data', loaded[p], f_pos[p]) # NULL
  /\ LET count == min(min(n, size - f_pos[p]), Room(p))
     IN  /\ \/ f_pos' = [f_pos EXCEPT ![p] = @ + count]
            \/ count > 0 /\ f_pos' = f_pos
         /\ overrun' = ~Inside(p, data', count)
  /\ UNCHANGED <<size, geometry, globals, opened, oops>>

(* Mutant: the count is not cut at the end of the quantum. *)
WriteCount_uncut(p, n) == n

(* Write only up to the end of the quantum. *)
WriteCount(p, n) == min(n, Room(p))

Writable(p) == Prepared(data, loaded[p], f_pos[p], loaded[p][1])

(* Everything is stored, or -EFAULT. *)
scull_write(p, n) ==
  /\ Locked(p) /\ itemsize(loaded[p]) # 0
  /\ data' = Writable(p)
  /\ f_pos[p] + WriteCount(p, n) <= MaxPos
  /\ overrun' = ~Inside(p, data', WriteCount(p, n))
  /\ \/ /\ f_pos' = [f_pos EXCEPT ![p] = @ + WriteCount(p, n)]
        /\ size' = IF size < f_pos'[p] THEN f_pos'[p] ELSE size
     \/ n > 0 /\ UNCHANGED <<f_pos, size>>
  /\ UNCHANGED <<geometry, globals, opened, oops>>

(* -ENOMEM: the list, the array or the quantum could not be allocated. *)
scull_write_nomem(p) ==
  /\ Locked(p) /\ itemsize(loaded[p]) # 0 /\ f_pos[p] < MaxPos
  /\ data' \in NotPrepared(data, loaded[p], f_pos[p])
  /\ UNCHANGED <<size, geometry, globals, opened, f_pos, harm>>

(* Division by itemsize 0: the process dies in the critical section, in    *)
(* write always and in read when there is something to read.               *)
scull_oops(p) ==
  /\ Locked(p) /\ itemsize(loaded[p]) = 0
  /\ oops' = TRUE
  /\ opened' = opened \ {p}
  /\ f_pos' = [f_pos EXCEPT ![p] = 0]
  /\ UNCHANGED <<data, size, geometry, globals, overrun>>
-----------------------------------------------------------------------------
(***************************************************************************)
(* scull_ioctl, by an administrator: RESET, and Set, Tell, eXchange and    *)
(* sHift, which store a value, or 0 when __get_user faults.  There is no   *)
(* command for the qset.  No lock.                                         *)
(***************************************************************************)
scull_ioctl(p) ==
  /\ Ready(p)
  /\ \/ scull_quantum' = DEFAULT_SCULL_QUANTUM /\ scull_qset' = DEFAULT_SCULL_QSET
     \/ scull_quantum' \in Quanta \cup {0} /\ UNCHANGED scull_qset
  /\ UNCHANGED <<data, size, geometry, opened, f_pos, loaded, harm, outdated>>

scull_llseek(p, off, whence) ==
  /\ Ready(p)
  /\ LET newpos == CASE whence = 0 -> off
                     [] whence = 1 -> f_pos[p] + off
                     [] whence = 2 -> size + off
     IN  /\ newpos \in 0 .. MaxPos
         /\ f_pos' = [f_pos EXCEPT ![p] = newpos]
  /\ UNCHANGED <<data, size, geometry, globals, opened, loaded, harm, outdated>>

(* Nothing is modelled after a copy that left its quantum. *)
Smashed == overrun /\ UNCHANGED vars

Next ==
  \/ Smashed
  \/ /\ ~overrun
     /\ \E p \in Procs :
          \/ \E wronly \in BOOLEAN : scull_open(p, wronly)
          \/ scull_release(p)
          \/ scull_load(p)
          \/ scull_interrupted(p)
          \/ scull_read_none(p)
          \/ \E n \in Counts : scull_read(p, n) \/ scull_write(p, n)
          \/ scull_write_nomem(p)
          \/ scull_oops(p)
          \/ scull_ioctl(p)
          \/ \E off \in -MaxPos .. MaxPos, whence \in 0 .. 2 : scull_llseek(p, off, whence)

Spec == Init /\ [][Next]_vars
-----------------------------------------------------------------------------
(* Every array has the pointers trim frees, whatever was loaded; and every *)
(* quantum has the current size unless a read or write went on with an     *)
(* outdated geometry.                                                      *)
GeometryMatchesData ==
  /\ Shaped(data, geometry, Nat)
  /\ ~outdated => Shaped(data, geometry, {quantum})

(* "the current quantum size": every quantum of the device has it. *)
QuantaAreCurrent == Shaped(data, geometry, {quantum})

(* Without an outdated geometry a read finds every item below size.        *)
ListCoversSize == ~outdated => Covers(data, geometry, size)

(* No copy runs past the end of a quantum unless a trim changed the        *)
(* geometry between the load of it and the semaphore: that window is the   *)
(* only way to overrun a quantum, whatever ioctl stores in the globals.    *)
OverrunsNeedOutdated == overrun => outdated

(* No copy runs past the end of a quantum. *)
CopiesStayInside == ~overrun
=============================================================================
