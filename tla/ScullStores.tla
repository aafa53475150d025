----------------------------- MODULE ScullStores -----------------------------
(***************************************************************************)
(* The five drivers that keep their data in quantum sets under one         *)
(* specification.  They share no state, so each behaviour is one of one    *)
(* driver; the variables of the others keep a fixed value.                 *)
(***************************************************************************)
EXTENDS ScullStorage

CONSTANTS Private, MemQuantum, MemQset, Piece, TmpBuf

(* The drivers are loaded with a geometry that is not empty; and a pointer *)
(* to an array of quanta, or a quantum, is not the null pointer.           *)
ASSUME StoresAssumption ==
  /\ Private \in BOOLEAN
  /\ MemQuantum \in Nat \ {0} /\ MemQset \in Nat \ {0}
  /\ Piece \in Nat \ {0} /\ TmpBuf \in Nat
  /\ NULL \notin [0 .. DEFAULT_SCULL_QSET - 1 -> Nat \cup {NULL}]
  /\ \A q \in Quanta \cup {DEFAULT_SCULL_QUANTUM, MemQuantum},
        s \in {DEFAULT_SCULL_QSET, MemQset} :
       LET Q == [0 .. q - 1 -> Byte \cup {Unwritten}]
       IN  NULL \notin Q /\ NULL \notin [0 .. s - 1 -> Q \cup {NULL}]

VARIABLES
  driver,
  data, size, quantum, qset, opened, f_pos,  \* of every driver
  got,                                       \* not of scull_device
  overrun,                                   \* not of scull
  new_quantum, new_qset, oops,               \* of scull and scull_device
  tmp,                                       \* of scull
  loaded, outdated                           \* of scull_device

full == <<tmp>>
old  == <<loaded, outdated>>
both == <<new_quantum, new_qset, oops>>
vars == <<driver, data, size, quantum, qset, opened, f_pos, got, overrun, both, full, old>>

Full == INSTANCE ScullDev
Mem  == INSTANCE ScullMem
Old  == INSTANCE ScullDevice WITH scull_quantum <- new_quantum, scull_qset <- new_qset

NoFull == tmp = <<>>
NoOld  == loaded = <<>> /\ outdated = FALSE
NoBoth == new_quantum = 0 /\ new_qset = 0 /\ oops = FALSE

Init ==
  \/ driver = "scull" /\ Full!Init /\ overrun = FALSE /\ NoOld
  \/ Mem!Init /\ NoBoth /\ NoFull /\ NoOld
  \/ driver = "scull_device" /\ Old!Init /\ got = <<>> /\ NoFull

Next ==
  \/ driver = "scull" /\ Full!Next /\ UNCHANGED <<driver, overrun, old>>
  \/ driver \in Mem!Drivers /\ Mem!Next /\ UNCHANGED <<both, full, old>>
  \/ driver = "scull_device" /\ Old!Next /\ UNCHANGED <<driver, got, full>>

Spec == Init /\ [][Next]_vars
-----------------------------------------------------------------------------
(* Every array has qset pointers and every quantum has quantum bytes, for  *)
(* the geometry now installed: trim frees each pointer that was allocated  *)
(* and no other, although ioctl changes the future geometry at any time;   *)
(* in scull_device the quanta may differ once a read or write went on with *)
(* an outdated geometry, the arrays never.                                 *)
GeometryMatchesData ==
  /\ driver = "scull" => Full!GeometryMatchesData
  /\ driver \in Mem!Drivers => Mem!GeometryMatchesData
  /\ driver = "scull_device" => Old!GeometryMatchesData

(* A read never divides by zero and never has to extend the list: when     *)
(* there is something to read the geometry is not empty and every item     *)
(* below size exists, also after writes that failed for lack of memory.    *)
ListCoversSize ==
  /\ driver = "scull" => Full!ListCoversSize
  /\ driver \in Mem!Drivers => Mem!ListCoversSize
  /\ driver = "scull_device" => Old!ListCoversSize

(* scull_device: a copy runs past the end of a quantum only after a trim   *)
(* fell between a load of the geometry and the semaphore.                  *)
OverrunsNeedOutdated == driver = "scull_device" => Old!OverrunsNeedOutdated

(* The file a user of any driver but scull_device sees. *)
Sparse == driver # "scull_device"

File == INSTANCE SparseFile WITH
          Users <- Procs,
          pos <- IF Sparse THEN f_pos ELSE [p \in Procs |-> 0],
          size <- IF Sparse THEN size ELSE 0,
          bytes <- IF Sparse THEN Content(data, <<quantum, qset>>) ELSE Content(Free, <<0, 0>>)

(* All but scull_device are sparse files: the bytes written at a position  *)
(* are the bytes read there until a write-only open trims the device; a    *)
(* failed write moves and extends nothing, also when it failed between two *)
(* pieces of its data.                                                     *)
ImplementsSparseFile == File!Spec
=============================================================================
