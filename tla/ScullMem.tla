------------------------------- MODULE ScullMem -------------------------------
(***************************************************************************)
(* scullc, scullp and scullv: scull's storage with quanta from a slab      *)
(* cache, from whole pages and from vmalloc.  Against ScullDev: no ioctl,  *)
(* so the geometry is the one the device was made with; every quantum is   *)
(* zeroed; and user data goes through a buffer on the stack, tmpBuf.       *)
(*                                                                         *)
(* scullc copies through its buffer in pieces, and a fault leaves the      *)
(* pieces before it stored.  scullp and scullv copy at once, up to a       *)
(* quantum, through a buffer that is smaller than a quantum: a longer copy *)
(* overruns the stack, and nothing is defined after that.                  *)
(*                                                                         *)
(* read, write and trim hold dev->mutex throughout; llseek takes no lock.  *)
(***************************************************************************)
EXTENDS ScullStorage

CONSTANTS
  MemQuantum,  \* scullc_quantum, or PAGE_SIZE << order
  MemQset,     \* DEFAULT_SCULL_QSET of these drivers, 1000
  Piece,       \* size of tmpBuf in scullc, 128
  TmpBuf       \* size of tmpBuf in scullp and scullv, 968

VARIABLES
  driver,   \* "scullc", "scullp" or "scullv"
  data, size,
  quantum, qset,
  overrun,  \* a copy ran past the end of tmpBuf
  opened, f_pos, got

geometry == <<quantum, qset>>
vars     == <<driver, data, size, quantum, qset, overrun, opened, f_pos, got>>

Drivers == {"scullc", "scullp", "scullv"}
-----------------------------------------------------------------------------
(* construct_scullc_dev, construct_scullp_dev, construct_scullv_dev. *)
Init ==
  /\ driver \in Drivers
  /\ data = Free /\ size = 0
  /\ quantum = MemQuantum /\ qset = MemQset
  /\ overrun = FALSE
  /\ opened = {}
  /\ f_pos = [p \in Procs |-> 0]
  /\ got = <<>>

(* Free every quantum, array and item; the geometry stays. *)
trim == data' = Free /\ size' = 0

Open(p, wronly) ==
  /\ p \notin opened
  /\ opened' = opened \cup {p}
  /\ f_pos' = [f_pos EXCEPT ![p] = 0]
  /\ got' = <<>>
  /\ IF wronly THEN trim ELSE UNCHANGED <<data, size>>
  /\ UNCHANGED <<driver, geometry, overrun>>

scullc_dev_open(p, wronly) == driver = "scullc" /\ Open(p, wronly)
scullp_dev_open(p, wronly) == driver = "scullp" /\ Open(p, wronly)
scullv_dev_open(p, wronly) == driver = "scullv" /\ Open(p, wronly)

scullX_dev_release(p) ==
  /\ p \in opened
  /\ opened' = opened \ {p}
  /\ f_pos' = [f_pos EXCEPT ![p] = 0]
  /\ got' = <<>>
  /\ UNCHANGED <<driver, data, size, geometry, overrun>>
-----------------------------------------------------------------------------
(* At or past the end, or in a hole: 0 bytes. *)
ReadNone(p) ==
  /\ got' = <<>>
  /\ \/ f_pos[p] >= size /\ data' = data
     \/ f_pos[p] < size /\ data' \in Holes(data, geometry, f_pos[p])
  /\ UNCHANGED <<driver, size, geometry, overrun, opened, f_pos>>

(* There is a quantum to read from: up to its end, through a buffer of    *)
(* buf bytes.                                                             *)
ReadQuantum(p, n, buf) ==
  /\ f_pos[p] < size
  /\ data' = scull_follow(data, item(geometry, f_pos[p]))
  /\ QuantumAt(data', geometry, f_pos[p]) # NULL
  /\ LET count == min(min(n, size - f_pos[p]), quantum - q_pos(geometry, f_pos[p]))
     IN \/ /\ count <= buf
           /\ got' = CopyOut(data', geometry, f_pos[p], count)
           /\ f_pos' = [f_pos EXCEPT ![p] = @ + count]
           /\ UNCHANGED overrun
        \/ /\ 0 < count /\ count <= buf           \* -EFAULT
           /\ got' = <<>>
           /\ UNCHANGED <<overrun, f_pos>>
        \/ /\ buf < count
           /\ overrun' = TRUE
           /\ got' = <<>>
           /\ UNCHANGED f_pos
  /\ UNCHANGED <<driver, size, geometry, opened>>

Read(p, n, buf) == p \in opened /\ (ReadNone(p) \/ ReadQuantum(p, n, buf))

(* scullc's loop reuses its buffer for every piece. *)
scullc_dev_read(p, n) == driver = "scullc" /\ Read(p, n, quantum)
scullp_dev_read(p, n) == driver = "scullp" /\ Read(p, n, TmpBuf)
scullv_dev_read(p, n) == driver = "scullv" /\ Read(p, n, TmpBuf)
-----------------------------------------------------------------------------
(* Write only up to the end of the quantum. *)
WriteCount(p, s) == min(Len(s), quantum - q_pos(geometry, f_pos[p]))

Writable(p) == Prepared(data, geometry, f_pos[p], FreshBytes(quantum))

WriteAll(p, s) ==
  /\ f_pos[p] + WriteCount(p, s) <= MaxPos
  /\ data' = CopyIn(Writable(p), geometry, f_pos[p], s, WriteCount(p, s))
  /\ f_pos' = [f_pos EXCEPT ![p] = @ + WriteCount(p, s)]
  /\ size' = IF size < f_pos'[p] THEN f_pos'[p] ELSE size
  /\ UNCHANGED overrun

(* -EFAULT after the first k bytes were stored. *)
WriteFault(p, s, k) ==
  /\ f_pos[p] < MaxPos /\ k < WriteCount(p, s)
  /\ data' = CopyIn(Writable(p), geometry, f_pos[p], s, k)
  /\ UNCHANGED <<size, f_pos, overrun>>

(* -ENOMEM: the list, the array or the quantum could not be allocated. *)
WriteNoMem(p) ==
  /\ f_pos[p] < MaxPos
  /\ data' \in NotPrepared(data, geometry, f_pos[p])
  /\ UNCHANGED <<size, f_pos, overrun>>

WriteOverrun(p) ==
  /\ f_pos[p] < MaxPos
  /\ data' = Writable(p)
  /\ overrun' = TRUE
  /\ UNCHANGED <<size, f_pos>>

Write(p) ==
  /\ p \in opened
  /\ got' = <<>>
  /\ UNCHANGED <<driver, geometry, opened>>

scullc_dev_write(p, s) ==
  /\ driver = "scullc" /\ Write(p)
  /\ \/ WriteAll(p, s)
     \/ \E k \in 0 .. Len(s) : k % Piece = 0 /\ WriteFault(p, s, k)
     \/ WriteNoMem(p)

WriteAtOnce(p, s) ==
  \/ WriteCount(p, s) <= TmpBuf /\ (WriteAll(p, s) \/ WriteFault(p, s, 0))
  \/ WriteCount(p, s) > TmpBuf /\ WriteOverrun(p)
  \/ WriteNoMem(p)

scullp_dev_write(p, s) == driver = "scullp" /\ Write(p) /\ WriteAtOnce(p, s)
scullv_dev_write(p, s) == driver = "scullv" /\ Write(p) /\ WriteAtOnce(p, s)

(* SEEK_SET, SEEK_CUR and SEEK_END; a negative position is -EINVAL.  No lock. *)
Seek(p, off, whence) ==
  /\ p \in opened
  /\ LET newpos == CASE whence = 0 -> off
                     [] whence = 1 -> f_pos[p] + off
                     [] whence = 2 -> size + off
     IN  /\ newpos \in 0 .. MaxPos
         /\ f_pos' = [f_pos EXCEPT ![p] = newpos]
  /\ got' = <<>>
  /\ UNCHANGED <<driver, data, size, geometry, overrun, opened>>

scullc_dev_llseek(p, off, whence) == driver = "scullc" /\ Seek(p, off, whence)
scullp_dev_llseek(p, off, whence) == driver = "scullp" /\ Seek(p, off, whence)
scullv_dev_llseek(p, off, whence) == driver = "scullv" /\ Seek(p, off, whence)
-----------------------------------------------------------------------------
scullc(p) ==
  \/ \E wronly \in BOOLEAN : scullc_dev_open(p, wronly)
  \/ \E n \in Counts : scullc_dev_read(p, n)
  \/ \E s \in UserData : scullc_dev_write(p, s)
  \/ \E off \in -MaxPos .. MaxPos, whence \in 0 .. 2 : scullc_dev_llseek(p, off, whence)

scullp(p) ==
  \/ \E wronly \in BOOLEAN : scullp_dev_open(p, wronly)
  \/ \E n \in Counts : scullp_dev_read(p, n)
  \/ \E s \in UserData : scullp_dev_write(p, s)
  \/ \E off \in -MaxPos .. MaxPos, whence \in 0 .. 2 : scullp_dev_llseek(p, off, whence)

scullv(p) ==
  \/ \E wronly \in BOOLEAN : scullv_dev_open(p, wronly)
  \/ \E n \in Counts : scullv_dev_read(p, n)
  \/ \E s \in UserData : scullv_dev_write(p, s)
  \/ \E off \in -MaxPos .. MaxPos, whence \in 0 .. 2 : scullv_dev_llseek(p, off, whence)

(* Nothing is modelled after a copy that smashed the stack. *)
Smashed == overrun /\ UNCHANGED vars

Next ==
  \/ Smashed
  \/ /\ ~overrun
     /\ \E p \in Procs : scullc(p) \/ scullp(p) \/ scullv(p) \/ scullX_dev_release(p)

Spec == Init /\ [][Next]_vars
-----------------------------------------------------------------------------
(* As for scull: every array has qset pointers and every quantum quantum   *)
(* bytes, so trim frees what was allocated and no copy leaves a quantum.   *)
GeometryMatchesData ==
  Shaped(data, geometry, [0 .. quantum - 1 -> Byte \cup {Unwritten}])

(* As for scull: a read finds every item below size in the list, also      *)
(* after writes that failed for lack of memory.                            *)
ListCoversSize == Covers(data, geometry, size)

(* No copy runs past the end of the buffer on the stack. *)
BufferHolds == ~overrun
=============================================================================
