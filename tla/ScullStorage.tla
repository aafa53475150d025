---------------------------- MODULE ScullStorage ----------------------------
(***************************************************************************)
(* The storage every scull memory device is built on: a linked list of     *)
(* quantum sets, each an array of qset pointers to quanta of quantum       *)
(* bytes.  scull (scull_full), scull_device, scullc, scullp and scullv     *)
(* have the same list code; what they do under which lock, with which      *)
(* geometry, is in their own modules.                                      *)
(*                                                                         *)
(* A list item is NULL (its data pointer is NULL) or the array of quanta;  *)
(* an element of the array is NULL or what its module says of a quantum.   *)
(* A geometry g is the pair <<quantum, qset>> a call works with.           *)
(***************************************************************************)
EXTENDS Integers, Sequences

CONSTANTS
  Procs,                  \* processes that use the device
  Byte,                   \* values of a byte of user data
  Unwritten,              \* a byte of a quantum nobody wrote: what kmalloc() left
                          \* there, or zero in scullc, scullp and scullv
  NULL,                   \* null pointer
  DEFAULT_SCULL_QUANTUM,  \* 4000
  DEFAULT_SCULL_QSET,     \* 1000
  Quanta,                 \* values ioctl may give to the quantum
  MaxPos,                 \* bound on file positions
  MaxCount                \* bound on the count of read and write

ASSUME StorageAssumption ==
  /\ Unwritten \notin Byte /\ NULL \notin Byte \cup {Unwritten}
  /\ DEFAULT_SCULL_QUANTUM \in Nat \ {0} /\ DEFAULT_SCULL_QSET \in Nat \ {0}
  /\ Quanta \subseteq Nat
  /\ MaxPos \in Nat /\ MaxCount \in Nat

Free   == [i \in 1 .. 0 |-> NULL]   \* the empty list
Counts == 0 .. MaxCount
UserData == UNION {[1 .. k -> Byte] : k \in Counts}
min(a, b) == IF a < b THEN a ELSE b
itemsize(g) == g[1] * g[2]
-----------------------------------------------------------------------------
(* Where position pos lives: list item, quantum in it, byte in the quantum. *)
item(g, pos)  == pos \div itemsize(g)
s_pos(g, pos) == (pos % itemsize(g)) \div g[1]
q_pos(g, pos) == (pos % itemsize(g)) % g[1]

(* scull_follow: the list d once item n exists ... *)
Longer(d, k) == d \o [i \in 1 .. k |-> NULL]
scull_follow(d, n) == Longer(d, IF n < Len(d) THEN 0 ELSE n + 1 - Len(d))

(* ... or as far as it got when an allocation failed. *)
scull_follow_fails(d, n) == {Longer(d, k) : k \in 0 .. n - Len(d)}

(* The quantum that holds position pos in the list d, or NULL. *)
QuantumAt(d, g, pos) ==
  IF item(g, pos) >= Len(d) \/ d[item(g, pos) + 1] = NULL THEN NULL
  ELSE d[item(g, pos) + 1][s_pos(g, pos)]

(* The lists a read may leave when it finds no quantum at pos: a hole, or  *)
(* an item that could not be allocated.                                    *)
Holes(d, g, pos) ==
  {x \in {scull_follow(d, item(g, pos))} \cup scull_follow_fails(d, item(g, pos)) :
     QuantumAt(x, g, pos) = NULL}

(* The list d with the array, then the quantum, of position pos allocated. *)
WithArray(d, g, pos) ==
  IF d[item(g, pos) + 1] # NULL THEN d
  ELSE [d EXCEPT ![item(g, pos) + 1] = [i \in 0 .. g[2] - 1 |-> NULL]]

WithQuantum(d, g, pos, fresh) ==
  IF QuantumAt(d, g, pos) # NULL THEN d
  ELSE [d EXCEPT ![item(g, pos) + 1][s_pos(g, pos)] = fresh]

(* The list a write stores in: everything down to the quantum is there. *)
Prepared(d, g, pos, fresh) ==
  WithQuantum(WithArray(scull_follow(d, item(g, pos)), g, pos), g, pos, fresh)

(* What is left of the attempt when an allocation fails. *)
NotPrepared(d, g, pos) ==
  LET full == scull_follow(d, item(g, pos))
  IN  scull_follow_fails(d, item(g, pos))
      \cup (IF full[item(g, pos) + 1] = NULL THEN {full} ELSE {})
      \cup (IF QuantumAt(full, g, pos) = NULL THEN {WithArray(full, g, pos)} ELSE {})

(* A fresh quantum of n bytes. *)
FreshBytes(n) == [i \in 0 .. n - 1 |-> Unwritten]

(* The first k bytes of s stored from position pos on, in its quantum. *)
CopyIn(d, g, pos, s, k) ==
  [d EXCEPT ![item(g, pos) + 1][s_pos(g, pos)] =
     [i \in DOMAIN @ |-> IF q_pos(g, pos) <= i /\ i < q_pos(g, pos) + k
                         THEN s[i - q_pos(g, pos) + 1] ELSE @[i]]]

(* k bytes read from position pos on. *)
CopyOut(d, g, pos, k) == [i \in 1 .. k |-> QuantumAt(d, g, pos)[q_pos(g, pos) + i - 1]]
-----------------------------------------------------------------------------
(* Every array has qset pointers and every quantum in it is one of Quantum. *)
Shaped(d, g, Quantum) ==
  \A i \in 1 .. Len(d) : d[i] # NULL =>
    /\ DOMAIN d[i] = 0 .. g[2] - 1
    /\ \A j \in 0 .. g[2] - 1 : d[i][j] # NULL => d[i][j] \in Quantum

(* The list reaches the last byte before size. *)
Covers(d, g, size) == size > 0 => itemsize(g) # 0 /\ item(g, size - 1) < Len(d)

(* The byte stored at position pos, as a reader finds it. *)
ByteAt(d, g, pos) ==
  IF itemsize(g) = 0 \/ QuantumAt(d, g, pos) = NULL THEN Unwritten
  ELSE QuantumAt(d, g, pos)[q_pos(g, pos)]

Content(d, g) == [i \in 0 .. MaxPos - 1 |-> ByteAt(d, g, i)]
=============================================================================
