------------------------------ MODULE SparseFile ------------------------------
(***************************************************************************)
(* What a scull memory device promises its users: a file of bytes with     *)
(* positions nobody has written yet.  A write stores a prefix of its data  *)
(* at the caller's position, a read returns the bytes stored there, and a  *)
(* truncation forgets everything at once.                                  *)
(***************************************************************************)
EXTENDS Naturals, Sequences

CONSTANTS
  Users,      \* who has a file position
  Byte,       \* values of a byte
  Unwritten,  \* the content of a position nobody wrote
  MaxPos,     \* positions are below MaxPos
  MaxCount    \* most bytes a call asks for

VARIABLES
  bytes,  \* the content of every position
  size,   \* end of file
  pos,    \* per user: file position
  got     \* what the last call returned to its caller

vars == <<bytes, size, pos, got>>

Pos  == 0 .. MaxPos - 1
Data == UNION {[1 .. k -> Byte] : k \in 0 .. MaxCount}

Init ==
  /\ bytes = [i \in Pos |-> Unwritten]
  /\ size = 0
  /\ pos = [u \in Users |-> 0]
  /\ got = <<>>

Truncate ==
  /\ size' = 0
  /\ got' = <<>>
  /\ bytes' = [i \in Pos |-> Unwritten]

(* Any user's position may move; a new opening starts at 0. *)
Seek(u) ==
  /\ \E n \in 0 .. MaxPos : pos' = [pos EXCEPT ![u] = n]
  /\ got' = <<>>

(* The first k bytes of s are stored at the position of u. *)
Put(u, s, k) ==
  bytes' = [i \in Pos |-> IF pos[u] <= i /\ i < pos[u] + k THEN s[i - pos[u] + 1] ELSE bytes[i]]

(* A write makes progress unless it has nothing to write. *)
Write(u) ==
  \E s \in Data : \E k \in 0 .. Len(s) :
    /\ k > 0 \/ s = <<>>
    /\ pos[u] + k <= MaxPos
    /\ got' = <<>>
    /\ pos' = [pos EXCEPT ![u] = @ + k]
    /\ size' = IF size < pos[u] + k THEN pos[u] + k ELSE size
    /\ Put(u, s, k)

(* A write that fails half way neither moves nor extends the file. *)
FailedWrite(u) ==
  /\ got' = <<>>
  /\ UNCHANGED <<size, pos>>
  /\ \E s \in Data : \E k \in 0 .. Len(s) : Put(u, s, k)

(* A read returns what was written; it is empty only at the end of the     *)
(* file, before an unwritten position, or when nothing was asked.          *)
Read(u) ==
  \E n \in 0 .. MaxCount : \E k \in 0 .. n :
    /\ Len(got') = k
    /\ pos' = [pos EXCEPT ![u] = @ + k]
    /\ k = 0 \/ pos[u] + k <= size
    /\ k = 0 /\ n > 0 => pos[u] >= size \/ bytes[pos[u]] = Unwritten
    /\ \A i \in 1 .. k :
         bytes[pos[u] + i - 1] # Unwritten => got'[i] = bytes[pos[u] + i - 1]
    /\ UNCHANGED <<bytes, size>>

Next ==
  \E u \in Users :
    \/ Truncate /\ (UNCHANGED pos \/ pos' = [pos EXCEPT ![u] = 0])
    \/ Seek(u) /\ UNCHANGED <<bytes, size>>
    \/ Write(u)
    \/ FailedWrite(u)
    \/ Read(u)

Spec == Init /\ [][Next]_vars
=============================================================================
