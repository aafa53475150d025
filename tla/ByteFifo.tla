------------------------------- MODULE ByteFifo -------------------------------
(***************************************************************************)
(* What a pipe promises: a bounded first-in first-out queue of bytes.  A   *)
(* write appends some bytes, a read takes some from the front, each byte   *)
(* is delivered once; nothing but an open or a close throws bytes away.    *)
(***************************************************************************)
EXTENDS Naturals, Sequences

CONSTANTS
  Procs,     \* who may use the queue
  Byte,      \* values of a byte
  Capacity   \* most bytes the queue may hold

VARIABLES
  users,  \* who has it open
  queue,  \* accepted and not yet delivered, oldest first
  got     \* per user: what the read in progress was given

Init ==
  /\ users = {}
  /\ queue = <<>>
  /\ got = [p \in Procs |-> <<>>]

Accept ==
  /\ \E k \in 0 .. Capacity - Len(queue) : \E s \in [1 .. k -> Byte] : queue' = queue \o s
  /\ UNCHANGED <<users, got>>

Deliver(p) ==
  \E k \in 0 .. Len(queue) :
    /\ got' = [got EXCEPT ![p] = SubSeq(queue, 1, k)]
    /\ queue' = SubSeq(queue, k + 1, Len(queue))
    /\ UNCHANGED users

Return(p) ==
  /\ got' = [got EXCEPT ![p] = <<>>]
  /\ UNCHANGED <<users, queue>>

Open(p) ==
  /\ users' = users \cup {p} /\ p \notin users
  /\ queue' = <<>>
  /\ UNCHANGED got

Close(p) ==
  /\ users' = users \ {p} /\ p \in users
  /\ queue' \in {queue, <<>>}
  /\ UNCHANGED got

Next ==
  \/ Accept
  \/ \E p \in Procs : Deliver(p) \/ Return(p) \/ Open(p) \/ Close(p)

Spec == Init /\ [][Next]_<<users, queue, got>>
=============================================================================
