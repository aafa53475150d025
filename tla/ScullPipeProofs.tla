--------------------------- MODULE ScullPipeProofs ---------------------------
(***************************************************************************)
(* Proofs about ScullPipe and ScullPipeDevice, for any number of processes *)
(* and any buffer of at least two bytes.                                   *)
(***************************************************************************)
EXTENDS ScullPipeDevice, FiniteSetTheorems, SequenceTheorems, TLAPS

(* spacefree without the modulus, for pointers that may be dev->end: what  *)
(* scull_getwritespace computes when the ring is split either way.         *)
LEMMA SpacefreeValue ==
  ASSUME NEW r \in 0 .. end, NEW w \in 0 .. end
  PROVE  /\ spacefree(r, w) \in Int
         /\ r = w => spacefree(r, w) = end - 1
         /\ r > w /\ r - w # end => spacefree(r, w) = r - w - 1
         /\ r > w /\ r - w = end => spacefree(r, w) = -1
         /\ r < w => spacefree(r, w) = r + end - w - 1
<1>1. ASSUME NEW a \in 0 .. end - 1 PROVE a % end = a
  BY PipeAssumption DEF end
<1>2. ASSUME NEW a \in 0 .. end - 1 PROVE (a + end) % end = a
  BY PipeAssumption DEF end
<1>3. (2 * end) % end = 0
  BY PipeAssumption DEF end
<1>4. CASE r = w
  BY <1>4, PipeAssumption DEF spacefree, end
<1>5. CASE r > w /\ r - w # end
  <2>1. r - w \in 0 .. end - 1
    BY <1>5, PipeAssumption DEF end
  <2>2. (r + end - w) % end = r - w
    BY <2>1, <1>2, PipeAssumption DEF end
  <2> QED BY <1>5, <2>2, PipeAssumption DEF spacefree, end
<1>6. CASE r > w /\ r - w = end
  <2>1. r + end - w = 2 * end
    BY <1>6, PipeAssumption DEF end
  <2> QED BY <1>6, <2>1, <1>3, PipeAssumption DEF spacefree, end
<1>7. CASE r < w
  <2>1. r + end - w \in 0 .. end - 1
    BY <1>7, PipeAssumption DEF end
  <2>2. (r + end - w) % end = r + end - w
    BY <2>1, <1>1
  <2> QED BY <1>7, <2>2, PipeAssumption DEF spacefree, end
<1> QED BY <1>4, <1>5, <1>6, <1>7, PipeAssumption DEF end

(* Wrapping wp from dev->end to the start of the buffer does not change    *)
(* whether the pipe is full.                                               *)
LEMMA WrapKeepsFull ==
  ASSUME NEW r \in 0 .. end, NEW w \in 0 .. end
  PROVE  spacefree(r, Wrap(w)) = 0 <=> spacefree(r, w) = 0
<1>1. Wrap(w) \in 0 .. end
  BY PipeAssumption DEF Wrap, end
<1> QED BY <1>1, SpacefreeValue, PipeAssumption DEF Wrap, end

(* With the mutex held and data in the pipe, a read takes no more than     *)
(* there is before dev->end.                                               *)
LEMMA ReadCountBounds ==
  ASSUME TypeOK, NEW n \in Nat, rp # wp
  PROVE  ReadCount(n) \in 0 .. end - rp
BY PipeAssumption DEF ReadCount, min, TypeOK, end

(* ... and a write into a pipe that is not full puts no more than fits.    *)
LEMMA WriteCountBounds ==
  ASSUME TypeOK, rp \in Offset, wp \in Offset, NEW n \in Nat
  PROVE  WriteCount(n) \in 0 .. end - wp /\ WriteCount(n) <= n
<1>0. ASSUME NEW r \in Offset, NEW w \in Offset PROVE spacefree(r, w) \in Nat
  <2>1. r \in 0 .. end /\ w \in 0 .. end /\ r - w # end
    BY PipeAssumption DEF end, Offset
  <2>2. CASE r = w
    BY <2>1, <2>2, SpacefreeValue, PipeAssumption DEF end
  <2>3. CASE r > w
    BY <2>1, <2>3, SpacefreeValue, PipeAssumption DEF end
  <2>4. CASE r < w
    <3>1. spacefree(r, w) = r + end - w - 1
      BY <2>1, <2>4, SpacefreeValue
    <3> QED BY <2>4, <3>1, PipeAssumption DEF end, Offset
  <2> QED BY <2>2, <2>3, <2>4 DEF Offset
<1>1. spacefree(rp, wp) \in Nat
  BY <1>0
<1> QED BY <1>1, PipeAssumption DEF WriteCount, min, TypeOK, end, Offset

(* The part of the invariant that does not speak of sleepers: it makes the *)
(* copies of read and write stay inside the buffer.                        *)
Base == TypeOK /\ LockOK

(* The value of load when no wait condition is being evaluated has its type. *)
LEMMA NoLoadType == NoLoad \in {"rp", "wp"} \X (0 .. end)
BY PipeAssumption DEF NoLoad, end

(* A pointer that is not being wrapped is inside the buffer.               *)
LEMMA PointersInside ==
  ASSUME Base, mutex = NoProc
  PROVE  rp \in Offset /\ wp \in Offset
<1>1. \A p \in Procs : pc[p] \notin {"r_wrap", "w_wrap"}
  BY PipeAssumption DEF Base, LockOK
<1>2. rp # end /\ wp # end
  BY <1>1 DEF Base, LockOK
<1> QED BY <1>2, PipeAssumption DEF Base, TypeOK, Offset, end

(* A read step keeps the types: rp stops at dev->end, ubuf gets bytes.     *)
LEMMA ReadTypes ==
  ASSUME Base, NEW p \in Procs, NEW n \in Counts, scull_pipe_read(p, n)
  PROVE  rp' \in 0 .. end /\ ubuf' \in [Procs -> Seq(Byte \cup {Garbage})]
<1>1. rp \in Offset /\ wp \in Offset
  BY PointersInside DEF scull_pipe_read, InRead
<1>2. n \in Nat
  BY PipeAssumption DEF Counts
<1>3. ReadCount(n) \in 0 .. end - rp
  BY <1>2, ReadCountBounds DEF Base, scull_pipe_read
<1>4. [i \in 1 .. ReadCount(n) |-> mem[rp + i - 1]] \in Seq(Byte \cup {Garbage})
  <2>1. \A i \in 1 .. ReadCount(n) : rp + i - 1 \in Offset
    BY <1>1, <1>3, PipeAssumption DEF Offset, end
  <2>2. ReadCount(n) \in Nat
    BY <1>3
  <2>3. \A i \in 1 .. ReadCount(n) : mem[rp + i - 1] \in Byte \cup {Garbage}
    BY <2>1 DEF Base, TypeOK
  <2> DEFINE f == [i \in 1 .. ReadCount(n) |-> mem[rp + i - 1]]
  <2>4. f \in [1 .. ReadCount(n) -> Byte \cup {Garbage}]
    BY <2>3
  <2> HIDE DEF f
  <2>5. f \in Seq(Byte \cup {Garbage})
    BY <2>2, <2>4, SeqDef
  <2> QED BY <2>5 DEF f
<1>5. rp' \in 0 .. end
  BY <1>1, <1>3, PipeAssumption DEF Base, TypeOK, scull_pipe_read, Offset, end
<1>6. ubuf' \in [Procs -> Seq(Byte \cup {Garbage})]
  BY <1>4 DEF Base, TypeOK, scull_pipe_read
<1> QED BY <1>5, <1>6

(* A write step keeps the types: it stores inside the buffer only.         *)
LEMMA WriteTypes ==
  ASSUME Base, NEW p \in Procs, NEW s \in Data, scull_pipe_write(p, s)
  PROVE  wp' \in 0 .. end /\ mem' \in [Offset -> Byte \cup {Garbage}]
<1>1. rp \in Offset /\ wp \in Offset
  BY PointersInside DEF scull_pipe_write, InWrite
<1>2. Len(s) \in Nat /\ s \in [1 .. Len(s) -> Byte]
  <2>1. PICK k \in Counts : s \in [1 .. k -> Byte]
    BY DEF Data
  <2>2. k \in Nat
    BY PipeAssumption DEF Counts
  <2>3. s \in Seq(Byte) /\ Len(s) = k
    BY <2>1, <2>2
  <2> QED BY <2>1, <2>2, <2>3
<1>3. WriteCount(Len(s)) \in 0 .. end - wp /\ WriteCount(Len(s)) <= Len(s)
  BY <1>1, <1>2, WriteCountBounds DEF Base
<1>4. ASSUME NEW k \in 0 .. WriteCount(Len(s))
      PROVE  Stored(s, k) \in [Offset -> Byte \cup {Garbage}]
  <2>1. ASSUME NEW i \in Offset, wp <= i, i < wp + k
        PROVE  s[i - wp + 1] \in Byte
    <3>1. i - wp + 1 \in 1 .. Len(s)
      BY <1>1, <1>2, <1>3, <2>1, PipeAssumption DEF Offset, end
    <3> QED BY <3>1, <1>2
  <2> QED BY <2>1 DEF Stored, Base, TypeOK
<1>5. \E k \in 0 .. WriteCount(Len(s)) : mem' = Stored(s, k)
  <2>1. CASE mem' = Stored(s, WriteCount(Len(s)))
    BY <2>1, <1>1, <1>3, PipeAssumption DEF Offset, end
  <2>2. CASE \E k \in 0 .. WriteCount(Len(s)) - 1 : mem' = Stored(s, k)
    BY <2>2, <1>1, <1>3, PipeAssumption DEF Offset, end
  <2> QED BY <2>1, <2>2 DEF scull_pipe_write
<1>6. mem' \in [Offset -> Byte \cup {Garbage}]
  BY <1>4, <1>5
<1>7. wp' = wp \/ wp' = wp + WriteCount(Len(s))
  BY DEF scull_pipe_write
<1>8. wp' \in 0 .. end
  BY <1>1, <1>3, <1>7, PipeAssumption DEF Offset, end
<1> QED BY <1>6, <1>8

(* Every step keeps the types and the lock discipline.                     *)
LEMMA BaseStep ==
  ASSUME Base, [Next]_vars
  PROVE  Base'
<1> USE PipeAssumption
<1>0. CASE UNCHANGED vars
  BY <1>0 DEF vars, Base, TypeOK, LockOK
<1>1. ASSUME NEW p \in Procs, \E mode \in Modes : scull_pipe_open(p, mode)
      PROVE  Base'
  <2>1. TypeOK'
    BY <1>1 DEF Base, TypeOK, LockOK, scull_pipe_open, Goto, dev, queues, PC, end
  <2>2. LockOK'
    BY <1>1 DEF Base, TypeOK, LockOK, scull_pipe_open, Goto, dev, queues, PC, end
  <2> QED BY <2>1, <2>2 DEF Base
<1>2. ASSUME NEW p \in Procs, scull_pipe_open_end(p)
      PROVE  Base'
  <2>1. TypeOK'
    BY <1>2 DEF Base, TypeOK, LockOK, scull_pipe_open_end, Goto, dev, queues, PC, end
  <2>2. LockOK'
    BY <1>2 DEF Base, TypeOK, LockOK, scull_pipe_open_end, Goto, dev, queues, PC, end
  <2> QED BY <2>1, <2>2 DEF Base
<1>3. ASSUME NEW p \in Procs, scull_pipe_release(p)
      PROVE  Base'
  <2>1. TypeOK'
    BY <1>3 DEF Base, TypeOK, LockOK, scull_pipe_release, Goto, dev, queues, PC, end
  <2>2. LockOK'
    BY <1>3 DEF Base, TypeOK, LockOK, scull_pipe_release, Goto, dev, queues, PC, end
  <2> QED BY <2>1, <2>2 DEF Base
<1>4. ASSUME NEW p \in Procs, scull_pipe_release_end(p)
      PROVE  Base'
  <2>1. TypeOK'
    BY <1>4 DEF Base, TypeOK, LockOK, scull_pipe_release_end, Goto, dev, queues, PC, end
  <2>2. LockOK'
    BY <1>4 DEF Base, TypeOK, LockOK, scull_pipe_release_end, Goto, dev, queues, PC, end
  <2> QED BY <2>1, <2>2 DEF Base
<1>5. ASSUME NEW p \in Procs, \E on \in BOOLEAN : scull_pipe_fasync(p, on)
      PROVE  Base'
  <2>1. TypeOK'
    BY <1>5 DEF Base, TypeOK, LockOK, scull_pipe_fasync, Goto, dev, queues, PC, end
  <2>2. LockOK'
    BY <1>5 DEF Base, TypeOK, LockOK, scull_pipe_fasync, Goto, dev, queues, PC, end
  <2> QED BY <2>1, <2>2 DEF Base
<1>6. ASSUME NEW p \in Procs, scull_pipe_read_empty(p)
      PROVE  Base'
  <2>1. TypeOK'
    BY <1>6, SMTT(30) DEF Base, TypeOK, LockOK, scull_pipe_read_empty, InRead, Goto, dev, queues, PC, end
  <2>2. LockOK'
    BY <1>6, SMTT(30) DEF Base, TypeOK, LockOK, scull_pipe_read_empty, InRead, Goto, dev, queues, PC, end
  <2> QED BY <2>1, <2>2 DEF Base
<1>7. ASSUME NEW p \in Procs, \E n \in Counts : scull_pipe_read(p, n)
      PROVE  Base'
  <2>0. PICK n \in Counts : scull_pipe_read(p, n)
    BY <1>7
  <2>a. rp' \in 0 .. end /\ ubuf' \in [Procs -> Seq(Byte \cup {Garbage})]
    BY <2>0, ReadTypes
  <2>1. TypeOK'
    BY <2>0, <2>a DEF Base, TypeOK, scull_pipe_read, Goto, queues, PC, end
  <2>2. LockOK'
    BY <1>7, SMTT(30) DEF Base, TypeOK, LockOK, scull_pipe_read, InRead, Goto, dev, queues, PC, end
  <2> QED BY <2>1, <2>2 DEF Base
<1>8. ASSUME NEW p \in Procs, scull_pipe_read_wrap(p)
      PROVE  Base'
  <2>1. TypeOK'
    BY <1>8 DEF Base, TypeOK, LockOK, scull_pipe_read_wrap, Wrap, Goto, dev, queues, PC, end
  <2>2. LockOK'
    BY <1>8 DEF Base, TypeOK, LockOK, scull_pipe_read_wrap, Wrap, Goto, dev, queues, PC, end
  <2> QED BY <2>1, <2>2 DEF Base
<1>9. ASSUME NEW p \in Procs, scull_pipe_read_wake(p)
      PROVE  Base'
  <2>1. TypeOK'
    BY <1>9 DEF Base, TypeOK, LockOK, scull_pipe_read_wake, wake_up, Goto, dev, queues, PC, end
  <2>2. LockOK'
    BY <1>9 DEF Base, TypeOK, LockOK, scull_pipe_read_wake, wake_up, Goto, dev, queues, PC, end
  <2> QED BY <2>1, <2>2 DEF Base
<1>10. ASSUME NEW p \in Procs, read_wait_nosleep(p)
      PROVE  Base'
  <2>1. TypeOK'
    BY <1>10 DEF Base, TypeOK, LockOK, read_wait_nosleep, Goto, dev, queues, PC, end
  <2>2. LockOK'
    BY <1>10 DEF Base, TypeOK, LockOK, read_wait_nosleep, Goto, dev, queues, PC, end
  <2> QED BY <2>1, <2>2 DEF Base
<1>11. ASSUME NEW p \in Procs, read_wait_prepare(p)
      PROVE  Base'
  <2>1. TypeOK'
    BY <1>11 DEF Base, TypeOK, LockOK, read_wait_prepare, prepare_to_wait, Goto, dev, queues, PC, end
  <2>2. LockOK'
    BY <1>11 DEF Base, TypeOK, LockOK, read_wait_prepare, prepare_to_wait, Goto, dev, queues, PC, end
  <2> QED BY <2>1, <2>2 DEF Base
<1>12. ASSUME NEW p \in Procs, read_wait_load(p)
      PROVE  Base'
  <2>1. TypeOK'
    BY <1>12 DEF Base, TypeOK, LockOK, read_wait_load, LoadOne, Goto, dev, queues, PC, end
  <2>2. LockOK'
    BY <1>12 DEF Base, TypeOK, LockOK, read_wait_load, LoadOne, Goto, dev, queues, PC, end
  <2> QED BY <2>1, <2>2 DEF Base
<1>13. ASSUME NEW p \in Procs, read_wait_test(p)
      PROVE  Base'
  <2>a. load' \in [Procs -> {"rp", "wp"} \X (0 .. end)]
    BY <1>13, NoLoadType DEF Base, TypeOK, read_wait_test, Unload
  <2>b. \/ pc' = [pc EXCEPT ![p] = "r_lock"]
        \/ pc' = [pc EXCEPT ![p] = "r_sched"]
    BY <1>13 DEF read_wait_test, Goto
  <2>c. inq' \subseteq Procs /\ outq' \subseteq Procs /\ caught' \subseteq outq'
    BY <1>13 DEF Base, TypeOK, read_wait_test, finish_wait
  <2>1. TypeOK'
    <3>1. pc' \in [Procs -> PC]
      BY <2>b DEF Base, TypeOK, PC
    <3> QED BY <1>13, <2>a, <2>c, <3>1 DEF Base, TypeOK, read_wait_test, dev, end
  <2>2. LockOK'
    <3>1. mutex' = mutex /\ rp' = rp /\ wp' = wp /\ pc[p] = "r_test"
      BY <1>13 DEF read_wait_test, dev
    <3>2. \A q \in Procs :
            /\ pc'[q] \in {"open", "r_wrap", "w_wrap"} <=> pc[q] \in {"open", "r_wrap", "w_wrap"}
            /\ pc'[q] = "r_wrap" <=> pc[q] = "r_wrap"
            /\ pc'[q] = "w_wrap" <=> pc[q] = "w_wrap"
      BY <2>b, <3>1 DEF Base, TypeOK
    <3> QED BY <3>1, <3>2 DEF Base, LockOK, end
  <2> QED BY <2>1, <2>2 DEF Base
<1>14. ASSUME NEW p \in Procs, read_wait_signal(p)
      PROVE  Base'
  <2>1. TypeOK'
    BY <1>14 DEF Base, TypeOK, LockOK, read_wait_signal, finish_wait, Goto, dev, queues, PC, end
  <2>2. LockOK'
    BY <1>14 DEF Base, TypeOK, LockOK, read_wait_signal, finish_wait, Goto, dev, queues, PC, end
  <2> QED BY <2>1, <2>2 DEF Base
<1>15. ASSUME NEW p \in Procs, scull_pipe_write_full(p)
      PROVE  Base'
  <2>1. TypeOK'
    BY <1>15, SMTT(30) DEF Base, TypeOK, LockOK, scull_pipe_write_full, InWrite, Goto, dev, queues, PC, end
  <2>2. LockOK'
    BY <1>15, SMTT(30) DEF Base, TypeOK, LockOK, scull_pipe_write_full, InWrite, Goto, dev, queues, PC, end
  <2> QED BY <2>1, <2>2 DEF Base
<1>16. ASSUME NEW p \in Procs, \E s \in Data : scull_pipe_write(p, s)
      PROVE  Base'
  <2>1. TypeOK'
    BY <1>16, WriteTypes, ZenonT(30) DEF Base, TypeOK, LockOK, scull_pipe_write, InWrite, Goto, dev, queues, PC, end
  <2>2. LockOK'
    BY <1>16, SMTT(30) DEF Base, TypeOK, LockOK, scull_pipe_write, InWrite, Goto, dev, queues, PC, end
  <2> QED BY <2>1, <2>2 DEF Base
<1>17. ASSUME NEW p \in Procs, scull_pipe_write_wrap(p)
      PROVE  Base'
  <2>1. TypeOK'
    BY <1>17 DEF Base, TypeOK, LockOK, scull_pipe_write_wrap, Wrap, Goto, dev, queues, PC, end
  <2>2. LockOK'
    BY <1>17 DEF Base, TypeOK, LockOK, scull_pipe_write_wrap, Wrap, Goto, dev, queues, PC, end
  <2> QED BY <2>1, <2>2 DEF Base
<1>18. ASSUME NEW p \in Procs, scull_pipe_write_wake(p)
      PROVE  Base'
  <2>1. TypeOK'
    BY <1>18 DEF Base, TypeOK, LockOK, scull_pipe_write_wake, wake_up, Goto, dev, queues, PC, end
  <2>2. LockOK'
    BY <1>18 DEF Base, TypeOK, LockOK, scull_pipe_write_wake, wake_up, Goto, dev, queues, PC, end
  <2> QED BY <2>1, <2>2 DEF Base
<1>19. ASSUME NEW p \in Procs, write_wait_prepare(p)
      PROVE  Base'
  <2>1. TypeOK'
    BY <1>19 DEF Base, TypeOK, LockOK, write_wait_prepare, prepare_to_wait, Goto, dev, queues, PC, end
  <2>2. LockOK'
    BY <1>19 DEF Base, TypeOK, LockOK, write_wait_prepare, prepare_to_wait, Goto, dev, queues, PC, end
  <2> QED BY <2>1, <2>2 DEF Base
<1>20. ASSUME NEW p \in Procs, write_wait_load(p)
      PROVE  Base'
  <2>1. TypeOK'
    BY <1>20 DEF Base, TypeOK, LockOK, write_wait_load, LoadOne, Goto, dev, queues, PC, end
  <2>2. LockOK'
    BY <1>20 DEF Base, TypeOK, LockOK, write_wait_load, LoadOne, Goto, dev, queues, PC, end
  <2> QED BY <2>1, <2>2 DEF Base
<1>21. ASSUME NEW p \in Procs, write_wait_test(p)
      PROVE  Base'
  <2>a. load' \in [Procs -> {"rp", "wp"} \X (0 .. end)]
    BY <1>21, NoLoadType DEF Base, TypeOK, write_wait_test, Unload
  <2>b. \/ pc' = [pc EXCEPT ![p] = "w_lock"]
        \/ pc' = [pc EXCEPT ![p] = "w_sched"]
    BY <1>21 DEF write_wait_test, Goto
  <2>c. inq' \subseteq Procs /\ outq' \subseteq Procs /\ caught' \subseteq outq'
    BY <1>21 DEF Base, TypeOK, write_wait_test, LeaveOutq, finish_wait
  <2>1. TypeOK'
    BY <1>21, <2>a, <2>b, <2>c DEF Base, TypeOK, write_wait_test, dev, PC, end
  <2>2. LockOK'
    BY <1>21, <2>b DEF Base, TypeOK, LockOK, write_wait_test, dev, end
  <2> QED BY <2>1, <2>2 DEF Base
<1>22. ASSUME NEW p \in Procs, write_wait_woken(p)
      PROVE  Base'
  <2>1. TypeOK'
    BY <1>22 DEF Base, TypeOK, LockOK, write_wait_woken, Goto, dev, queues, PC, end
  <2>2. LockOK'
    BY <1>22 DEF Base, TypeOK, LockOK, write_wait_woken, Goto, dev, queues, PC, end
  <2> QED BY <2>1, <2>2 DEF Base
<1>23. ASSUME NEW p \in Procs, write_wait_signal(p)
      PROVE  Base'
  <2>1. TypeOK'
    BY <1>23 DEF Base, TypeOK, LockOK, write_wait_signal, LeaveOutq, finish_wait, Goto, dev, queues, PC, end
  <2>2. LockOK'
    BY <1>23 DEF Base, TypeOK, LockOK, write_wait_signal, LeaveOutq, finish_wait, Goto, dev, queues, PC, end
  <2> QED BY <2>1, <2>2 DEF Base
<1>24. ASSUME NEW p \in Procs, lock_interrupted(p)
      PROVE  Base'
  <2>1. TypeOK'
    BY <1>24 DEF Base, TypeOK, LockOK, lock_interrupted, Goto, dev, queues, PC, end
  <2>2. LockOK'
    BY <1>24 DEF Base, TypeOK, LockOK, lock_interrupted, Goto, dev, queues, PC, end
  <2> QED BY <2>1, <2>2 DEF Base
<1>25. ASSUME NEW p \in Procs, \E ev \in {"poll_in", "poll_out"} : scull_pipe_poll_sleep(p, ev)
      PROVE  Base'
  <2>1. TypeOK'
    BY <1>25 DEF Base, TypeOK, LockOK, scull_pipe_poll_sleep, prepare_to_wait, Goto, dev, queues, PC, end
  <2>2. LockOK'
    BY <1>25 DEF Base, TypeOK, LockOK, scull_pipe_poll_sleep, prepare_to_wait, Goto, dev, queues, PC, end
  <2> QED BY <2>1, <2>2 DEF Base
<1>26. ASSUME NEW p \in Procs, \E ev \in {"poll_in", "poll_out"} : scull_pipe_poll_ready(p, ev)
      PROVE  Base'
  <2>1. TypeOK'
    BY <1>26 DEF Base, TypeOK, LockOK, scull_pipe_poll_ready, LeaveQueues, LeaveOutq, finish_wait, Goto, dev, queues, PC, end
  <2>2. LockOK'
    BY <1>26 DEF Base, TypeOK, LockOK, scull_pipe_poll_ready, LeaveQueues, LeaveOutq, finish_wait, Goto, dev, queues, PC, end
  <2> QED BY <2>1, <2>2 DEF Base
<1>27. ASSUME NEW p \in Procs, poll_timeout(p)
      PROVE  Base'
  <2>1. TypeOK'
    BY <1>27 DEF Base, TypeOK, LockOK, poll_timeout, LeaveQueues, LeaveOutq, finish_wait, Goto, dev, queues, PC, end
  <2>2. LockOK'
    BY <1>27 DEF Base, TypeOK, LockOK, poll_timeout, LeaveQueues, LeaveOutq, finish_wait, Goto, dev, queues, PC, end
  <2> QED BY <2>1, <2>2 DEF Base
<1> QED BY <1>0, <1>1, <1>2, <1>3, <1>4, <1>5, <1>6, <1>7, <1>8, <1>9, <1>10, <1>11, <1>12, <1>13, <1>14, <1>15, <1>16, <1>17, <1>18, <1>19, <1>20, <1>21, <1>22, <1>23, <1>24, <1>25, <1>26, <1>27 DEF Next, Step, Call

(* The state after the module is loaded is well typed and the mutex free. *)
LEMMA InitBase == Init => Base
<1>1. Init => TypeOK
  <2>1. <<>> \in Seq(Byte \cup {Garbage})
    BY EmptySeq
  <2>2. Init => ubuf \in [Procs -> Seq(Byte \cup {Garbage})]
    BY <2>1 DEF Init
  <2>3. Init => load \in [Procs -> {"rp", "wp"} \X (0 .. end)]
    BY NoLoadType DEF Init
  <2>4. Init => mem \in [Offset -> Byte \cup {Garbage}]
    BY DEF Init
  <2>5. Init => /\ f_mode \in [Procs -> SUBSET {"r", "w"}]
                /\ pc \in [Procs -> PC]
                /\ rp \in 0 .. end /\ wp \in 0 .. end
    BY PipeAssumption DEF Init, PC, end
  <2>7. Init => buffer \in BOOLEAN
    BY DEF Init
  <2>6. Init => /\ nreaders \in Int /\ nwriters \in Int
                /\ inq \subseteq Procs /\ outq \subseteq Procs
                /\ caught \subseteq outq /\ async_queue \subseteq Procs
                /\ mutex \in Procs \cup {NoProc}
    BY DEF Init
  <2> QED BY <2>2, <2>3, <2>4, <2>5, <2>6, <2>7 DEF TypeOK
<1>2. Init => LockOK
  BY PipeAssumption DEF Init, LockOK, end
<1> QED BY <1>1, <1>2 DEF Base

(* The variables keep their types and the pointers stay in the buffer.     *)
THEOREM TypeCorrect == Spec => []TypeOK
<1>1. Init => Base
  BY InitBase
<1>2. Base /\ [Next]_vars => Base'
  BY BaseStep
<1>3. Base => TypeOK
  BY DEF Base
<1> QED BY <1>1, <1>2, <1>3, PTL DEF Spec

-----------------------------------------------------------------------------
(***************************************************************************)
(* No lost wake-ups.  The invariant is stated process by process, so that  *)
(* a step of p needs care only for p, for the pointers and for the         *)
(* processes that are bound to wake the others.                            *)
(***************************************************************************)
(* p moves; nobody else's control state changes and nobody else joins a    *)
(* wait queue.                                                             *)
OnlyMoves(p) ==
  \A q \in Procs \ {p} :
    /\ pc'[q] = pc[q] /\ load'[q] = load[q]
    /\ q \in inq' => q \in inq
    /\ q \in outq' \ caught' => q \in outq \ caught

(* A step of one process, whatever the handler, leaves the others where    *)
(* they are and puts no other process on a wait queue: only wake-ups reach *)
(* across processes.                                                       *)
LEMMA StepMovesOne ==
  ASSUME TypeOK, NEW p \in Procs, Step(p) \/ Call(p)
  PROVE  OnlyMoves(p)
<1>1. CASE \E mode \in Modes : scull_pipe_open(p, mode)
  BY <1>1 DEF TypeOK, OnlyMoves, scull_pipe_open, Goto, queues
<1>2. CASE scull_pipe_open_end(p)
  BY <1>2 DEF TypeOK, OnlyMoves, scull_pipe_open_end, Goto, queues
<1>3. CASE scull_pipe_release(p)
  BY <1>3 DEF TypeOK, OnlyMoves, scull_pipe_release, Goto, queues
<1>4. CASE scull_pipe_release_end(p)
  BY <1>4 DEF TypeOK, OnlyMoves, scull_pipe_release_end, Goto, queues
<1>5. CASE \E on \in BOOLEAN : scull_pipe_fasync(p, on)
  BY <1>5 DEF TypeOK, OnlyMoves, scull_pipe_fasync, Goto, queues
<1>6. CASE scull_pipe_read_empty(p)
  BY <1>6 DEF TypeOK, OnlyMoves, scull_pipe_read_empty, Goto, queues
<1>7. CASE \E n \in Counts : scull_pipe_read(p, n)
  BY <1>7 DEF TypeOK, OnlyMoves, scull_pipe_read, Goto, queues
<1>8. CASE scull_pipe_read_wrap(p)
  BY <1>8 DEF TypeOK, OnlyMoves, scull_pipe_read_wrap, Goto, queues
<1>9. CASE scull_pipe_read_wake(p)
  BY <1>9 DEF TypeOK, OnlyMoves, scull_pipe_read_wake, wake_up, Goto, queues
<1>10. CASE read_wait_nosleep(p)
  BY <1>10 DEF TypeOK, OnlyMoves, read_wait_nosleep, Goto, queues
<1>11. CASE read_wait_prepare(p)
  BY <1>11 DEF TypeOK, OnlyMoves, read_wait_prepare, prepare_to_wait, Goto, queues
<1>12. CASE read_wait_load(p)
  BY <1>12 DEF TypeOK, OnlyMoves, read_wait_load, LoadOne, Goto, queues
<1>13. CASE read_wait_test(p)
  BY <1>13 DEF TypeOK, OnlyMoves, read_wait_test, Unload, finish_wait, Goto, queues
<1>14. CASE read_wait_signal(p)
  BY <1>14 DEF TypeOK, OnlyMoves, read_wait_signal, finish_wait, Goto, queues
<1>15. CASE scull_pipe_write_full(p)
  BY <1>15 DEF TypeOK, OnlyMoves, scull_pipe_write_full, Goto, queues
<1>16. CASE \E s \in Data : scull_pipe_write(p, s)
  BY <1>16 DEF TypeOK, OnlyMoves, scull_pipe_write, Goto, queues
<1>17. CASE scull_pipe_write_wrap(p)
  BY <1>17 DEF TypeOK, OnlyMoves, scull_pipe_write_wrap, Goto, queues
<1>18. CASE scull_pipe_write_wake(p)
  BY <1>18 DEF TypeOK, OnlyMoves, scull_pipe_write_wake, wake_up, Goto, queues
<1>19. CASE write_wait_prepare(p)
  BY <1>19 DEF TypeOK, OnlyMoves, write_wait_prepare, prepare_to_wait, Goto, queues
<1>20. CASE write_wait_load(p)
  BY <1>20 DEF TypeOK, OnlyMoves, write_wait_load, LoadOne, Goto, queues
<1>21. CASE write_wait_test(p)
  BY <1>21 DEF TypeOK, OnlyMoves, write_wait_test, Unload, LeaveOutq, finish_wait, Goto, queues
<1>22. CASE write_wait_woken(p)
  BY <1>22 DEF TypeOK, OnlyMoves, write_wait_woken, Goto, queues
<1>23. CASE write_wait_signal(p)
  BY <1>23 DEF TypeOK, OnlyMoves, write_wait_signal, LeaveOutq, finish_wait, Goto, queues
<1>24. CASE lock_interrupted(p)
  BY <1>24 DEF TypeOK, OnlyMoves, lock_interrupted, Goto, queues
<1>25. CASE \E ev \in {"poll_in", "poll_out"} : scull_pipe_poll_sleep(p, ev)
  BY <1>25 DEF TypeOK, OnlyMoves, scull_pipe_poll_sleep, prepare_to_wait, Goto, queues
<1>26. CASE \E ev \in {"poll_in", "poll_out"} : scull_pipe_poll_ready(p, ev)
  BY <1>26 DEF TypeOK, OnlyMoves, scull_pipe_poll_ready, LeaveQueues, LeaveOutq, finish_wait, Goto, queues
<1>27. CASE poll_timeout(p)
  BY <1>27 DEF TypeOK, OnlyMoves, poll_timeout, LeaveQueues, LeaveOutq, finish_wait, Goto, queues
<1> QED BY <1>1, <1>2, <1>3, <1>4, <1>5, <1>6, <1>7, <1>8, <1>9, <1>10, <1>11, <1>12, <1>13, <1>14, <1>15, <1>16, <1>17, <1>18, <1>19, <1>20, <1>21, <1>22, <1>23, <1>24, <1>25, <1>26, <1>27 DEF Step, Call

(* A reader q that is asleep, or about to decide, is right or will be woken. *)
ReaderOK(q) ==
  q \in inq =>
    /\ pc[q] \in {"r_sched", "poll_in"} => Empty \/ WillWakeInq
    /\ pc[q] = "r_test" =>
         \/ WillWakeInq
         \/ Empty
         \/ load[q][1] = "rp" /\ load[q][2] # wp
         \/ load[q][1] = "wp" /\ load[q][2] = wp

(* What the invariant says of readers, said of one reader at a time.       *)
LEMMA ReadersAreOK ==
  ASSUME TypeOK
  PROVE  (\A q \in Procs : ReaderOK(q)) <=> ReaderNotStranded /\ ReaderDecision
BY DEF TypeOK, ReaderOK, ReaderNotStranded, ReaderDecision

(* A step of p that leaves the pointers alone and does not end p's duty to *)
(* wake inq needs care for p only.                                         *)
LEMMA ReaderFrame ==
  ASSUME NEW p \in Procs, \A q \in Procs : ReaderOK(q),
         OnlyMoves(p), rp' = rp, wp' = wp,
         pc[p] \notin {"w_wrap", "w_wake", "open"},
         ReaderOK(p)'
  PROVE  \A q \in Procs : ReaderOK(q)'
<1>1. WillWakeInq => WillWakeInq'
  BY DEF OnlyMoves, WillWakeInq
<1>2. Empty' = Empty
  BY DEF Empty, Wrap, end
<1>3. ASSUME NEW q \in Procs, q # p
      PROVE  ReaderOK(q)'
  <2>1. pc'[q] = pc[q] /\ load'[q] = load[q] /\ (q \in inq' => q \in inq)
    BY <1>3 DEF OnlyMoves
  <2>2. ReaderOK(q)
    OBVIOUS
  <2> HIDE DEF Empty, WillWakeInq
  <2> QED BY <1>1, <1>2, <2>1, <2>2 DEF ReaderOK
<1> QED BY <1>3

(* Every step keeps the readers' part: a write that makes data leaves its  *)
(* author bound to wake inq, and a read cannot undo emptiness.             *)
LEMMA ReaderStep ==
  ASSUME Base, \A q \in Procs : ReaderOK(q), NEW p \in Procs, Step(p) \/ Call(p)
  PROVE  \A q \in Procs : ReaderOK(q)'
<1>0. OnlyMoves(p)
  BY StepMovesOne DEF Base
<1> USE DEF Base, TypeOK
<1>1. CASE \E mode \in Modes : scull_pipe_open(p, mode)
  <2>1. pc'[p] = "open"
    BY <1>1 DEF scull_pipe_open, Goto
  <2>2. WillWakeInq'
    BY <2>1 DEF WillWakeInq
  <2> QED BY <2>2 DEF ReaderOK
<1>2. CASE scull_pipe_open_end(p)
  <2>1. Empty'
    BY <1>2 DEF scull_pipe_open_end, Empty
  <2> QED BY <2>1 DEF ReaderOK
<1>3. CASE scull_pipe_release(p)
  <2>1. /\ rp' = rp /\ wp' = wp
        /\ pc[p] \notin {"w_wrap", "w_wake", "open"}
        /\ pc'[p] \in {"release"}
    BY <1>3 DEF scull_pipe_release, dev, Goto
  <2>2. ReaderOK(p)'
    BY <2>1 DEF ReaderOK
  <2> QED BY <1>0, <2>1, <2>2, ReaderFrame
<1>4. CASE scull_pipe_release_end(p)
  <2>1. /\ rp' = rp /\ wp' = wp
        /\ pc[p] \notin {"w_wrap", "w_wake", "open"}
        /\ pc'[p] \in {"closed"}
    BY <1>4 DEF scull_pipe_release_end, Goto
  <2>2. ReaderOK(p)'
    BY <2>1 DEF ReaderOK
  <2> QED BY <1>0, <2>1, <2>2, ReaderFrame
<1>5. CASE \E on \in BOOLEAN : scull_pipe_fasync(p, on)
  <2>1. rp' = rp /\ wp' = wp /\ pc[p] = "idle" /\ pc' = pc
    BY <1>5 DEF scull_pipe_fasync, dev
  <2>2. ReaderOK(p)'
    BY <2>1 DEF ReaderOK
  <2> QED BY <1>0, <2>1, <2>2, ReaderFrame
<1>6. CASE scull_pipe_read_empty(p)
  <2>1. /\ rp' = rp /\ wp' = wp
        /\ pc[p] \notin {"w_wrap", "w_wake", "open"}
        /\ pc'[p] \in {"idle", "r_wait"}
    BY <1>6 DEF scull_pipe_read_empty, InRead, dev, Goto
  <2>2. ReaderOK(p)'
    BY <2>1 DEF ReaderOK
  <2> QED BY <1>0, <2>1, <2>2, ReaderFrame
<1>7. CASE \E n \in Counts : scull_pipe_read(p, n)
  <2>1. PICK n \in Counts : scull_pipe_read(p, n)
    BY <1>7
  <2>2. /\ wp' = wp /\ pc[p] \in {"idle", "r_lock"} /\ pc'[p] \in {"r_wrap", "idle"}
    BY <2>1 DEF scull_pipe_read, InRead, Goto
  <2>3. WillWakeInq => WillWakeInq'
    BY <1>0, <2>2 DEF OnlyMoves, WillWakeInq
  <2>4. ~Empty
    BY <2>1, PointersInside, PipeAssumption DEF scull_pipe_read, InRead, Empty, Wrap, Offset, end
  <2>5. ASSUME NEW q \in Procs, q # p PROVE ReaderOK(q)'
    <3>1. pc'[q] = pc[q] /\ load'[q] = load[q] /\ (q \in inq' => q \in inq)
      BY <1>0, <2>5 DEF OnlyMoves
    <3>2. ReaderOK(q)
      OBVIOUS
    <3> QED BY <2>2, <2>3, <2>4, <3>1, <3>2 DEF ReaderOK
  <2> QED BY <2>2, <2>5 DEF ReaderOK
<1>8. CASE scull_pipe_read_wrap(p)
  <2>1. Empty' = Empty /\ wp' = wp
    BY <1>8, PipeAssumption DEF scull_pipe_read_wrap, Empty, Wrap, end
  <2>2. pc[p] = "r_wrap" /\ pc'[p] = "r_wake"
    BY <1>8 DEF scull_pipe_read_wrap, Goto
  <2>3. WillWakeInq => WillWakeInq'
    BY <1>0, <2>2 DEF OnlyMoves, WillWakeInq
  <2>4. ASSUME NEW q \in Procs, q # p PROVE ReaderOK(q)'
    <3>1. pc'[q] = pc[q] /\ load'[q] = load[q] /\ (q \in inq' => q \in inq)
      BY <1>0, <2>4 DEF OnlyMoves
    <3>2. ReaderOK(q)
      OBVIOUS
    <3> QED BY <2>1, <2>3, <3>1, <3>2 DEF ReaderOK
  <2> QED BY <2>2, <2>4 DEF ReaderOK
<1>9. CASE scull_pipe_read_wake(p)
  <2>1. /\ rp' = rp /\ wp' = wp
        /\ pc[p] \notin {"w_wrap", "w_wake", "open"}
        /\ pc'[p] \in {"idle"}
    BY <1>9 DEF scull_pipe_read_wake, dev, Goto
  <2>2. ReaderOK(p)'
    BY <2>1 DEF ReaderOK
  <2> QED BY <1>0, <2>1, <2>2, ReaderFrame
<1>10. CASE read_wait_nosleep(p)
  <2>1. /\ rp' = rp /\ wp' = wp
        /\ pc[p] \notin {"w_wrap", "w_wake", "open"}
        /\ pc'[p] \in {"r_lock"}
    BY <1>10 DEF read_wait_nosleep, dev, Goto
  <2>2. ReaderOK(p)'
    BY <2>1 DEF ReaderOK
  <2> QED BY <1>0, <2>1, <2>2, ReaderFrame
<1>11. CASE read_wait_prepare(p)
  <2>1. /\ rp' = rp /\ wp' = wp
        /\ pc[p] \notin {"w_wrap", "w_wake", "open"}
        /\ pc'[p] \in {"r_load"}
    BY <1>11 DEF read_wait_prepare, dev, Goto
  <2>2. ReaderOK(p)'
    BY <2>1 DEF ReaderOK
  <2> QED BY <1>0, <2>1, <2>2, ReaderFrame
<1>12. CASE read_wait_load(p)
  <2>1. rp' = rp /\ wp' = wp /\ pc[p] = "r_load" /\ pc'[p] = "r_test"
    BY <1>12 DEF read_wait_load, dev, Goto
  <2>2. load'[p] = <<"rp", rp>> \/ load'[p] = <<"wp", wp>>
    BY <1>12 DEF read_wait_load, LoadOne
  <2>3. rp = wp => Empty'
    BY <2>1 DEF Empty, Wrap
  <2>4. ReaderOK(p)'
    BY <2>1, <2>2, <2>3 DEF ReaderOK
  <2> QED BY <1>0, <2>1, <2>4, ReaderFrame
<1>13. CASE read_wait_test(p)
  <2>1. rp' = rp /\ wp' = wp /\ pc[p] = "r_test"
    BY <1>13 DEF read_wait_test, dev
  <2>2. CASE pc'[p] = "r_sched"
    <3>1. SeenRp(p) = SeenWp(p) /\ inq' = inq
      BY <1>13, <2>2 DEF read_wait_test, Goto
    <3>2. ReaderOK(p)
      OBVIOUS
    <3>3. p \in inq => Empty \/ WillWakeInq
      BY <2>1, <3>1, <3>2 DEF ReaderOK, SeenRp, SeenWp, Empty
    <3>4. WillWakeInq => WillWakeInq'
      BY <1>0, <2>1 DEF OnlyMoves, WillWakeInq
    <3>5. Empty' = Empty
      BY <2>1 DEF Empty, Wrap, end
    <3>6. ReaderOK(p)'
      BY <2>2, <3>1, <3>3, <3>4, <3>5 DEF ReaderOK
    <3> QED BY <1>0, <2>1, <3>6, ReaderFrame
  <2>3. CASE pc'[p] # "r_sched"
    <3>1. pc'[p] = "r_lock"
      BY <1>13, <2>3 DEF read_wait_test, Goto
    <3>2. ReaderOK(p)'
      BY <3>1 DEF ReaderOK
    <3> QED BY <1>0, <2>1, <3>2, ReaderFrame
  <2> QED BY <2>2, <2>3
<1>14. CASE read_wait_signal(p)
  <2>1. /\ rp' = rp /\ wp' = wp
        /\ pc[p] \notin {"w_wrap", "w_wake", "open"}
        /\ pc'[p] \in {"r_lock", "idle"}
    BY <1>14 DEF read_wait_signal, dev, Goto
  <2>2. ReaderOK(p)'
    BY <2>1 DEF ReaderOK
  <2> QED BY <1>0, <2>1, <2>2, ReaderFrame
<1>15. CASE scull_pipe_write_full(p)
  <2>1. /\ rp' = rp /\ wp' = wp
        /\ pc[p] \notin {"w_wrap", "w_wake", "open"}
        /\ pc'[p] \in {"idle", "w_wait"}
    BY <1>15 DEF scull_pipe_write_full, InWrite, dev, Goto
  <2>2. ReaderOK(p)'
    BY <2>1 DEF ReaderOK
  <2> QED BY <1>0, <2>1, <2>2, ReaderFrame
<1>16. CASE \E s \in Data : scull_pipe_write(p, s)
  <2>1. PICK s \in Data : scull_pipe_write(p, s)
    BY <1>16
  <2>2. CASE pc'[p] = "w_wrap"
    BY <2>2 DEF WillWakeInq, ReaderOK
  <2>3. CASE pc'[p] # "w_wrap"
    <3>1. rp' = rp /\ wp' = wp /\ pc'[p] = "idle" /\ pc[p] \in {"idle", "w_lock"}
      BY <2>1, <2>3 DEF scull_pipe_write, InWrite, Goto
    <3>2. ReaderOK(p)'
      BY <3>1 DEF ReaderOK
    <3> QED BY <1>0, <3>1, <3>2, ReaderFrame
  <2> QED BY <2>2, <2>3
<1>17. CASE scull_pipe_write_wrap(p)
  <2>1. pc'[p] = "w_wake"
    BY <1>17 DEF scull_pipe_write_wrap, Goto
  <2> QED BY <2>1 DEF WillWakeInq, ReaderOK
<1>18. CASE scull_pipe_write_wake(p)
  <2>1. inq' = {}
    BY <1>18 DEF scull_pipe_write_wake, wake_up
  <2> QED BY <2>1 DEF ReaderOK
<1>19. CASE write_wait_prepare(p)
  <2>1. /\ rp' = rp /\ wp' = wp
        /\ pc[p] \notin {"w_wrap", "w_wake", "open"}
        /\ pc'[p] \in {"w_load"}
    BY <1>19 DEF write_wait_prepare, dev, Goto
  <2>2. ReaderOK(p)'
    BY <2>1 DEF ReaderOK
  <2> QED BY <1>0, <2>1, <2>2, ReaderFrame
<1>20. CASE write_wait_load(p)
  <2>1. /\ rp' = rp /\ wp' = wp
        /\ pc[p] \notin {"w_wrap", "w_wake", "open"}
        /\ pc'[p] \in {"w_test"}
    BY <1>20 DEF write_wait_load, dev, Goto
  <2>2. ReaderOK(p)'
    BY <2>1 DEF ReaderOK
  <2> QED BY <1>0, <2>1, <2>2, ReaderFrame
<1>21. CASE write_wait_test(p)
  <2>1. /\ rp' = rp /\ wp' = wp
        /\ pc[p] \notin {"w_wrap", "w_wake", "open"}
        /\ pc'[p] \in {"w_sched", "w_lock"}
    BY <1>21 DEF write_wait_test, dev, Goto
  <2>2. ReaderOK(p)'
    BY <2>1 DEF ReaderOK
  <2> QED BY <1>0, <2>1, <2>2, ReaderFrame
<1>22. CASE write_wait_woken(p)
  <2>1. /\ rp' = rp /\ wp' = wp
        /\ pc[p] \notin {"w_wrap", "w_wake", "open"}
        /\ pc'[p] \in {"w_lock"}
    BY <1>22 DEF write_wait_woken, dev, Goto
  <2>2. ReaderOK(p)'
    BY <2>1 DEF ReaderOK
  <2> QED BY <1>0, <2>1, <2>2, ReaderFrame
<1>23. CASE write_wait_signal(p)
  <2>1. /\ rp' = rp /\ wp' = wp
        /\ pc[p] \notin {"w_wrap", "w_wake", "open"}
        /\ pc'[p] \in {"idle"}
    BY <1>23 DEF write_wait_signal, dev, Goto
  <2>2. ReaderOK(p)'
    BY <2>1 DEF ReaderOK
  <2> QED BY <1>0, <2>1, <2>2, ReaderFrame
<1>24. CASE lock_interrupted(p)
  <2>1. /\ rp' = rp /\ wp' = wp
        /\ pc[p] \notin {"w_wrap", "w_wake", "open"}
        /\ pc'[p] \in {"idle"}
    BY <1>24 DEF lock_interrupted, dev, Goto
  <2>2. ReaderOK(p)'
    BY <2>1 DEF ReaderOK
  <2> QED BY <1>0, <2>1, <2>2, ReaderFrame
<1>25. CASE \E ev \in {"poll_in", "poll_out"} : scull_pipe_poll_sleep(p, ev)
  <2>1. PICK ev \in {"poll_in", "poll_out"} : scull_pipe_poll_sleep(p, ev)
    BY <1>25
  <2>2. rp' = rp /\ wp' = wp /\ pc[p] \in {"idle", ev} /\ pc'[p] = ev
    BY <2>1 DEF scull_pipe_poll_sleep, dev, Goto
  <2>3. ev = "poll_in" => Empty'
    BY <2>1, <2>2 DEF scull_pipe_poll_sleep, Ready, Empty, Wrap
  <2>4. ReaderOK(p)'
    BY <2>2, <2>3 DEF ReaderOK
  <2> QED BY <1>0, <2>2, <2>4, ReaderFrame
<1>26. CASE \E ev \in {"poll_in", "poll_out"} : scull_pipe_poll_ready(p, ev)
  <2>1. /\ rp' = rp /\ wp' = wp
        /\ pc[p] \notin {"w_wrap", "w_wake", "open"}
        /\ pc'[p] \in {"idle"}
    BY <1>26 DEF scull_pipe_poll_ready, dev, Goto
  <2>2. ReaderOK(p)'
    BY <2>1 DEF ReaderOK
  <2> QED BY <1>0, <2>1, <2>2, ReaderFrame
<1>27. CASE poll_timeout(p)
  <2>1. /\ rp' = rp /\ wp' = wp
        /\ pc[p] \notin {"w_wrap", "w_wake", "open"}
        /\ pc'[p] \in {"idle"}
    BY <1>27 DEF poll_timeout, dev, Goto
  <2>2. ReaderOK(p)'
    BY <2>1 DEF ReaderOK
  <2> QED BY <1>0, <2>1, <2>2, ReaderFrame
<1> QED BY <1>1, <1>2, <1>3, <1>4, <1>5, <1>6, <1>7, <1>8, <1>9, <1>10, <1>11, <1>12, <1>13, <1>14, <1>15, <1>16, <1>17, <1>18, <1>19, <1>20, <1>21, <1>22, <1>23, <1>24, <1>25, <1>26, <1>27 DEF Step, Call

(* The same for a writer q, unless an open() caught it asleep. *)
WriterOK(q) ==
  q \in outq \ caught =>
    /\ pc[q] \in {"w_sched", "poll_out"} => Full \/ WillWakeOutq
    /\ pc[q] = "w_test" =>
         \/ WillWakeOutq
         \/ Full
         \/ load[q][1] = "rp" /\ load[q][2] = rp
         \/ load[q][1] = "wp" /\ spacefree(rp, load[q][2]) # 0

(* What the invariant says of writers, said of one writer at a time.       *)
LEMMA WritersAreOK ==
  ASSUME TypeOK
  PROVE  (\A q \in Procs : WriterOK(q)) <=> WriterWokenByReads /\ WriterDecision
BY DEF TypeOK, WriterOK, WriterWokenByReads, WriterDecision

(* A step of p that leaves rp alone, does not end p's duty to wake outq    *)
(* and keeps a full pipe full needs care for p only.                       *)
LEMMA WriterFrame ==
  ASSUME NEW p \in Procs, \A q \in Procs : WriterOK(q),
         OnlyMoves(p), rp' = rp, Full => Full',
         pc[p] \notin {"r_wrap", "r_wake", "open"},
         WriterOK(p)'
  PROVE  \A q \in Procs : WriterOK(q)'
<1>1. WillWakeOutq => WillWakeOutq'
  BY DEF OnlyMoves, WillWakeOutq
<1>2. ASSUME NEW q \in Procs, q # p
      PROVE  WriterOK(q)'
  <2>1. /\ pc'[q] = pc[q] /\ load'[q] = load[q]
        /\ q \in outq' \ caught' => q \in outq \ caught
    BY <1>2 DEF OnlyMoves
  <2>2. WriterOK(q)
    OBVIOUS
  <2>3. spacefree(rp, load[q][2])' = spacefree(rp, load[q][2])
    BY <2>1 DEF spacefree
  <2> HIDE DEF Full, WillWakeOutq
  <2> QED BY <1>1, <2>1, <2>2, <2>3 DEF WriterOK
<1> QED BY <1>2

(* Every step keeps the writers' part: a read leaves its author bound to   *)
(* wake outq, and nobody writes into a full pipe.                          *)
LEMMA WriterStep ==
  ASSUME Base, \A q \in Procs : WriterOK(q), NEW p \in Procs, Step(p) \/ Call(p)
  PROVE  \A q \in Procs : WriterOK(q)'
<1>0. OnlyMoves(p)
  BY StepMovesOne DEF Base
<1>a. rp' = rp /\ wp' = wp => (Full' <=> Full)
  BY DEF Full, spacefree
<1> USE DEF Base, TypeOK
<1>1. CASE \E mode \in Modes : scull_pipe_open(p, mode)
  <2>1. pc'[p] = "open"
    BY <1>1 DEF scull_pipe_open, Goto
  <2>2. WillWakeOutq'
    BY <2>1 DEF WillWakeOutq
  <2> QED BY <2>2 DEF WriterOK
<1>2. CASE scull_pipe_open_end(p)
  <2>1. outq' = outq /\ caught' = outq
    BY <1>2 DEF scull_pipe_open_end
  <2> QED BY <2>1 DEF WriterOK
<1>3. CASE scull_pipe_release(p)
  <2>1. /\ rp' = rp /\ wp' = wp
        /\ pc[p] \notin {"r_wrap", "r_wake", "open"}
        /\ pc'[p] \in {"release"}
    BY <1>3 DEF scull_pipe_release, dev, Goto
  <2>2. WriterOK(p)'
    BY <2>1 DEF WriterOK
  <2>f. Full => Full'
    BY <1>a, <2>1
  <2> QED BY <1>0, <2>1, <2>2, <2>f, WriterFrame
<1>4. CASE scull_pipe_release_end(p)
  <2>1. /\ rp' = rp /\ wp' = wp
        /\ pc[p] \notin {"r_wrap", "r_wake", "open"}
        /\ pc'[p] \in {"closed"}
    BY <1>4 DEF scull_pipe_release_end, Goto
  <2>2. WriterOK(p)'
    BY <2>1 DEF WriterOK
  <2>f. Full => Full'
    BY <1>a, <2>1
  <2> QED BY <1>0, <2>1, <2>2, <2>f, WriterFrame
<1>5. CASE \E on \in BOOLEAN : scull_pipe_fasync(p, on)
  <2>1. rp' = rp /\ wp' = wp /\ pc[p] = "idle" /\ pc' = pc
    BY <1>5 DEF scull_pipe_fasync, dev
  <2>2. WriterOK(p)'
    BY <2>1 DEF WriterOK
  <2>f. Full => Full'
    BY <1>a, <2>1
  <2> QED BY <1>0, <2>1, <2>2, <2>f, WriterFrame
<1>6. CASE scull_pipe_read_empty(p)
  <2>1. /\ rp' = rp /\ wp' = wp
        /\ pc[p] \notin {"r_wrap", "r_wake", "open"}
        /\ pc'[p] \in {"idle", "r_wait"}
    BY <1>6 DEF scull_pipe_read_empty, InRead, dev, Goto
  <2>2. WriterOK(p)'
    BY <2>1 DEF WriterOK
  <2>f. Full => Full'
    BY <1>a, <2>1
  <2> QED BY <1>0, <2>1, <2>2, <2>f, WriterFrame
<1>7. CASE \E n \in Counts : scull_pipe_read(p, n)
  <2>1. PICK n \in Counts : scull_pipe_read(p, n)
    BY <1>7
  <2>2. CASE pc'[p] = "r_wrap"
    BY <2>2 DEF WillWakeOutq, WriterOK
  <2>3. CASE pc'[p] # "r_wrap"
    <3>1. rp' = rp /\ wp' = wp /\ pc'[p] = "idle" /\ pc[p] \in {"idle", "r_lock"}
      BY <2>1, <2>3 DEF scull_pipe_read, InRead, Goto
    <3>2. WriterOK(p)'
      BY <3>1 DEF WriterOK
    <3>f. Full => Full'
      BY <1>a, <3>1
    <3> QED BY <1>0, <3>1, <3>2, <3>f, WriterFrame
  <2> QED BY <2>2, <2>3
<1>8. CASE scull_pipe_read_wrap(p)
  <2>1. pc'[p] = "r_wake"
    BY <1>8 DEF scull_pipe_read_wrap, Goto
  <2> QED BY <2>1 DEF WillWakeOutq, WriterOK
<1>9. CASE scull_pipe_read_wake(p)
  <2>1. outq' = {}
    BY <1>9 DEF scull_pipe_read_wake, wake_up
  <2> QED BY <2>1 DEF WriterOK
<1>10. CASE read_wait_nosleep(p)
  <2>1. /\ rp' = rp /\ wp' = wp
        /\ pc[p] \notin {"r_wrap", "r_wake", "open"}
        /\ pc'[p] \in {"r_lock"}
    BY <1>10 DEF read_wait_nosleep, dev, Goto
  <2>2. WriterOK(p)'
    BY <2>1 DEF WriterOK
  <2>f. Full => Full'
    BY <1>a, <2>1
  <2> QED BY <1>0, <2>1, <2>2, <2>f, WriterFrame
<1>11. CASE read_wait_prepare(p)
  <2>1. /\ rp' = rp /\ wp' = wp
        /\ pc[p] \notin {"r_wrap", "r_wake", "open"}
        /\ pc'[p] \in {"r_load"}
    BY <1>11 DEF read_wait_prepare, dev, Goto
  <2>2. WriterOK(p)'
    BY <2>1 DEF WriterOK
  <2>f. Full => Full'
    BY <1>a, <2>1
  <2> QED BY <1>0, <2>1, <2>2, <2>f, WriterFrame
<1>12. CASE read_wait_load(p)
  <2>1. /\ rp' = rp /\ wp' = wp
        /\ pc[p] \notin {"r_wrap", "r_wake", "open"}
        /\ pc'[p] \in {"r_test"}
    BY <1>12 DEF read_wait_load, dev, Goto
  <2>2. WriterOK(p)'
    BY <2>1 DEF WriterOK
  <2>f. Full => Full'
    BY <1>a, <2>1
  <2> QED BY <1>0, <2>1, <2>2, <2>f, WriterFrame
<1>13. CASE read_wait_test(p)
  <2>1. /\ rp' = rp /\ wp' = wp
        /\ pc[p] \notin {"r_wrap", "r_wake", "open"}
        /\ pc'[p] \in {"r_lock", "r_sched"}
    BY <1>13 DEF read_wait_test, dev, Goto
  <2>2. WriterOK(p)'
    BY <2>1 DEF WriterOK
  <2>f. Full => Full'
    BY <1>a, <2>1
  <2> QED BY <1>0, <2>1, <2>2, <2>f, WriterFrame
<1>14. CASE read_wait_signal(p)
  <2>1. /\ rp' = rp /\ wp' = wp
        /\ pc[p] \notin {"r_wrap", "r_wake", "open"}
        /\ pc'[p] \in {"r_lock", "idle"}
    BY <1>14 DEF read_wait_signal, dev, Goto
  <2>2. WriterOK(p)'
    BY <2>1 DEF WriterOK
  <2>f. Full => Full'
    BY <1>a, <2>1
  <2> QED BY <1>0, <2>1, <2>2, <2>f, WriterFrame
<1>15. CASE scull_pipe_write_full(p)
  <2>1. /\ rp' = rp /\ wp' = wp
        /\ pc[p] \notin {"r_wrap", "r_wake", "open"}
        /\ pc'[p] \in {"idle", "w_wait"}
    BY <1>15 DEF scull_pipe_write_full, InWrite, dev, Goto
  <2>2. WriterOK(p)'
    BY <2>1 DEF WriterOK
  <2>f. Full => Full'
    BY <1>a, <2>1
  <2> QED BY <1>0, <2>1, <2>2, <2>f, WriterFrame
<1>16. CASE \E s \in Data : scull_pipe_write(p, s)
  <2>1. PICK s \in Data : scull_pipe_write(p, s)
    BY <1>16
  <2>2. rp' = rp /\ pc[p] \in {"idle", "w_lock"} /\ pc'[p] \in {"w_wrap", "idle"}
    BY <2>1 DEF scull_pipe_write, InWrite, Goto
  <2>3. ~Full
    BY <2>1 DEF scull_pipe_write, Full
  <2>4. WriterOK(p)'
    BY <2>2 DEF WriterOK
  <2> QED BY <1>0, <2>2, <2>3, <2>4, WriterFrame
<1>17. CASE scull_pipe_write_wrap(p)
  <2>1. rp' = rp /\ wp' = Wrap(wp) /\ pc[p] = "w_wrap" /\ pc'[p] = "w_wake"
    BY <1>17 DEF scull_pipe_write_wrap, Goto
  <2>2. spacefree(rp, Wrap(wp)) = 0 <=> spacefree(rp, wp) = 0
    BY WrapKeepsFull
  <2>3. Full => Full'
    BY <2>1, <2>2 DEF Full
  <2>4. WriterOK(p)'
    BY <2>1 DEF WriterOK
  <2> QED BY <1>0, <2>1, <2>3, <2>4, WriterFrame
<1>18. CASE scull_pipe_write_wake(p)
  <2>1. /\ rp' = rp /\ wp' = wp
        /\ pc[p] \notin {"r_wrap", "r_wake", "open"}
        /\ pc'[p] \in {"idle"}
    BY <1>18 DEF scull_pipe_write_wake, dev, Goto
  <2>2. WriterOK(p)'
    BY <2>1 DEF WriterOK
  <2>f. Full => Full'
    BY <1>a, <2>1
  <2> QED BY <1>0, <2>1, <2>2, <2>f, WriterFrame
<1>19. CASE write_wait_prepare(p)
  <2>1. /\ rp' = rp /\ wp' = wp
        /\ pc[p] \notin {"r_wrap", "r_wake", "open"}
        /\ pc'[p] \in {"w_load"}
    BY <1>19 DEF write_wait_prepare, dev, Goto
  <2>2. WriterOK(p)'
    BY <2>1 DEF WriterOK
  <2>f. Full => Full'
    BY <1>a, <2>1
  <2> QED BY <1>0, <2>1, <2>2, <2>f, WriterFrame
<1>20. CASE write_wait_load(p)
  <2>1. rp' = rp /\ wp' = wp /\ pc[p] = "w_load" /\ pc'[p] = "w_test"
    BY <1>20 DEF write_wait_load, dev, Goto
  <2>2. load'[p] = <<"rp", rp>> \/ load'[p] = <<"wp", wp>>
    BY <1>20 DEF write_wait_load, LoadOne
  <2>3. CASE load'[p] = <<"rp", rp>>
    <3>1. WriterOK(p)'
      BY <2>1, <2>3 DEF WriterOK
    <3>f. Full => Full'
      BY <1>a, <2>1
    <3> QED BY <1>0, <2>1, <3>1, <3>f, WriterFrame
  <2>4. CASE load'[p] = <<"wp", wp>>
    <3>1. Full' \/ spacefree(rp, load[p][2])' # 0
      BY <2>1, <2>4 DEF Full, spacefree
    <3>2. WriterOK(p)'
      BY <2>1, <2>4, <3>1 DEF WriterOK
    <3>f. Full => Full'
      BY <1>a, <2>1
    <3> QED BY <1>0, <2>1, <3>2, <3>f, WriterFrame
  <2> QED BY <2>2, <2>3, <2>4
<1>21. CASE write_wait_test(p)
  <2>1. rp' = rp /\ wp' = wp /\ pc[p] = "w_test"
    BY <1>21 DEF write_wait_test, dev
  <2>2. CASE pc'[p] = "w_sched"
    <3>1. spacefree(SeenRp(p), SeenWp(p)) = 0 /\ outq' = outq /\ caught' = caught
      BY <1>21, <2>2 DEF write_wait_test, Goto
    <3>2. WriterOK(p)
      OBVIOUS
    <3>3. p \in outq \ caught => Full \/ WillWakeOutq
      <4>1. CASE load[p][1] = "rp" /\ load[p][2] = rp
        BY <3>1, <4>1 DEF SeenRp, SeenWp, Full, spacefree
      <4>2. CASE load[p][1] = "wp" /\ spacefree(rp, load[p][2]) # 0
        BY <3>1, <4>2 DEF SeenRp, SeenWp, spacefree
      <4> QED BY <2>1, <3>2, <4>1, <4>2 DEF WriterOK
    <3>4. WillWakeOutq => WillWakeOutq'
      BY <1>0, <2>1 DEF OnlyMoves, WillWakeOutq
    <3>5. WriterOK(p)'
      BY <1>a, <2>1, <2>2, <3>1, <3>3, <3>4 DEF WriterOK
    <3>f. Full => Full'
      BY <1>a, <2>1
    <3> QED BY <1>0, <2>1, <3>5, <3>f, WriterFrame
  <2>3. CASE pc'[p] # "w_sched"
    <3>1. pc'[p] = "w_lock"
      BY <1>21, <2>3 DEF write_wait_test, Goto
    <3>2. WriterOK(p)'
      BY <3>1 DEF WriterOK
    <3>f. Full => Full'
      BY <1>a, <2>1
    <3> QED BY <1>0, <2>1, <3>2, <3>f, WriterFrame
  <2> QED BY <2>2, <2>3
<1>22. CASE write_wait_woken(p)
  <2>1. /\ rp' = rp /\ wp' = wp
        /\ pc[p] \notin {"r_wrap", "r_wake", "open"}
        /\ pc'[p] \in {"w_lock"}
    BY <1>22 DEF write_wait_woken, dev, Goto
  <2>2. WriterOK(p)'
    BY <2>1 DEF WriterOK
  <2>f. Full => Full'
    BY <1>a, <2>1
  <2> QED BY <1>0, <2>1, <2>2, <2>f, WriterFrame
<1>23. CASE write_wait_signal(p)
  <2>1. /\ rp' = rp /\ wp' = wp
        /\ pc[p] \notin {"r_wrap", "r_wake", "open"}
        /\ pc'[p] \in {"idle"}
    BY <1>23 DEF write_wait_signal, dev, Goto
  <2>2. WriterOK(p)'
    BY <2>1 DEF WriterOK
  <2>f. Full => Full'
    BY <1>a, <2>1
  <2> QED BY <1>0, <2>1, <2>2, <2>f, WriterFrame
<1>24. CASE lock_interrupted(p)
  <2>1. /\ rp' = rp /\ wp' = wp
        /\ pc[p] \notin {"r_wrap", "r_wake", "open"}
        /\ pc'[p] \in {"idle"}
    BY <1>24 DEF lock_interrupted, dev, Goto
  <2>2. WriterOK(p)'
    BY <2>1 DEF WriterOK
  <2>f. Full => Full'
    BY <1>a, <2>1
  <2> QED BY <1>0, <2>1, <2>2, <2>f, WriterFrame
<1>25. CASE \E ev \in {"poll_in", "poll_out"} : scull_pipe_poll_sleep(p, ev)
  <2>1. PICK ev \in {"poll_in", "poll_out"} : scull_pipe_poll_sleep(p, ev)
    BY <1>25
  <2>2. rp' = rp /\ wp' = wp /\ pc[p] \in {"idle", ev} /\ pc'[p] = ev
    BY <2>1 DEF scull_pipe_poll_sleep, dev, Goto
  <2>3. ev = "poll_out" => Full'
    BY <1>a, <2>1, <2>2 DEF scull_pipe_poll_sleep, Ready, Full
  <2>4. WriterOK(p)'
    BY <2>2, <2>3 DEF WriterOK
  <2>f. Full => Full'
    BY <1>a, <2>2
  <2> QED BY <1>0, <2>2, <2>4, <2>f, WriterFrame
<1>26. CASE \E ev \in {"poll_in", "poll_out"} : scull_pipe_poll_ready(p, ev)
  <2>1. /\ rp' = rp /\ wp' = wp
        /\ pc[p] \notin {"r_wrap", "r_wake", "open"}
        /\ pc'[p] \in {"idle"}
    BY <1>26 DEF scull_pipe_poll_ready, dev, Goto
  <2>2. WriterOK(p)'
    BY <2>1 DEF WriterOK
  <2>f. Full => Full'
    BY <1>a, <2>1
  <2> QED BY <1>0, <2>1, <2>2, <2>f, WriterFrame
<1>27. CASE poll_timeout(p)
  <2>1. /\ rp' = rp /\ wp' = wp
        /\ pc[p] \notin {"r_wrap", "r_wake", "open"}
        /\ pc'[p] \in {"idle"}
    BY <1>27 DEF poll_timeout, dev, Goto
  <2>2. WriterOK(p)'
    BY <2>1 DEF WriterOK
  <2>f. Full => Full'
    BY <1>a, <2>1
  <2> QED BY <1>0, <2>1, <2>2, <2>f, WriterFrame
<1> QED BY <1>1, <1>2, <1>3, <1>4, <1>5, <1>6, <1>7, <1>8, <1>9, <1>10, <1>11, <1>12, <1>13, <1>14, <1>15, <1>16, <1>17, <1>18, <1>19, <1>20, <1>21, <1>22, <1>23, <1>24, <1>25, <1>26, <1>27 DEF Step, Call

(* The inductive invariant of the sleepers.                                *)
THEOREM SleepInvariant == Spec => []SleepInv
<1>1. Init => SleepInv
  BY InitBase DEF Base, Init, SleepInv, ReaderNotStranded, ReaderDecision,
                  WriterWokenByReads, WriterDecision
<1>2. SleepInv /\ [Next]_vars => SleepInv'
  <2> SUFFICES ASSUME SleepInv, [Next]_vars PROVE SleepInv'
    OBVIOUS
  <2>1. Base /\ Base'
    BY BaseStep DEF SleepInv, Base
  <2>2. CASE UNCHANGED vars
    BY <2>1, <2>2 DEF vars, SleepInv, Base, ReaderNotStranded, ReaderDecision,
       WriterWokenByReads, WriterDecision, Empty, Full, WillWakeInq, WillWakeOutq, Wrap,
       spacefree, end
  <2>3. ASSUME NEW p \in Procs, Step(p) \/ Call(p) PROVE SleepInv'
    <3>1. \A q \in Procs : ReaderOK(q) /\ WriterOK(q)
      BY <2>1, ReadersAreOK, WritersAreOK DEF SleepInv, Base
    <3>2. \A q \in Procs : ReaderOK(q)'
      BY <2>1, <2>3, <3>1, ReaderStep
    <3>3. \A q \in Procs : WriterOK(q)'
      BY <2>1, <2>3, <3>1, WriterStep
    <3>4. (ReaderNotStranded /\ ReaderDecision)'
      BY <2>1, <3>2 DEF Base, TypeOK, ReaderOK, ReaderNotStranded, ReaderDecision
    <3>5. (WriterWokenByReads /\ WriterDecision)'
      BY <2>1, <3>3 DEF Base, TypeOK, WriterOK, WriterWokenByReads, WriterDecision
    <3> QED BY <2>1, <3>4, <3>5 DEF SleepInv, Base
  <2> QED BY <2>2, <2>3 DEF Next
<1> QED BY <1>1, <1>2, PTL DEF Spec

(* No lost wake-up of a reader: whatever the interleaving of the unlocked  *)
(* test in wait_event_interruptible with writers, readers and opens, a     *)
(* reader (or a poll for input) asleep on inq while the pipe holds data is *)
(* about to be woken by the process that is still in its write.            *)
THEOREM ReadersAreWoken == Spec => []ReaderNotStranded
<1>1. SleepInv => ReaderNotStranded
  BY DEF SleepInv
<1> QED BY <1>1, SleepInvariant, PTL

(* No lost wake-up of a writer by the reads: a writer asleep on outq while *)
(* there is space is about to be woken, or an open() rewound the pipe      *)
(* after it went to sleep.                                                 *)
THEOREM WritersAreWoken == Spec => []WriterWokenByReads
<1>1. SleepInv => WriterWokenByReads
  BY DEF SleepInv
<1> QED BY <1>1, SleepInvariant, PTL

(* ScullPipeDevice groups the actions of ScullPipe by the functions of     *)
(* scull_pipe_device, so that it takes no other steps: this holds by the   *)
(* way the module is written, and carries the theorems over.               *)
LEMMA DeviceIsPipe == DeviceSpec => Spec
<1>1. ASSUME NEW p \in Procs
      PROVE  \/ scull_p_open(p) \/ scull_p_release(p) \/ scull_p_fasync(p)
             \/ scull_p_read(p) \/ scull_p_write(p) \/ down_interrupted(p)
             \/ scull_p_poll(p)
             => Step(p) \/ Call(p)
  BY Zenon DEF Step, Call, scull_p_open, scull_p_release, scull_p_fasync, scull_p_read,
     scull_p_write, scull_getwritespace, down_interrupted, scull_p_poll
<1>2. [DeviceNext]_vars => [Next]_vars
  BY <1>1 DEF DeviceNext, Next
<1> QED BY <1>2, PTL DEF DeviceSpec, Spec

(* ... no lost wake-up of a reader of scull_pipe_device among the rest.    *)
THEOREM DeviceReadersAreWoken == DeviceSpec => []ReaderNotStranded
BY DeviceIsPipe, ReadersAreWoken, PTL
=============================================================================
