-------------------------- MODULE ScullPipeFifoProofs --------------------------
(***************************************************************************)
(* Proofs about the life of the pipe's buffer and about the bytes in it:   *)
(* ScullPipe implements ByteFifo.                                          *)
(***************************************************************************)
EXTENDS ScullPipeProofs

(* Inside an open file, with no pointer half way.                          *)
Busy == PC \ {"closed", "open", "release", "r_wrap", "w_wrap"}

OthersStay(p) == pc' \in [Procs -> PC] /\ \A q \in Procs \ {p} : pc'[q] = pc[q]

(* A step of p that touches neither the device nor the bytes p was given.  *)
Quiet(p) ==
  /\ UNCHANGED <<buffer, mem, rp, wp, nreaders, nwriters, f_mode, ubuf>>
  /\ OthersStay(p) /\ pc[p] \in Busy /\ pc'[p] \in Busy
  /\ async_queue' \subseteq async_queue \cup {p}

(* The steps that do touch them.                                           *)
Loud(p) ==
  \/ \E mode \in Modes : scull_pipe_open(p, mode)
  \/ scull_pipe_open_end(p)
  \/ scull_pipe_release(p)
  \/ scull_pipe_release_end(p)
  \/ \E n \in Counts : scull_pipe_read(p, n)
  \/ scull_pipe_read_wrap(p)
  \/ scull_pipe_read_wake(p)
  \/ \E s \in Data : scull_pipe_write(p, s)
  \/ scull_pipe_write_wrap(p)

(* A step is one or the other.                                             *)
LEMMA StepKinds ==
  ASSUME TypeOK, NEW p \in Procs, Step(p) \/ Call(p)
  PROVE  Quiet(p) \/ Loud(p)
<1> USE DEF TypeOK, Quiet, OthersStay, Busy, PC, Goto, dev
<1>1. CASE \E on \in BOOLEAN : scull_pipe_fasync(p, on)
  BY <1>1 DEF scull_pipe_fasync
<1>2. CASE scull_pipe_read_empty(p)
  BY <1>2 DEF scull_pipe_read_empty, InRead
<1>3. CASE read_wait_nosleep(p)
  BY <1>3 DEF read_wait_nosleep
<1>4. CASE read_wait_prepare(p)
  BY <1>4 DEF read_wait_prepare
<1>5. CASE read_wait_load(p)
  BY <1>5 DEF read_wait_load
<1>6. CASE read_wait_test(p)
  BY <1>6 DEF read_wait_test
<1>7. CASE read_wait_signal(p)
  BY <1>7 DEF read_wait_signal
<1>8. CASE scull_pipe_write_full(p)
  BY <1>8 DEF scull_pipe_write_full, InWrite
<1>9. CASE scull_pipe_write_wake(p)
  BY <1>9 DEF scull_pipe_write_wake
<1>10. CASE write_wait_prepare(p)
  BY <1>10 DEF write_wait_prepare
<1>11. CASE write_wait_load(p)
  BY <1>11 DEF write_wait_load
<1>12. CASE write_wait_test(p)
  BY <1>12 DEF write_wait_test
<1>13. CASE write_wait_woken(p)
  BY <1>13 DEF write_wait_woken
<1>14. CASE write_wait_signal(p)
  BY <1>14 DEF write_wait_signal
<1>15. CASE lock_interrupted(p)
  BY <1>15 DEF lock_interrupted
<1>16. CASE \E ev \in {"poll_in", "poll_out"} : scull_pipe_poll_sleep(p, ev)
  BY <1>16 DEF scull_pipe_poll_sleep
<1>17. CASE \E ev \in {"poll_in", "poll_out"} : scull_pipe_poll_ready(p, ev)
  BY <1>17 DEF scull_pipe_poll_ready
<1>18. CASE poll_timeout(p)
  BY <1>18 DEF poll_timeout
<1> QED BY <1>1, <1>2, <1>3, <1>4, <1>5, <1>6, <1>7, <1>8, <1>9, <1>10, <1>11, <1>12, <1>13,
           <1>14, <1>15, <1>16, <1>17, <1>18 DEF Step, Call, Loud

(* A process on a wait queue waits; all the actions that leave a wait take *)
(* it off.                                                                 *)
LEMMA QueuesStep ==
  ASSUME Base, QueuesLeft, NEW p \in Procs, Step(p) \/ Call(p)
  PROVE  QueuesLeft'
<1> USE DEF Base, TypeOK, QueuesLeft, Goto, queues
<1>1. CASE \E mode \in Modes : scull_pipe_open(p, mode)
  BY <1>1 DEF scull_pipe_open
<1>2. CASE scull_pipe_open_end(p)
  BY <1>2 DEF scull_pipe_open_end
<1>3. CASE scull_pipe_release(p)
  BY <1>3 DEF scull_pipe_release
<1>4. CASE scull_pipe_release_end(p)
  BY <1>4 DEF scull_pipe_release_end
<1>5. CASE \E on \in BOOLEAN : scull_pipe_fasync(p, on)
  BY <1>5 DEF scull_pipe_fasync
<1>6. CASE scull_pipe_read_empty(p)
  BY <1>6 DEF scull_pipe_read_empty, InRead
<1>7. CASE \E n \in Counts : scull_pipe_read(p, n)
  BY <1>7 DEF scull_pipe_read, InRead
<1>8. CASE scull_pipe_read_wrap(p)
  BY <1>8 DEF scull_pipe_read_wrap
<1>9. CASE scull_pipe_read_wake(p)
  BY <1>9 DEF scull_pipe_read_wake, wake_up
<1>10. CASE read_wait_nosleep(p)
  BY <1>10 DEF read_wait_nosleep
<1>11. CASE read_wait_prepare(p)
  BY <1>11 DEF read_wait_prepare, prepare_to_wait
<1>12. CASE read_wait_load(p)
  BY <1>12 DEF read_wait_load
<1>13. CASE read_wait_test(p)
  BY <1>13 DEF read_wait_test, finish_wait
<1>14. CASE read_wait_signal(p)
  BY <1>14 DEF read_wait_signal, finish_wait
<1>15. CASE scull_pipe_write_full(p)
  BY <1>15 DEF scull_pipe_write_full, InWrite
<1>16. CASE \E s \in Data : scull_pipe_write(p, s)
  BY <1>16 DEF scull_pipe_write, InWrite
<1>17. CASE scull_pipe_write_wrap(p)
  BY <1>17 DEF scull_pipe_write_wrap
<1>18. CASE scull_pipe_write_wake(p)
  BY <1>18 DEF scull_pipe_write_wake, wake_up
<1>19. CASE write_wait_prepare(p)
  BY <1>19 DEF write_wait_prepare, prepare_to_wait
<1>20. CASE write_wait_load(p)
  BY <1>20 DEF write_wait_load
<1>21. CASE write_wait_test(p)
  BY <1>21 DEF write_wait_test, LeaveOutq, finish_wait
<1>22. CASE write_wait_woken(p)
  BY <1>22 DEF write_wait_woken
<1>23. CASE write_wait_signal(p)
  BY <1>23 DEF write_wait_signal, LeaveOutq, finish_wait
<1>24. CASE lock_interrupted(p)
  BY <1>24 DEF lock_interrupted
<1>25. CASE \E ev \in {"poll_in", "poll_out"} : scull_pipe_poll_sleep(p, ev)
  BY <1>25 DEF scull_pipe_poll_sleep, prepare_to_wait
<1>26. CASE \E ev \in {"poll_in", "poll_out"} : scull_pipe_poll_ready(p, ev)
  BY <1>26 DEF scull_pipe_poll_ready, LeaveQueues, LeaveOutq, finish_wait
<1>27. CASE poll_timeout(p)
  BY <1>27 DEF poll_timeout, LeaveQueues, LeaveOutq, finish_wait
<1> QED BY <1>1, <1>2, <1>3, <1>4, <1>5, <1>6, <1>7, <1>8, <1>9, <1>10, <1>11, <1>12, <1>13,
           <1>14, <1>15, <1>16, <1>17, <1>18, <1>19, <1>20, <1>21, <1>22, <1>23, <1>24, <1>25,
           <1>26, <1>27 DEF Step, Call
-----------------------------------------------------------------------------
(* The openings, their counters and the buffer.  Nobody's opening is       *)
(* forgotten between open and release, so that the last one to leave finds *)
(* both counters at zero and frees the buffer.                             *)
Openings ==
  /\ CountsExact
  /\ Counted("r") \cup Counted("w") # {} => buffer
  /\ \A p \in Procs : pc[p] = "open" => buffer
  /\ buffer => \E p \in Procs : pc[p] # "closed"

LifeInv == Base /\ QueuesLeft /\ AsyncQueueLive /\ Openings

(* A step of p that leaves it among the openings counted, or not counted.  *)
LEMMA OpeningsFrame ==
  ASSUME Openings, NEW p \in Procs, OthersStay(p),
         UNCHANGED <<buffer, nreaders, nwriters, f_mode>>,
         pc[p] \notin {"closed", "open"}, pc'[p] \notin {"closed", "open"}
  PROVE  Openings'
<1>1. ASSUME NEW m PROVE Counted(m)' = Counted(m)
  BY DEF Counted, OthersStay
<1> HIDE DEF Counted
<1>2. CountsExact'
  BY <1>1 DEF Openings, CountsExact
<1> QED BY <1>1, <1>2 DEF Openings, OthersStay

(* An opening is counted ...                                               *)
LEMMA CountIn ==
  ASSUME TypeOK, NEW p \in Procs, NEW m, OthersStay(p), f_mode' = f_mode,
         pc[p] \in {"closed", "open"}, pc'[p] \notin {"closed", "open"}
  PROVE  /\ Counted(m)' = IF m \in f_mode[p] THEN Counted(m) \cup {p} ELSE Counted(m)
         /\ m \in f_mode[p] => Cardinality(Counted(m)') = Cardinality(Counted(m)) + 1
         /\ m \notin f_mode[p] => Cardinality(Counted(m)') = Cardinality(Counted(m))
<1>1. IsFiniteSet(Counted(m)) /\ p \notin Counted(m)
  BY PipeAssumption, FS_Subset DEF Counted
<1>2. Counted(m)' = IF m \in f_mode[p] THEN Counted(m) \cup {p} ELSE Counted(m)
  BY DEF Counted, OthersStay
<1>3. Cardinality(Counted(m)) \in Nat
  BY <1>1, FS_CardinalityType
<1>4. Cardinality(Counted(m) \cup {p}) = Cardinality(Counted(m)) + 1
  BY <1>1, FS_AddElement
<1> QED BY <1>2, <1>3, <1>4

(* ... and uncounted.                                                      *)
LEMMA CountOut ==
  ASSUME TypeOK, NEW p \in Procs, NEW m, OthersStay(p), \A q \in Procs \ {p} : f_mode'[q] = f_mode[q],
         pc[p] \notin {"closed", "open"}, pc'[p] \in {"closed", "open"}
  PROVE  /\ Counted(m)' = Counted(m) \ {p}
         /\ m \in f_mode[p] => Cardinality(Counted(m)') = Cardinality(Counted(m)) - 1
         /\ m \notin f_mode[p] => Cardinality(Counted(m)') = Cardinality(Counted(m))
<1>1. IsFiniteSet(Counted(m)) /\ (p \in Counted(m) <=> m \in f_mode[p])
  BY PipeAssumption, FS_Subset DEF Counted
<1>2. Counted(m)' = Counted(m) \ {p}
  BY DEF Counted, OthersStay
<1>3. Cardinality(Counted(m)) \in Nat
  BY <1>1, FS_CardinalityType
<1>4. CASE m \in f_mode[p]
  <2>1. Cardinality(Counted(m) \ {p}) = Cardinality(Counted(m)) - 1
    BY <1>1, <1>4, FS_RemoveElement
  <2> QED BY <1>2, <1>4, <2>1
<1>5. CASE m \notin f_mode[p]
  <2>1. Counted(m) \ {p} = Counted(m)
    BY <1>1, <1>5
  <2> QED BY <1>2, <1>3, <1>5, <2>1
<1> QED BY <1>4, <1>5

(* Every step keeps the openings in order.                                 *)
LEMMA LifeStep ==
  ASSUME LifeInv, NEW p \in Procs, Step(p) \/ Call(p)
  PROVE  LifeInv'
<1> USE DEF LifeInv
<1>0. Base' /\ TypeOK /\ TypeOK'
  <2>1. Base'
    BY BaseStep DEF Next
  <2> QED BY <2>1 DEF Base
<1>1. QueuesLeft'
  BY QueuesStep
<1>2. Quiet(p) \/ Loud(p)
  BY <1>0, StepKinds
<1>3. CASE Quiet(p)
  <2>1. Openings'
    BY <1>3, OpeningsFrame DEF Quiet, Busy
  <2>2. AsyncQueueLive'
    BY <1>3 DEF Quiet, Busy, OthersStay, AsyncQueueLive, Base, TypeOK
  <2> QED BY <1>0, <1>1, <2>1, <2>2
<1>4. ASSUME NEW mode \in Modes, scull_pipe_open(p, mode) PROVE LifeInv'
  <2>1. /\ OthersStay(p) /\ pc[p] = "closed" /\ pc'[p] = "open" /\ buffer'
        /\ UNCHANGED <<nreaders, nwriters, async_queue>>
        /\ \A q \in Procs \ {p} : f_mode'[q] = f_mode[q]
    BY <1>0, <1>4 DEF scull_pipe_open, Goto, OthersStay, TypeOK
  <2>2. ASSUME NEW m PROVE Counted(m)' = Counted(m)
    BY <2>1 DEF Counted, OthersStay
  <2>3. CountsExact'
    BY <2>1, <2>2 DEF Openings, CountsExact
  <2>4. Openings'
    BY <2>1, <2>3 DEF Openings
  <2>5. AsyncQueueLive'
    BY <2>1 DEF AsyncQueueLive, OthersStay, Base, TypeOK
  <2> QED BY <1>0, <1>1, <2>4, <2>5
<1>5. ASSUME scull_pipe_open_end(p) PROVE LifeInv'
  <2>1. /\ OthersStay(p) /\ pc[p] = "open" /\ pc'[p] = "idle"
        /\ UNCHANGED <<buffer, f_mode, async_queue>>
        /\ nreaders' = IF "r" \in f_mode[p] THEN nreaders + 1 ELSE nreaders
        /\ nwriters' = IF "w" \in f_mode[p] THEN nwriters + 1 ELSE nwriters
    BY <1>0, <1>5 DEF scull_pipe_open_end, Goto, OthersStay, TypeOK
  <2>2. ASSUME NEW m
        PROVE  /\ m \in f_mode[p] => Cardinality(Counted(m)') = Cardinality(Counted(m)) + 1
               /\ m \notin f_mode[p] => Cardinality(Counted(m)') = Cardinality(Counted(m))
    BY <1>0, <2>1, CountIn
  <2>3. CountsExact'
    BY <1>0, <2>1, <2>2 DEF Openings, CountsExact, TypeOK
  <2>4. Openings'
    BY <2>1, <2>3 DEF Openings, OthersStay
  <2>5. AsyncQueueLive'
    BY <2>1 DEF AsyncQueueLive, OthersStay, Base, TypeOK
  <2> QED BY <1>0, <1>1, <2>4, <2>5
<1>6. ASSUME scull_pipe_release(p) PROVE LifeInv'
  <2>1. /\ OthersStay(p) /\ pc[p] = "idle" /\ pc'[p] = "release"
        /\ UNCHANGED <<buffer, nreaders, nwriters, f_mode>>
        /\ async_queue' = async_queue \ {p}
    BY <1>0, <1>6 DEF scull_pipe_release, Goto, OthersStay, TypeOK, dev
  <2>2. Openings'
    BY <2>1, OpeningsFrame
  <2>3. AsyncQueueLive'
    BY <2>1 DEF AsyncQueueLive, OthersStay, Base, TypeOK
  <2> QED BY <1>0, <1>1, <2>2, <2>3
<1>7. ASSUME scull_pipe_release_end(p) PROVE LifeInv'
  <2>1. /\ OthersStay(p) /\ pc[p] = "release" /\ pc'[p] = "closed" /\ mutex = NoProc
        /\ UNCHANGED async_queue
        /\ \A q \in Procs \ {p} : f_mode'[q] = f_mode[q]
        /\ nreaders' = IF "r" \in f_mode[p] THEN nreaders - 1 ELSE nreaders
        /\ nwriters' = IF "w" \in f_mode[p] THEN nwriters - 1 ELSE nwriters
        /\ buffer' => buffer /\ ~(nreaders' = 0 /\ nwriters' = 0)
        /\ buffer /\ ~(nreaders' = 0 /\ nwriters' = 0) => buffer'
    BY <1>0, <1>7 DEF scull_pipe_release_end, Goto, OthersStay, TypeOK
  <2>2. ASSUME NEW m
        PROVE  /\ Counted(m)' = Counted(m) \ {p}
               /\ m \in f_mode[p] => Cardinality(Counted(m)') = Cardinality(Counted(m)) - 1
               /\ m \notin f_mode[p] => Cardinality(Counted(m)') = Cardinality(Counted(m))
    BY <1>0, <2>1, CountOut
  <2>3. CountsExact'
    BY <1>0, <2>1, <2>2 DEF Openings, CountsExact, TypeOK
  <2>4. /\ nreaders' = 0 => Counted("r")' = {}
        /\ nwriters' = 0 => Counted("w")' = {}
    <3>1. ASSUME NEW m PROVE IsFiniteSet(Counted(m)')
      BY PipeAssumption, FS_Subset DEF Counted
    <3> QED BY <2>3, <3>1, FS_EmptySet DEF CountsExact
  <2>5. /\ Counted("r")' = {} => nreaders' = 0
        /\ Counted("w")' = {} => nwriters' = 0
    BY <2>3, FS_EmptySet DEF CountsExact
  <2>6. Counted("r")' \cup Counted("w")' # {} => buffer'
    BY <2>1, <2>2, <2>4 DEF Openings
  <2>7. \A q \in Procs : pc'[q] # "open"
    BY <2>1, PipeAssumption DEF Base, LockOK, OthersStay
  <2>8. buffer' => \E q \in Procs : pc'[q] # "closed"
    BY <2>1, <2>5 DEF Counted
  <2>9. Openings'
    BY <2>3, <2>6, <2>7, <2>8 DEF Openings
  <2>10. AsyncQueueLive'
    BY <2>1 DEF AsyncQueueLive, OthersStay, Base, TypeOK
  <2> QED BY <1>0, <1>1, <2>9, <2>10
<1>8. ASSUME \/ \E n \in Counts : scull_pipe_read(p, n)
             \/ scull_pipe_read_wrap(p) \/ scull_pipe_read_wake(p)
             \/ \E s \in Data : scull_pipe_write(p, s)
             \/ scull_pipe_write_wrap(p)
      PROVE  LifeInv'
  <2>1. /\ OthersStay(p)
        /\ pc[p] \notin {"closed", "open"} /\ pc'[p] \notin {"closed", "open", "release"}
        /\ UNCHANGED <<buffer, nreaders, nwriters, f_mode, async_queue>>
    BY <1>0, <1>8 DEF scull_pipe_read, scull_pipe_read_wrap, scull_pipe_read_wake,
       scull_pipe_write, scull_pipe_write_wrap, InRead, InWrite, Goto, OthersStay, TypeOK, dev
  <2>2. Openings'
    BY <2>1, OpeningsFrame
  <2>3. AsyncQueueLive'
    BY <2>1 DEF AsyncQueueLive, OthersStay, Base, TypeOK
  <2> QED BY <1>0, <1>1, <2>2, <2>3
<1> QED BY <1>2, <1>3, <1>4, <1>5, <1>6, <1>7, <1>8 DEF Loud

(* Whatever the interleaving of opens, releases, reads, writes and polls,  *)
(* the openings, the buffer and the queues are in order.                   *)
THEOREM LifeCorrect == Spec => []LifeInv
<1>1. Init => LifeInv
  <2> SUFFICES ASSUME Init PROVE LifeInv
    OBVIOUS
  <2>1. QueuesLeft /\ AsyncQueueLive
    BY DEF Init, QueuesLeft, AsyncQueueLive
  <2>2. ASSUME NEW m PROVE Counted(m) = {}
    BY DEF Init, Counted
  <2>3. CountsExact
    BY <2>2, FS_EmptySet DEF Init, CountsExact
  <2>4. Openings
    BY <2>2, <2>3 DEF Init, Openings
  <2> QED BY <2>1, <2>4, InitBase DEF LifeInv
<1>2. LifeInv /\ [Next]_vars => LifeInv'
  <2> SUFFICES ASSUME LifeInv, [Next]_vars PROVE LifeInv'
    OBVIOUS
  <2>1. CASE UNCHANGED vars
    <3>1. Base'
      BY BaseStep DEF LifeInv
    <3>2. ASSUME NEW m PROVE Counted(m)' = Counted(m)
      BY <2>1 DEF vars, Counted
    <3>3. CountsExact'
      BY <2>1, <3>2 DEF vars, LifeInv, Openings, CountsExact
    <3>4. Openings'
      BY <2>1, <3>2, <3>3 DEF vars, LifeInv, Openings
    <3>5. QueuesLeft' /\ AsyncQueueLive'
      BY <2>1 DEF vars, LifeInv, QueuesLeft, AsyncQueueLive
    <3> QED BY <3>1, <3>4, <3>5 DEF LifeInv
  <2>2. ASSUME NEW p \in Procs, Step(p) \/ Call(p) PROVE LifeInv'
    BY <2>2, LifeStep
  <2> QED BY <2>1, <2>2 DEF Next
<1> QED BY <1>1, <1>2, PTL DEF Spec

(* nreaders and nwriters count the openings exactly.                       *)
THEOREM OpeningsCounted == Spec => []CountsExact
<1>1. LifeInv => CountsExact
  BY DEF LifeInv, Openings
<1> QED BY <1>1, LifeCorrect, PTL

(* The buffer is there for whoever may read or write, and freed with the   *)
(* last opening.                                                           *)
THEOREM BufferLives == Spec => []BufferLifetime
<1>1. LifeInv => BufferLifetime
  BY DEF LifeInv, Openings, BufferLifetime
<1> QED BY <1>1, LifeCorrect, PTL

(* No way out of a read, a write or a poll leaves the process queued.      *)
THEOREM QueuesAreLeft == Spec => []QueuesLeft
<1>1. LifeInv => QueuesLeft
  BY DEF LifeInv
<1> QED BY <1>1, LifeCorrect, PTL

(* Nobody is notified of a file that is closed.                            *)
THEOREM NotifiesOpenFiles == Spec => []AsyncQueueLive
<1>1. LifeInv => AsyncQueueLive
  BY DEF LifeInv
<1> QED BY <1>1, LifeCorrect, PTL
-----------------------------------------------------------------------------
(***************************************************************************)
(* The pipe is a bounded queue of bytes.                                   *)
(***************************************************************************)
(* The bytes between two positions of the ring, and the i-th position on   *)
(* from one.                                                               *)
Between(r, w) == IF r <= w THEN w - r ELSE w + scull_p_buffer - r
Place(r, i)   == IF r + i < scull_p_buffer THEN r + i ELSE r + i - scull_p_buffer

(* The pipe has no contents: it is freed or being rewound.                 *)
Gone == ~buffer \/ \E p \in Procs : pc[p] = "open"

Bytes == Byte \cup {Garbage}

(* A position of the ring is one of the buffer.                            *)
LEMMA PlaceInside ==
  ASSUME NEW r \in Offset, NEW w \in Offset
  PROVE  /\ Between(r, w) \in 0 .. scull_p_buffer - 1
         /\ \A i \in 0 .. scull_p_buffer - 1 : Place(r, i) \in Offset
BY PipeAssumption DEF Between, Place, Offset

(* c bytes are taken at r, from before the end of the buffer.              *)
LEMMA RingTake ==
  ASSUME NEW r \in Offset, NEW w \in Offset, r # w, NEW c \in Nat,
         IF w > r THEN c <= w - r ELSE c <= end - r
  PROVE  /\ Wrap(r + c) \in Offset
         /\ c <= Between(r, w) /\ Between(Wrap(r + c), w) = Between(r, w) - c
         /\ \A i \in Nat : i < c => Place(r, i) = r + i
         /\ \A i \in Nat : i < Between(r, w) - c => Place(Wrap(r + c), i) = Place(r, i + c)
<1>1. CASE w > r
  BY <1>1, PipeAssumption DEF Between, Place, Offset, Wrap, end
<1>2. CASE w < r /\ r + c < end
  BY <1>2, PipeAssumption DEF Between, Place, Offset, Wrap, end
<1>3. CASE w < r /\ r + c = end
  BY <1>3, PipeAssumption DEF Between, Place, Offset, Wrap, end
<1> QED BY <1>1, <1>2, <1>3, PipeAssumption DEF Offset, end

(* c bytes are put at w, where they fit before the end of the buffer and   *)
(* leave a byte free.                                                      *)
LEMMA RingPut ==
  ASSUME NEW r \in Offset, NEW w \in Offset, NEW c \in Nat,
         IF w >= r THEN c <= end - w /\ c <= end - 1 - (w - r) ELSE c <= r - w - 1
  PROVE  /\ Wrap(w + c) \in Offset
         /\ Between(r, Wrap(w + c)) = Between(r, w) + c
         /\ \A i \in Nat : i < Between(r, w) => ~(w <= Place(r, i) /\ Place(r, i) < w + c)
         /\ \A i \in Nat : i < c => Place(r, Between(r, w) + i) = w + i
<1>1. CASE w < r
  BY <1>1, PipeAssumption DEF Between, Place, Offset, Wrap, end
<1>2. CASE w >= r /\ w + c < end
  BY <1>2, PipeAssumption DEF Between, Place, Offset, Wrap, end
<1>3. CASE w >= r /\ w + c = end
  BY <1>3, PipeAssumption DEF Between, Place, Offset, Wrap, end
<1> QED BY <1>1, <1>2, <1>3, PipeAssumption DEF Offset, end

(* What a read takes ...                                                   *)
LEMMA ReadCountFits ==
  ASSUME rp \in Offset, wp \in Offset, rp # wp, NEW n \in Nat
  PROVE  /\ ReadCount(n) \in Nat
         /\ IF wp > rp THEN ReadCount(n) <= wp - rp ELSE ReadCount(n) <= end - rp
BY PipeAssumption DEF ReadCount, min, Offset, end

(* ... and what a write puts.                                              *)
LEMMA WriteCountFits ==
  ASSUME rp \in Offset, wp \in Offset, NEW n \in Nat
  PROVE  /\ WriteCount(n) \in Nat /\ WriteCount(n) <= n
         /\ IF wp >= rp THEN WriteCount(n) <= end - wp /\ WriteCount(n) <= end - 1 - (wp - rp)
            ELSE WriteCount(n) <= rp - wp - 1
<1>1. rp \in 0 .. end /\ wp \in 0 .. end
  BY PipeAssumption DEF Offset, end
<1>2. CASE rp = wp
  <2>1. spacefree(rp, wp) = end - 1
    BY <1>1, <1>2, SpacefreeValue
  <2> QED BY <1>2, <2>1, PipeAssumption DEF WriteCount, min, Offset, end
<1>3. CASE rp < wp
  <2>1. spacefree(rp, wp) = rp + end - wp - 1
    BY <1>1, <1>3, SpacefreeValue
  <2> QED BY <1>3, <2>1, PipeAssumption DEF WriteCount, min, Offset, end
<1>4. CASE rp > wp
  <2>1. spacefree(rp, wp) = rp - wp - 1
    BY <1>1, <1>4, SpacefreeValue, PipeAssumption DEF Offset, end
  <2> QED BY <1>4, <2>1, PipeAssumption DEF WriteCount, min, Offset, end
<1> QED BY <1>2, <1>3, <1>4, PipeAssumption DEF Offset

(* Contents is a sequence of bytes.                                        *)
ContentsFacts ==
  /\ Held \in 0 .. scull_p_buffer - 1 /\ Contents \in Seq(Bytes) /\ Len(Contents) = Held
  /\ Held = IF Gone THEN 0 ELSE Between(Wrap(rp), Wrap(wp))
  /\ \A i \in 1 .. Held : Contents[i] = mem[Place(Wrap(rp), i - 1)]

(* ... of as many bytes as lie between the pointers.                       *)
LEMMA ContentsSeq == TypeOK => ContentsFacts
<1> SUFFICES ASSUME TypeOK PROVE ContentsFacts
  OBVIOUS
<1>1. Wrap(rp) \in Offset /\ Wrap(wp) \in Offset
  BY PipeAssumption DEF TypeOK, Wrap, Offset, end
<1>2. Held = IF Gone THEN 0 ELSE Between(Wrap(rp), Wrap(wp))
  BY DEF Held, Gone, Between
<1>3. Held \in 0 .. scull_p_buffer - 1
  BY <1>1, <1>2, PlaceInside, PipeAssumption
<1>4. ASSUME NEW i \in 1 .. Held
      PROVE  At(i - 1) = mem[Place(Wrap(rp), i - 1)] /\ At(i - 1) \in Bytes
  <2>1. At(i - 1) = mem[Place(Wrap(rp), i - 1)]
    BY DEF At, Place
  <2>2. i - 1 \in 0 .. scull_p_buffer - 1
    BY <1>3, PipeAssumption
  <2>3. Place(Wrap(rp), i - 1) \in Offset
    BY <1>1, <2>2, PlaceInside
  <2> QED BY <2>1, <2>3 DEF TypeOK, Bytes
<1>5. Held \in Nat /\ Contents \in [1 .. Held -> Bytes]
  BY <1>3, <1>4 DEF Contents
<1>6. Contents \in Seq(Bytes) /\ Len(Contents) = Held
  BY <1>5
<1> QED BY <1>2, <1>3, <1>4, <1>6 DEF Contents, ContentsFacts

(* The same after a step.                                                  *)
LEMMA ContentsSeqNext == TypeOK' => ContentsFacts'
BY ContentsSeq, PTL

(* The users of the queue: who has the pipe open.                          *)
Users == {p \in Procs : pc[p] # "closed"}

(* Steps that leave the bytes in the pipe alone leave its contents alone.  *)
LEMMA ContentsSame ==
  ASSUME TypeOK, TypeOK', Gone' <=> Gone, ~Gone => Wrap(rp)' = Wrap(rp) /\ Wrap(wp)' = Wrap(wp),
         \A i \in 1 .. Held : mem'[Place(Wrap(rp), i - 1)] = mem[Place(Wrap(rp), i - 1)]
  PROVE  Contents' = Contents
<1>0. /\ Held \in 0 .. scull_p_buffer - 1 /\ Contents \in Seq(Bytes) /\ Len(Contents) = Held
      /\ Held = IF Gone THEN 0 ELSE Between(Wrap(rp), Wrap(wp))
      /\ \A i \in 1 .. Held : Contents[i] = mem[Place(Wrap(rp), i - 1)]
  BY ContentsSeq DEF ContentsFacts
<1>1. /\ Held' \in 0 .. scull_p_buffer - 1 /\ Contents' \in Seq(Bytes) /\ Len(Contents') = Held'
      /\ Held' = IF Gone' THEN 0 ELSE Between(Wrap(rp)', Wrap(wp)')
      /\ \A i \in 1 .. Held' : Contents'[i] = mem'[Place(Wrap(rp)', i - 1)]
  BY ContentsSeqNext DEF ContentsFacts
<1>2. CASE Gone
  <2>1. Held = 0 /\ Held' = 0
    BY <1>0, <1>1, <1>2
  <2> QED BY <1>0, <1>1, <2>1, EmptySeq
<1>3. CASE ~Gone
  <2>1. Held' = Held
    BY <1>0, <1>1, <1>3
  <2>2. \A i \in 1 .. Held : Contents'[i] = Contents[i]
    BY <1>0, <1>1, <1>3, <2>1
  <2> QED BY <1>0, <1>1, <2>1, <2>2, SeqEqual
<1> QED BY <1>2, <1>3

(* A step of ByteFifo that changes nothing.                                *)
LEMMA FifoStutters ==
  ASSUME Contents' = Contents, ubuf' = ubuf, Users' = Users
  PROVE  [Fifo!Next]_<<Users, Contents, ubuf>>
OBVIOUS

(* A read is a delivery.                                                   *)
LEMMA ReadDelivers ==
  ASSUME LifeInv, TypeOK', NEW p \in Procs, NEW n \in Counts, scull_pipe_read(p, n)
  PROVE  [Fifo!Next]_<<Users, Contents, ubuf>>
<1>0. TypeOK /\ rp \in Offset /\ wp \in Offset /\ mutex = NoProc /\ rp # wp /\ n \in Nat
  BY PointersInside, PipeAssumption DEF LifeInv, Base, scull_pipe_read, InRead, Counts
<1>1. ~Gone
  <2>1. p \in Counted("r")
    BY DEF scull_pipe_read, InRead, Counted
  <2>2. buffer
    BY <2>1 DEF LifeInv, Openings
  <2> QED BY <1>0, <2>2, PipeAssumption DEF Gone, LifeInv, Base, LockOK
<1>2. pc[p] \notin {"closed", "open"} /\ OthersStay(p) /\ pc'[p] \notin {"closed", "open"} /\ buffer' = buffer
  BY <1>0 DEF scull_pipe_read, InRead, Goto, OthersStay, TypeOK
<1>3. Users' = Users /\ (Gone' <=> Gone)
  BY <1>2 DEF Users, Gone, OthersStay
<1>4. CASE UNCHANGED <<mem, rp, wp, ubuf>>
  <2>1. Contents' = Contents
    BY <1>0, <1>3, <1>4, ContentsSame DEF Wrap
  <2> QED BY <1>3, <1>4, <2>1, FifoStutters
<1>5. CASE /\ rp' = rp + ReadCount(n) /\ UNCHANGED <<mem, wp>>
           /\ ubuf' = [ubuf EXCEPT ![p] = [i \in 1 .. ReadCount(n) |-> mem[rp + i - 1]]]
  <2> DEFINE c == ReadCount(n)
             h == Between(rp, wp)
  <2>1. /\ c \in Nat /\ Wrap(rp + c) \in Offset /\ c <= h /\ Between(Wrap(rp + c), wp) = h - c
        /\ \A i \in Nat : i < c => Place(rp, i) = rp + i
        /\ \A i \in Nat : i < h - c => Place(Wrap(rp + c), i) = Place(rp, i + c)
    BY <1>0, ReadCountFits, RingTake
  <2>2. Wrap(rp) = rp /\ Wrap(wp) = wp
    BY <1>0, PipeAssumption DEF Wrap, Offset, end
  <2>3. h \in Nat
    BY <1>0, PlaceInside, PipeAssumption
  <2> HIDE DEF c, h
  <2>4. /\ Contents \in Seq(Bytes) /\ Len(Contents) = h
        /\ \A i \in 1 .. h : Contents[i] = mem[Place(rp, i - 1)]
    BY <1>0, <1>1, <2>2, ContentsSeq DEF h, ContentsFacts
  <2>5. /\ Contents' \in Seq(Bytes) /\ Len(Contents') = h - c
        /\ \A i \in 1 .. h - c : Contents'[i] = mem[Place(Wrap(rp + c), i - 1)]
    <3>1. Wrap(rp)' = Wrap(rp + c) /\ Wrap(wp)' = wp /\ mem' = mem
      BY <1>5, <2>2 DEF c, Wrap
    <3>2. /\ Contents' \in Seq(Bytes) /\ Len(Contents') = Held'
          /\ Held' = IF Gone' THEN 0 ELSE Between(Wrap(rp)', Wrap(wp)')
          /\ \A i \in 1 .. Held' : Contents'[i] = mem'[Place(Wrap(rp)', i - 1)]
      BY ContentsSeqNext DEF ContentsFacts
    <3>3. Held' = h - c
      BY <1>1, <1>3, <2>1, <3>1, <3>2
    <3> QED BY <3>1, <3>2, <3>3
  <2>6. /\ SubSeq(Contents, 1, c) \in Seq(Bytes) /\ Len(SubSeq(Contents, 1, c)) = c
        /\ \A i \in 1 .. c : SubSeq(Contents, 1, c)[i] = Contents[i]
    <3>1. \A i \in 1 .. c : Contents[i] \in Bytes
      BY <2>1, <2>3, <2>4, ElementOfSeq
    <3> QED BY <2>1, <3>1, SubSeqProperties
  <2>7. /\ SubSeq(Contents, c + 1, h) \in Seq(Bytes) /\ Len(SubSeq(Contents, c + 1, h)) = h - c
        /\ \A i \in 1 .. h - c : SubSeq(Contents, c + 1, h)[i] = Contents[c + i]
    <3>1. \A i \in c + 1 .. h : Contents[i] \in Bytes
      BY <2>1, <2>3, <2>4, ElementOfSeq
    <3> QED BY <2>1, <2>3, <3>1, SubSeqProperties
  <2>8. Contents' = SubSeq(Contents, c + 1, h)
    <3>1. ASSUME NEW i \in 1 .. h - c PROVE Contents'[i] = SubSeq(Contents, c + 1, h)[i]
      <4>1. i - 1 \in Nat /\ i - 1 < h - c /\ c + i \in 1 .. h /\ (i - 1) + c = (c + i) - 1
        BY <2>1, <2>3
      <4>2. Place(Wrap(rp + c), i - 1) = Place(rp, (i - 1) + c)
        BY <2>1, <4>1
      <4>3. Contents[c + i] = mem[Place(rp, (c + i) - 1)]
        BY <2>4, <4>1
      <4> QED BY <2>5, <2>7, <4>1, <4>2, <4>3
    <3> QED BY <2>5, <2>7, <3>1, SeqEqual
  <2>9. [i \in 1 .. c |-> mem[rp + i - 1]] = SubSeq(Contents, 1, c)
    <3> DEFINE f == [i \in 1 .. c |-> mem[rp + i - 1]]
    <3>1. \A i \in 1 .. c : f[i] = Contents[i] /\ f[i] \in Bytes
      <4>1. \A i \in 1 .. c : Contents[i] \in Bytes
        BY <2>1, <2>3, <2>4, ElementOfSeq
      <4>2. ASSUME NEW i \in 1 .. c PROVE f[i] = Contents[i]
        <5>1. i - 1 \in Nat /\ i - 1 < c /\ i \in 1 .. h /\ rp + (i - 1) = rp + i - 1
          BY <1>0, <2>1, <2>3 DEF Offset
        <5>2. Place(rp, i - 1) = rp + (i - 1)
          BY <2>1, <5>1
        <5> QED BY <2>4, <5>1, <5>2
      <4> QED BY <4>1, <4>2
    <3>2. f \in [1 .. c -> Bytes]
      BY <3>1
    <3> HIDE DEF f
    <3>3. f \in Seq(Bytes) /\ Len(f) = c
      BY <2>1, <3>2
    <3>4. f = SubSeq(Contents, 1, c)
      BY <2>6, <3>1, <3>3, SeqEqual
    <3> QED BY <3>4 DEF f
  <2>10. Fifo!Deliver(p)
    <3>1. c \in 0 .. Len(Contents)
      BY <2>1, <2>3, <2>4
    <3>2. ubuf' = [ubuf EXCEPT ![p] = SubSeq(Contents, 1, c)]
      BY <1>5, <2>9 DEF c
    <3>3. Contents' = SubSeq(Contents, c + 1, Len(Contents))
      BY <2>4, <2>8
    <3> QED BY <1>3, <3>1, <3>2, <3>3 DEF Fifo!Deliver, Users
  <2> QED BY <2>10 DEF Fifo!Next
<1> QED BY <1>4, <1>5 DEF scull_pipe_read

(* A write is an acceptance; one that fails leaves its bytes outside the   *)
(* contents.                                                               *)
LEMMA WriteAccepts ==
  ASSUME LifeInv, TypeOK', NEW p \in Procs, NEW s \in Data, scull_pipe_write(p, s)
  PROVE  [Fifo!Next]_<<Users, Contents, ubuf>>
<1>0. TypeOK /\ rp \in Offset /\ wp \in Offset /\ mutex = NoProc
  BY PointersInside DEF LifeInv, Base, scull_pipe_write, InWrite
<1>s. Len(s) \in Nat /\ s \in [1 .. Len(s) -> Byte]
  BY PipeAssumption DEF Data, Counts
<1>1. ~Gone
  <2>1. p \in Counted("w")
    BY DEF scull_pipe_write, InWrite, Counted
  <2>2. buffer
    BY <2>1 DEF LifeInv, Openings
  <2> QED BY <1>0, <2>2, PipeAssumption DEF Gone, LifeInv, Base, LockOK
<1>2. /\ pc[p] \notin {"closed", "open"} /\ OthersStay(p) /\ pc'[p] \notin {"closed", "open"}
      /\ buffer' = buffer /\ rp' = rp /\ ubuf' = ubuf
  BY <1>0 DEF scull_pipe_write, InWrite, Goto, OthersStay, TypeOK
<1>3. Users' = Users /\ (Gone' <=> Gone)
  BY <1>2 DEF Users, Gone, OthersStay
<1> DEFINE c == WriteCount(Len(s))
           h == Between(rp, wp)
<1>4. /\ c \in Nat /\ c <= Len(s)
      /\ IF wp >= rp THEN c <= end - wp /\ c <= end - 1 - (wp - rp) ELSE c <= rp - wp - 1
  BY <1>0, <1>s, WriteCountFits
<1>5. Wrap(rp) = rp /\ Wrap(wp) = wp /\ h \in Nat
  BY <1>0, PlaceInside, PipeAssumption DEF Wrap, Offset, end
<1>6. /\ Wrap(wp + c) \in Offset /\ Between(rp, Wrap(wp + c)) = h + c
      /\ \A i \in Nat : i < h => ~(wp <= Place(rp, i) /\ Place(rp, i) < wp + c)
      /\ \A i \in Nat : i < c => Place(rp, h + i) = wp + i
  BY <1>0, <1>4, RingPut
<1>7. /\ Contents \in Seq(Bytes) /\ Len(Contents) = h /\ Held = h /\ h <= scull_p_buffer - 1
      /\ \A i \in 1 .. h : Contents[i] = mem[Place(rp, i - 1)]
  BY <1>0, <1>1, <1>5, ContentsSeq, PipeAssumption DEF ContentsFacts
<1>8. \A i \in 0 .. h + c - 1 : Place(rp, i) \in Offset
  <2>1. h + c <= scull_p_buffer - 1
    BY <1>0, <1>6, PlaceInside, PipeAssumption
  <2> QED BY <1>0, <1>4, <1>5, <2>1, PlaceInside, PipeAssumption
<1> HIDE DEF c, h
<1>9. ASSUME NEW k \in 0 .. c, mem' = Stored(s, k), NEW i \in 1 .. h
      PROVE  mem'[Place(rp, i - 1)] = mem[Place(rp, i - 1)]
  <2>1. i - 1 \in Nat /\ i - 1 < h /\ i - 1 \in 0 .. h + c - 1
    BY <1>4, <1>5
  <2>2. Place(rp, i - 1) \in Offset /\ ~(wp <= Place(rp, i - 1) /\ Place(rp, i - 1) < wp + c)
    BY <1>6, <1>8, <2>1
  <2>3. ~(wp <= Place(rp, i - 1) /\ Place(rp, i - 1) < wp + k)
    BY <1>0, <1>4, <2>2, PipeAssumption DEF Offset
  <2> QED BY <1>9, <2>2, <2>3 DEF Stored
<1>10. ASSUME NEW k \in 0 .. c - 1, mem' = Stored(s, k), wp' = wp
       PROVE  [Fifo!Next]_<<Users, Contents, ubuf>>
  <2>1. k \in 0 .. c
    BY <1>4
  <2>2. \A i \in 1 .. Held : mem'[Place(Wrap(rp), i - 1)] = mem[Place(Wrap(rp), i - 1)]
    BY <1>5, <1>7, <1>9, <1>10, <2>1
  <2>3. Wrap(rp)' = Wrap(rp) /\ Wrap(wp)' = Wrap(wp)
    BY <1>2, <1>10 DEF Wrap
  <2>4. Contents' = Contents
    BY <1>0, <1>3, <2>2, <2>3, ContentsSame
  <2> QED BY <1>2, <1>3, <2>4, FifoStutters
<1>11. ASSUME mem' = Stored(s, c), wp' = wp + c
       PROVE  [Fifo!Next]_<<Users, Contents, ubuf>>
  <2>1. /\ Contents' \in Seq(Bytes) /\ Len(Contents') = h + c
        /\ \A i \in 1 .. h + c : Contents'[i] = mem'[Place(rp, i - 1)]
    <3>1. Wrap(rp)' = rp /\ Wrap(wp)' = Wrap(wp + c)
      BY <1>2, <1>5, <1>11 DEF Wrap
    <3>2. /\ Contents' \in Seq(Bytes) /\ Len(Contents') = Held'
          /\ Held' = IF Gone' THEN 0 ELSE Between(Wrap(rp)', Wrap(wp)')
          /\ \A i \in 1 .. Held' : Contents'[i] = mem'[Place(Wrap(rp)', i - 1)]
      BY ContentsSeqNext DEF ContentsFacts
    <3>3. Held' = h + c
      BY <1>1, <1>3, <1>6, <3>1, <3>2
    <3> QED BY <3>1, <3>2, <3>3
  <2> DEFINE f == [i \in 1 .. c |-> s[i]]
  <2>2. f \in [1 .. c -> Byte]
    BY <1>4, <1>s
  <2>3. \A i \in 1 .. c : f[i] = s[i]
    OBVIOUS
  <2> HIDE DEF f
  <2>4. f \in Seq(Bytes) /\ Len(f) = c
    BY <1>4, <2>2 DEF Bytes
  <2>5. /\ Contents \o f \in Seq(Bytes) /\ Len(Contents \o f) = h + c
        /\ \A i \in 1 .. h + c : (Contents \o f)[i] = IF i <= h THEN Contents[i] ELSE f[i - h]
    BY <1>7, <2>4, ConcatProperties
  <2>6. ASSUME NEW i \in 1 .. h + c PROVE Contents'[i] = (Contents \o f)[i]
    <3>1. CASE i <= h
      <4>1. i \in 1 .. h /\ c \in 0 .. c
        BY <1>4, <1>5, <3>1
      <4> QED BY <1>7, <1>9, <1>11, <2>1, <2>5, <3>1, <4>1
    <3>2. CASE i > h
      <4> DEFINE j == i - h
      <4>1. /\ j \in 1 .. c /\ j - 1 \in Nat /\ j - 1 < c /\ i - 1 = h + (j - 1)
            /\ i - 1 \in 0 .. h + c - 1
        BY <1>4, <1>5, <3>2
      <4>2. Place(rp, i - 1) = wp + (j - 1) /\ Place(rp, i - 1) \in Offset
        BY <1>6, <1>8, <4>1
      <4>3. /\ wp <= wp + (j - 1) /\ wp + (j - 1) < wp + c
            /\ (wp + (j - 1)) - wp + 1 = j
        BY <1>0, <1>4, <4>1, PipeAssumption DEF Offset
      <4> HIDE DEF j
      <4>4. mem'[wp + (j - 1)] = s[j]
        BY <1>11, <4>2, <4>3 DEF Stored
      <4>5. (Contents \o f)[i] = f[j]
        BY <1>5, <2>5, <3>2 DEF j
      <4> QED BY <2>1, <2>3, <4>1, <4>2, <4>4, <4>5
    <3>3. i <= h \/ i > h
      BY <1>4, <1>5
    <3> QED BY <3>1, <3>2, <3>3
  <2>7. Contents' = Contents \o f
    BY <2>1, <2>5, <2>6, SeqEqual
  <2>8. c \in 0 .. (scull_p_buffer - 1) - Len(Contents)
    BY <1>0, <1>4, <1>5, <1>6, <1>7, PlaceInside, PipeAssumption
  <2>9. Fifo!Accept
    BY <1>2, <1>3, <2>2, <2>7, <2>8 DEF Fifo!Accept, Users
  <2> QED BY <2>9 DEF Fifo!Next
<1> QED BY <1>10, <1>11 DEF scull_pipe_write, c

(* No contents: the queue is empty.                                        *)
LEMMA GoneIsEmpty ==
  ASSUME TypeOK'
  PROVE  Gone' => Contents' = <<>>
<1>1. /\ Contents' \in Seq(Bytes) /\ Len(Contents') = Held'
      /\ Held' = IF Gone' THEN 0 ELSE Between(Wrap(rp)', Wrap(wp)')
  BY ContentsSeqNext DEF ContentsFacts
<1> QED BY <1>1, EmptySeq

(* The steps that touch neither bytes nor openings.                        *)
LEMMA SameBytes ==
  ASSUME TypeOK, TypeOK', NEW p \in Procs, OthersStay(p), buffer' = buffer, mem' = mem, ubuf' = ubuf,
         Wrap(rp)' = Wrap(rp), Wrap(wp)' = Wrap(wp),
         pc[p] \notin {"closed", "open"}, pc'[p] \notin {"closed", "open"}
  PROVE  [Fifo!Next]_<<Users, Contents, ubuf>>
<1>1. Users' = Users /\ (Gone' <=> Gone)
  BY DEF Users, Gone, OthersStay
<1>2. Contents' = Contents
  BY <1>1, ContentsSame
<1> QED BY <1>1, <1>2, FifoStutters

(* An open empties the queue, a close may.                                 *)
LEMMA OpenAndClose ==
  ASSUME LifeInv, TypeOK', NEW p \in Procs,
         \/ \E mode \in Modes : scull_pipe_open(p, mode)
         \/ scull_pipe_open_end(p)
         \/ scull_pipe_release_end(p)
  PROVE  [Fifo!Next]_<<Users, Contents, ubuf>>
<1>0. TypeOK
  BY DEF LifeInv, Base
<1>1. CASE \E mode \in Modes : scull_pipe_open(p, mode)
  <2>1. pc[p] = "closed" /\ pc'[p] = "open" /\ OthersStay(p) /\ ubuf' = ubuf
    BY <1>0, <1>1 DEF scull_pipe_open, Goto, OthersStay, TypeOK
  <2>2. Gone' /\ Users' = Users \cup {p} /\ p \notin Users
    BY <2>1 DEF Gone, Users, OthersStay
  <2>3. Fifo!Open(p)
    BY <2>1, <2>2, GoneIsEmpty DEF Fifo!Open, Users
  <2> QED BY <2>3 DEF Fifo!Next
<1>2. CASE scull_pipe_open_end(p)
  <2>1. /\ pc[p] = "open" /\ pc'[p] = "idle" /\ OthersStay(p) /\ ubuf' = ubuf
        /\ rp' = 0 /\ wp' = 0
    BY <1>0, <1>2 DEF scull_pipe_open_end, Goto, OthersStay, TypeOK
  <2>2. Gone /\ Users' = Users
    BY <2>1 DEF Gone, Users, OthersStay
  <2>3. Contents = <<>>
    <3>1. Contents \in Seq(Bytes) /\ Len(Contents) = 0
      BY <1>0, <2>2, ContentsSeq DEF ContentsFacts
    <3> QED BY <3>1, EmptySeq
  <2>4. Contents' = <<>>
    <3>1. Wrap(rp)' = 0 /\ Wrap(wp)' = 0
      BY <2>1, PipeAssumption DEF Wrap, end
    <3>2. Contents' \in Seq(Bytes) /\ Len(Contents') = Held' /\ Held' = 0
      BY <3>1, ContentsSeqNext, PipeAssumption DEF ContentsFacts, Between
    <3> QED BY <3>2, EmptySeq
  <2> QED BY <2>1, <2>2, <2>3, <2>4, FifoStutters
<1>3. CASE scull_pipe_release_end(p)
  <2>1. /\ pc[p] = "release" /\ pc'[p] = "closed" /\ OthersStay(p)
        /\ UNCHANGED <<mem, rp, wp, ubuf>> /\ (buffer' => buffer)
    BY <1>0, <1>3 DEF scull_pipe_release_end, Goto, OthersStay, TypeOK
  <2>2. Users' = Users \ {p} /\ p \in Users
    BY <2>1 DEF Users, OthersStay
  <2>3. Contents' = Contents \/ Contents' = <<>>
    <3>1. CASE buffer'
      <4>1. Gone' <=> Gone
        BY <2>1, <3>1 DEF Gone, OthersStay
      <4>2. Wrap(rp)' = Wrap(rp) /\ Wrap(wp)' = Wrap(wp)
        BY <2>1 DEF Wrap
      <4> QED BY <1>0, <2>1, <4>1, <4>2, ContentsSame
    <3>2. CASE ~buffer'
      BY <3>2, GoneIsEmpty DEF Gone
    <3> QED BY <3>1, <3>2
  <2>4. Fifo!Close(p)
    BY <2>1, <2>2, <2>3 DEF Fifo!Close, Users
  <2> QED BY <2>4 DEF Fifo!Next
<1> QED BY <1>1, <1>2, <1>3

(* Every step of the pipe is a step of the queue or changes nothing of it. *)
LEMMA StepSimulates ==
  ASSUME LifeInv, TypeOK', NEW p \in Procs, Step(p) \/ Call(p)
  PROVE  [Fifo!Next]_<<Users, Contents, ubuf>>
<1>0. TypeOK
  BY DEF LifeInv, Base
<1>1. Wrap(Wrap(rp)) = Wrap(rp) /\ Wrap(Wrap(wp)) = Wrap(wp)
  BY <1>0, PipeAssumption DEF Wrap, TypeOK, end
<1>2. CASE Quiet(p)
  <2>1. Wrap(rp)' = Wrap(rp) /\ Wrap(wp)' = Wrap(wp)
    BY <1>2 DEF Quiet, Wrap
  <2> QED BY <1>0, <1>2, <2>1, SameBytes DEF Quiet, Busy
<1>3. CASE scull_pipe_release(p)
  <2>1. /\ pc[p] = "idle" /\ pc'[p] = "release" /\ OthersStay(p)
        /\ UNCHANGED <<buffer, mem, rp, wp, ubuf>>
    BY <1>0, <1>3 DEF scull_pipe_release, Goto, OthersStay, TypeOK, dev
  <2>2. Wrap(rp)' = Wrap(rp) /\ Wrap(wp)' = Wrap(wp)
    BY <2>1 DEF Wrap
  <2> QED BY <1>0, <2>1, <2>2, SameBytes
<1>4. CASE scull_pipe_read_wrap(p)
  <2>1. /\ pc[p] = "r_wrap" /\ pc'[p] = "r_wake" /\ OthersStay(p)
        /\ UNCHANGED <<buffer, mem, wp, ubuf>> /\ rp' = Wrap(rp)
    BY <1>0, <1>4 DEF scull_pipe_read_wrap, Goto, OthersStay, TypeOK
  <2>2. Wrap(rp)' = Wrap(Wrap(rp)) /\ Wrap(wp)' = Wrap(wp)
    BY <2>1 DEF Wrap
  <2> QED BY <1>0, <1>1, <2>1, <2>2, SameBytes
<1>5. CASE scull_pipe_write_wrap(p)
  <2>1. /\ pc[p] = "w_wrap" /\ pc'[p] = "w_wake" /\ OthersStay(p)
        /\ UNCHANGED <<buffer, mem, rp, ubuf>> /\ wp' = Wrap(wp)
    BY <1>0, <1>5 DEF scull_pipe_write_wrap, Goto, OthersStay, TypeOK
  <2>2. Wrap(rp)' = Wrap(rp) /\ Wrap(wp)' = Wrap(Wrap(wp))
    BY <2>1 DEF Wrap
  <2> QED BY <1>0, <1>1, <2>1, <2>2, SameBytes
<1>6. CASE scull_pipe_read_wake(p)
  <2>1. /\ pc[p] = "r_wake" /\ pc'[p] = "idle" /\ OthersStay(p)
        /\ UNCHANGED <<buffer, mem, rp, wp>> /\ ubuf' = [ubuf EXCEPT ![p] = <<>>]
    BY <1>0, <1>6 DEF scull_pipe_read_wake, Goto, OthersStay, TypeOK, dev
  <2>2. Users' = Users /\ (Gone' <=> Gone)
    BY <2>1 DEF Users, Gone, OthersStay
  <2>3. Wrap(rp)' = Wrap(rp) /\ Wrap(wp)' = Wrap(wp)
    BY <2>1 DEF Wrap
  <2>4. Contents' = Contents
    BY <1>0, <2>1, <2>2, <2>3, ContentsSame
  <2>5. Fifo!Return(p)
    BY <2>1, <2>2, <2>4 DEF Fifo!Return, Users
  <2> QED BY <2>5 DEF Fifo!Next
<1>7. Quiet(p) \/ Loud(p)
  BY <1>0, StepKinds
<1> QED BY <1>2, <1>3, <1>4, <1>5, <1>6, <1>7, ReadDelivers, WriteAccepts, OpenAndClose DEF Loud

(* The pipe implements the queue, whatever the number of processes and the *)
(* size of the buffer: the bytes come out once each and in the order in    *)
(* which they were accepted, across the wrap of either pointer.            *)
THEOREM PipeIsFifo == Spec => ImplementsFifo
<1>1. Init => Fifo!Init
  <2> SUFFICES ASSUME Init PROVE Fifo!Init
    OBVIOUS
  <2>1. TypeOK
    BY InitBase DEF Base
  <2>2. Gone /\ {p \in Procs : pc[p] # "closed"} = {} /\ ubuf = [p \in Procs |-> <<>>]
    BY DEF Init, Gone
  <2>3. Contents \in Seq(Bytes) /\ Len(Contents) = 0
    BY <2>1, <2>2, ContentsSeq DEF ContentsFacts
  <2>4. Contents = <<>>
    BY <2>3, EmptySeq
  <2> QED BY <2>2, <2>4 DEF Fifo!Init
<1>2. LifeInv /\ LifeInv' /\ [Next]_vars
        => [Fifo!Next]_<<{p \in Procs : pc[p] # "closed"}, Contents, ubuf>>
  <2> SUFFICES ASSUME LifeInv, LifeInv', [Next]_vars PROVE [Fifo!Next]_<<Users, Contents, ubuf>>
    BY DEF Users
  <2>1. TypeOK /\ TypeOK'
    BY DEF LifeInv, Base
  <2>2. CASE Next
    BY <2>1, <2>2, StepSimulates DEF Next
  <2>3. CASE UNCHANGED vars
    <3>1. Users' = Users /\ (Gone' <=> Gone) /\ mem' = mem /\ ubuf' = ubuf
      BY <2>3 DEF vars, Users, Gone
    <3>2. Wrap(rp)' = Wrap(rp) /\ Wrap(wp)' = Wrap(wp)
      BY <2>3 DEF vars, Wrap
    <3>3. Contents' = Contents
      BY <2>1, <3>1, <3>2, ContentsSame
    <3> QED BY <3>1, <3>3, FifoStutters
  <2> QED BY <2>2, <2>3
<1> QED BY <1>1, <1>2, LifeCorrect, PTL DEF Spec, ImplementsFifo, Fifo!Spec

(* ... and so does the pipe of scull_pipe_device.                          *)
THEOREM DevicePipeIsFifo == DeviceSpec => ImplementsFifo
BY DeviceIsPipe, PipeIsFifo, PTL
-----------------------------------------------------------------------------
(* The queue and the reads in progress hold bytes that were written.       *)
Written == Contents \in Seq(Byte) /\ ubuf \in [Procs -> Seq(Byte)]

(* Part of a sequence of bytes is one.                                     *)
LEMMA PartOfBytes ==
  ASSUME NEW s \in Seq(Byte), NEW m \in Nat, NEW n \in Nat, 1 <= m, n <= Len(s)
  PROVE  SubSeq(s, m, n) \in Seq(Byte)
<1>1. \A i \in m .. n : s[i] \in Byte
  BY ElementOfSeq
<1> QED BY <1>1, SubSeqProperties

(* The queue hands out what it was given.                                  *)
LEMMA QueueOfWritten ==
  ASSUME Written, [Fifo!Next]_<<{p \in Procs : pc[p] # "closed"}, Contents, ubuf>>
  PROVE  Written'
<1> USE DEF Written
<1>1. CASE Fifo!Accept
  <2>1. PICK k \in 0 .. (scull_p_buffer - 1) - Len(Contents) : \E s \in [1 .. k -> Byte] :
          Contents' = Contents \o s /\ ubuf' = ubuf
    BY <1>1 DEF Fifo!Accept
  <2>2. PICK s \in [1 .. k -> Byte] : Contents' = Contents \o s /\ ubuf' = ubuf
    BY <2>1
  <2>3. Len(Contents) \in Nat /\ k \in Nat
    BY PipeAssumption
  <2>4. s \in Seq(Byte)
    BY <2>3
  <2> QED BY <2>2, <2>4, ConcatProperties
<1>2. ASSUME NEW p \in Procs, Fifo!Deliver(p) PROVE Written'
  <2>1. PICK k \in 0 .. Len(Contents) :
          /\ ubuf' = [ubuf EXCEPT ![p] = SubSeq(Contents, 1, k)]
          /\ Contents' = SubSeq(Contents, k + 1, Len(Contents))
    BY <1>2 DEF Fifo!Deliver
  <2>2. Len(Contents) \in Nat /\ k \in Nat /\ k <= Len(Contents)
    OBVIOUS
  <2>3. SubSeq(Contents, 1, k) \in Seq(Byte) /\ SubSeq(Contents, k + 1, Len(Contents)) \in Seq(Byte)
    BY <2>2, PartOfBytes
  <2> QED BY <2>1, <2>3
<1>3. ASSUME NEW p \in Procs, Fifo!Return(p) \/ Fifo!Open(p) \/ Fifo!Close(p) PROVE Written'
  <2>1. <<>> \in Seq(Byte)
    OBVIOUS
  <2>2. /\ Contents' = Contents \/ Contents' = <<>>
        /\ ubuf' = ubuf \/ ubuf' = [ubuf EXCEPT ![p] = <<>>]
    BY <1>3, Zenon DEF Fifo!Return, Fifo!Open, Fifo!Close
  <2> QED BY <2>1, <2>2
<1>4. CASE UNCHANGED <<Contents, ubuf>>
  BY <1>4
<1> QED BY <1>1, <1>2, <1>3, <1>4 DEF Fifo!Next

(* A read returns only bytes that some write stored: no byte of the fresh  *)
(* kmalloc()ed buffer reaches user space.                                  *)
THEOREM OnlyWrittenBytesRead == Spec => []NoUninitialisedRead
<1>1. Fifo!Init => Written
  BY DEF Fifo!Init, Written
<1>2. Written /\ [Fifo!Next]_<<{p \in Procs : pc[p] # "closed"}, Contents, ubuf>> => Written'
  BY QueueOfWritten
<1>3. Written => NoUninitialisedRead
  <2> SUFFICES ASSUME Written, NEW p \in Procs, NEW i \in DOMAIN ubuf[p] PROVE ubuf[p][i] # Garbage
    BY DEF NoUninitialisedRead
  <2>1. ubuf[p] \in Seq(Byte)
    BY DEF Written
  <2>2. ubuf[p][i] \in Byte
    BY <2>1
  <2> QED BY <2>2, PipeAssumption
<1> QED BY <1>1, <1>2, <1>3, PipeIsFifo, PTL DEF ImplementsFifo, Fifo!Spec
=============================================================================
