------------------------------ MODULE ScullPipe ------------------------------
(***************************************************************************)
(* The scullpipe character device (scull_full/impl/scull_pipe.c): a        *)
(* circular buffer shared by blocking readers and writers, guarded by      *)
(* dev->mutex, with the wait queues inq and outq, poll() and asynchronous  *)
(* notification.                                                           *)
(*                                                                         *)
(* Pointers are offsets into the buffer: dev->buffer is 0 and dev->end is  *)
(* scull_p_buffer.  rp and wp reach dev->end for the instant between their *)
(* advance and the wrap test.                                              *)
(*                                                                         *)
(* A critical section is one action, except where its intermediate stores  *)
(* are visible: rp and wp are also read WITHOUT the mutex, by the sleep    *)
(* conditions of read and of scull_getwritespace, so the store that        *)
(* advances a pointer and the store that wraps it are two actions, and so  *)
(* are the two stores of "rp = wp = buffer" in open, in either order.  An  *)
(* unlocked condition is evaluated by two separate loads, in either order. *)
(*                                                                         *)
(* O_NONBLOCK is looked at once per iteration of a wait loop and           *)
(* fcntl(F_SETFL) may change it at any time, so each look is a free        *)
(* choice.  So is the arrival of a signal at each place the code tests it. *)
(* An interrupted or failed open (-ERESTARTSYS, -ENOMEM) and a poll that   *)
(* finds its event at once change nothing: they are stuttering steps.      *)
(***************************************************************************)
EXTENDS Integers, Sequences, FiniteSets

CONSTANTS
  Procs,           \* processes; each opens the device at most once at a time
  NoProc,          \* owner of a free mutex
  scull_p_buffer,  \* size of the circular buffer (SCULL_P_BUFFER, 4000)
  Byte,            \* values a byte of user data may take
  Garbage,         \* a byte of kmalloc()ed memory nobody has written
  Modes,           \* access modes of open(): {} is open(path, 3), neither
  MaxCount         \* bound on the count argument of read and write

ASSUME PipeAssumption ==
  /\ IsFiniteSet(Procs)
  /\ NoProc \notin Procs
  /\ scull_p_buffer \in Nat \ {0, 1}
  /\ Garbage \notin Byte
  /\ Modes \subseteq SUBSET {"r", "w"}
  /\ MaxCount \in Nat

VARIABLES
  buffer,       \* dev->buffer # NULL
  mem,          \* the bytes of the buffer
  rp, wp,       \* where to read, where to write
  nreaders, nwriters,
  mutex,        \* owner of dev->mutex
  inq, outq,    \* processes queued on dev->inq and dev->outq
  async_queue,  \* processes whose file is on dev->async_queue
  f_mode,       \* per process: FMODE_READ / FMODE_WRITE of its open file
  pc,           \* per process: where it is
  load,         \* per process: first load of an unlocked condition
  ubuf,         \* per process: what copy_to_user gave the read in progress
  caught        \* history: on outq when an open() rewound the pipe

dev    == <<buffer, mem, rp, wp, nreaders, nwriters>>
queues == <<inq, outq, caught>>
vars   == <<buffer, mem, rp, wp, nreaders, nwriters, mutex, inq, outq,
            async_queue, f_mode, pc, load, ubuf, caught>>

Offset == 0 .. scull_p_buffer - 1   \* valid positions of a byte
end    == scull_p_buffer            \* dev->end
Counts == 0 .. MaxCount
NoLoad == <<"rp", 0>>

PC == {"closed", "open", "idle", "release",
       "r_lock", "r_wait", "r_load", "r_test", "r_sched", "r_wrap", "r_wake",
       "w_lock", "w_wait", "w_load", "w_test", "w_sched", "w_wrap", "w_wake",
       "poll_in", "poll_out"}

min(a, b)  == IF a < b THEN a ELSE b
Goto(p, l) == pc' = [pc EXCEPT ![p] = l]
-----------------------------------------------------------------------------
(***************************************************************************)
(* The kernel's wait queues.  An entry leaves its queue when it is woken   *)
(* (autoremove_wake_function), so a queued process is one nobody has woken *)
(* since prepare_to_wait.  No waiter is exclusive: a wake-up wakes all.    *)
(***************************************************************************)
prepare_to_wait(q, p) == q \cup {p}
finish_wait(q, p)     == q \ {p}
wake_up(q)            == {}
-----------------------------------------------------------------------------
(* Mutant: no byte kept free to tell a full pipe from an empty one. *)
spacefree_all(r, w) ==
  IF r = w THEN scull_p_buffer ELSE (r + scull_p_buffer - w) % scull_p_buffer

(* How much space is free, for the pointer values r and w. *)
spacefree(r, w) ==
  IF r = w THEN scull_p_buffer - 1
           ELSE ((r + scull_p_buffer - w) % scull_p_buffer) - 1

(* Mutant: write past the end of the buffer. *)
WriteCount_past_end(n) == min(n, spacefree(rp, wp))

(* The bytes one read may take and one write may put at once. *)
ReadCount(n) ==
  IF wp > rp THEN min(n, wp - rp) ELSE min(n, end - rp)

WriteCount(n) ==
  LET m == min(n, spacefree(rp, wp))
  IN  IF wp >= rp THEN min(m, end - wp) ELSE min(m, rp - wp - 1)

Wrap(ptr) == IF ptr = end THEN 0 ELSE ptr

(* A condition on rp and wp evaluated without the mutex: the first load.   *)
LoadOne(p) == \E v \in {<<"rp", rp>>, <<"wp", wp>>} : load' = [load EXCEPT ![p] = v]

(* ... and the pair of values the second load completes. *)
SeenRp(p) == IF load[p][1] = "rp" THEN load[p][2] ELSE rp
SeenWp(p) == IF load[p][1] = "wp" THEN load[p][2] ELSE wp
Unload(p) == load' = [load EXCEPT ![p] = NoLoad]
-----------------------------------------------------------------------------
Init ==
  /\ buffer = FALSE
  /\ mem = [i \in Offset |-> Garbage]
  /\ rp = 0 /\ wp = 0
  /\ nreaders = 0 /\ nwriters = 0
  /\ mutex = NoProc
  /\ inq = {} /\ outq = {} /\ caught = {}
  /\ async_queue = {}
  /\ f_mode = [p \in Procs |-> {}]
  /\ pc = [p \in Procs |-> "closed"]
  /\ load = [p \in Procs |-> NoLoad]
  /\ ubuf = [p \in Procs |-> <<>>]

(***************************************************************************)
(* scull_pipe_open: allocate on first open, rewind both pointers, count    *)
(* the opening.                                                            *)
(***************************************************************************)
scull_pipe_open(p, mode) ==
  /\ pc[p] = "closed" /\ mutex = NoProc
  /\ buffer' = TRUE
  /\ mem' = IF buffer THEN mem ELSE [i \in Offset |-> Garbage]
  /\ \/ wp' = 0 /\ rp' = rp
     \/ rp' = 0 /\ wp' = wp
  /\ mutex' = p
  /\ f_mode' = [f_mode EXCEPT ![p] = mode]
  /\ Goto(p, "open")
  /\ UNCHANGED <<nreaders, nwriters, queues, async_queue, load, ubuf>>

(* Mutant: one pointer is left where the last opening had it. *)
open_half_rewind(p) ==
  /\ pc[p] = "open"
  /\ nreaders' = IF "r" \in f_mode[p] THEN nreaders + 1 ELSE nreaders
  /\ nwriters' = IF "w" \in f_mode[p] THEN nwriters + 1 ELSE nwriters
  /\ mutex' = NoProc
  /\ caught' = outq
  /\ Goto(p, "idle")
  /\ UNCHANGED <<buffer, mem, rp, wp, inq, outq, async_queue, f_mode, load, ubuf>>

scull_pipe_open_end(p) ==
  /\ pc[p] = "open"
  /\ rp' = 0 /\ wp' = 0
  /\ nreaders' = IF "r" \in f_mode[p] THEN nreaders + 1 ELSE nreaders
  /\ nwriters' = IF "w" \in f_mode[p] THEN nwriters + 1 ELSE nwriters
  /\ mutex' = NoProc
  /\ caught' = outq
  /\ Goto(p, "idle")
  /\ UNCHANGED <<buffer, mem, inq, outq, async_queue, f_mode, load, ubuf>>

(* Mutants: stay on async_queue; forget the writer; free with the last reader. *)
release_async(p) ==
  /\ pc[p] = "idle"
  /\ Goto(p, "release")
  /\ UNCHANGED <<dev, mutex, queues, async_queue, f_mode, load, ubuf>>

release_keep_writer(p) ==
  /\ pc[p] = "release" /\ mutex = NoProc
  /\ nreaders' = IF "r" \in f_mode[p] THEN nreaders - 1 ELSE nreaders
  /\ buffer' = (buffer /\ ~(nreaders' = 0 /\ nwriters = 0))
  /\ f_mode' = [f_mode EXCEPT ![p] = {}]
  /\ Goto(p, "closed")
  /\ UNCHANGED <<mem, rp, wp, nwriters, mutex, queues, async_queue, load, ubuf>>

release_last_reader(p) ==
  /\ pc[p] = "release" /\ mutex = NoProc
  /\ nreaders' = IF "r" \in f_mode[p] THEN nreaders - 1 ELSE nreaders
  /\ nwriters' = IF "w" \in f_mode[p] THEN nwriters - 1 ELSE nwriters
  /\ buffer' = (buffer /\ nreaders' # 0)
  /\ f_mode' = [f_mode EXCEPT ![p] = {}]
  /\ Goto(p, "closed")
  /\ UNCHANGED <<mem, rp, wp, mutex, queues, async_queue, load, ubuf>>

(***************************************************************************)
(* scull_pipe_release: leave async_queue (no mutex), then uncount and free *)
(* the buffer with the last reader and writer.                             *)
(***************************************************************************)
scull_pipe_release(p) ==
  /\ pc[p] = "idle"
  /\ async_queue' = async_queue \ {p}
  /\ Goto(p, "release")
  /\ UNCHANGED <<dev, mutex, queues, f_mode, load, ubuf>>

scull_pipe_release_end(p) ==
  /\ pc[p] = "release" /\ mutex = NoProc
  /\ nreaders' = IF "r" \in f_mode[p] THEN nreaders - 1 ELSE nreaders
  /\ nwriters' = IF "w" \in f_mode[p] THEN nwriters - 1 ELSE nwriters
  /\ buffer' = (buffer /\ ~(nreaders' = 0 /\ nwriters' = 0))
  /\ f_mode' = [f_mode EXCEPT ![p] = {}]
  /\ Goto(p, "closed")
  /\ UNCHANGED <<mem, rp, wp, mutex, queues, async_queue, load, ubuf>>

scull_pipe_fasync(p, on) ==
  /\ pc[p] = "idle"
  /\ async_queue' = IF on THEN async_queue \cup {p} ELSE async_queue \ {p}
  /\ UNCHANGED <<dev, mutex, queues, f_mode, pc, load, ubuf>>
-----------------------------------------------------------------------------
(***************************************************************************)
(* scull_pipe_read.                                                        *)
(***************************************************************************)
InRead(p) == "r" \in f_mode[p] /\ pc[p] \in {"idle", "r_lock"} /\ mutex = NoProc

(* Nothing to read: unlock, then -EAGAIN or wait. *)
scull_pipe_read_empty(p) ==
  /\ InRead(p) /\ rp = wp
  /\ \E nonblock \in BOOLEAN : Goto(p, IF nonblock THEN "idle" ELSE "r_wait")
  /\ UNCHANGED <<dev, mutex, queues, async_queue, f_mode, load, ubuf>>

(* Data: copy it out and advance rp, or -EFAULT. *)
scull_pipe_read(p, n) ==
  /\ InRead(p) /\ rp # wp
  /\ \/ /\ rp' = rp + ReadCount(n)
        /\ ubuf' = [ubuf EXCEPT ![p] = [i \in 1 .. ReadCount(n) |-> mem[rp + i - 1]]]
        /\ mutex' = p
        /\ Goto(p, "r_wrap")
     \/ /\ n > 0
        /\ Goto(p, "idle")
        /\ UNCHANGED <<rp, mutex, ubuf>>
  /\ UNCHANGED <<buffer, mem, wp, nreaders, nwriters, queues, async_queue, f_mode, load>>

scull_pipe_read_wrap(p) ==
  /\ pc[p] = "r_wrap"
  /\ rp' = Wrap(rp)
  /\ mutex' = NoProc
  /\ Goto(p, "r_wake")
  /\ UNCHANGED <<buffer, mem, wp, nreaders, nwriters, queues, async_queue, f_mode, load, ubuf>>

(* Awake the writers and return. *)
scull_pipe_read_wake(p) ==
  /\ pc[p] = "r_wake"
  /\ outq' = wake_up(outq)
  /\ caught' = caught \cap outq'
  /\ ubuf' = [ubuf EXCEPT ![p] = <<>>]
  /\ Goto(p, "idle")
  /\ UNCHANGED <<dev, mutex, inq, async_queue, f_mode, load>>

(***************************************************************************)
(* wait_event_interruptible(dev->inq, rp != wp).                           *)
(***************************************************************************)
(* The test before queueing found data. *)
read_wait_nosleep(p) ==
  /\ pc[p] = "r_wait" /\ rp # wp
  /\ Goto(p, "r_lock")
  /\ UNCHANGED <<dev, mutex, queues, async_queue, f_mode, load, ubuf>>

(* Mutant: queue and sleep without testing the condition again. *)
prepare_no_retest(p) ==
  /\ pc[p] = "r_wait" \/ (pc[p] = "r_sched" /\ p \notin inq)
  /\ inq' = prepare_to_wait(inq, p)
  /\ Goto(p, "r_sched")
  /\ UNCHANGED <<dev, mutex, outq, caught, async_queue, f_mode, load, ubuf>>

(* (Re)queue: on entry, and whenever schedule() returns after a wake-up. *)
read_wait_prepare(p) ==
  /\ pc[p] = "r_wait" \/ (pc[p] = "r_sched" /\ p \notin inq)
  /\ inq' = prepare_to_wait(inq, p)
  /\ Goto(p, "r_load")
  /\ UNCHANGED <<dev, mutex, outq, caught, async_queue, f_mode, load, ubuf>>

read_wait_load(p) ==
  /\ pc[p] = "r_load"
  /\ LoadOne(p)
  /\ Goto(p, "r_test")
  /\ UNCHANGED <<dev, mutex, queues, async_queue, f_mode, ubuf>>

read_wait_test(p) ==
  /\ pc[p] = "r_test"
  /\ Unload(p)
  /\ \/ SeenRp(p) # SeenWp(p) /\ inq' = finish_wait(inq, p) /\ Goto(p, "r_lock")
     \/ SeenRp(p) = SeenWp(p) /\ inq' = inq /\ Goto(p, "r_sched")
  /\ UNCHANGED <<dev, mutex, outq, caught, async_queue, f_mode, ubuf>>

(* A signal: prepare_to_wait_event dequeues; the condition is tested once more. *)
read_wait_signal(p) ==
  /\ pc[p] \in {"r_wait", "r_sched"}
  /\ inq' = finish_wait(inq, p)
  /\ Goto(p, IF rp # wp THEN "r_lock" ELSE "idle")
  /\ UNCHANGED <<dev, mutex, outq, caught, async_queue, f_mode, load, ubuf>>
-----------------------------------------------------------------------------
(***************************************************************************)
(* scull_pipe_write.                                                       *)
(***************************************************************************)
InWrite(p) == "w" \in f_mode[p] /\ pc[p] \in {"idle", "w_lock"} /\ mutex = NoProc

(* scull_getwritespace: full, so unlock, then -EAGAIN or wait. *)
scull_pipe_write_full(p) ==
  /\ InWrite(p) /\ spacefree(rp, wp) = 0
  /\ \E nonblock \in BOOLEAN : Goto(p, IF nonblock THEN "idle" ELSE "w_wait")
  /\ UNCHANGED <<dev, mutex, queues, async_queue, f_mode, load, ubuf>>

(* The first k bytes of s, stored from wp on. *)
Stored(s, k) ==
  [i \in Offset |-> IF wp <= i /\ i < wp + k THEN s[i - wp + 1] ELSE mem[i]]

(* Space: copy in and advance wp, or -EFAULT part way through the copy. *)
scull_pipe_write(p, s) ==
  /\ InWrite(p) /\ spacefree(rp, wp) # 0
  /\ \/ /\ mem' = Stored(s, WriteCount(Len(s)))
        /\ wp' = wp + WriteCount(Len(s))
        /\ mutex' = p
        /\ Goto(p, "w_wrap")
     \/ /\ \E k \in 0 .. WriteCount(Len(s)) - 1 : mem' = Stored(s, k)
        /\ Goto(p, "idle")
        /\ UNCHANGED <<wp, mutex>>
  /\ UNCHANGED <<buffer, rp, nreaders, nwriters, queues, async_queue, f_mode, load, ubuf>>

scull_pipe_write_wrap(p) ==
  /\ pc[p] = "w_wrap"
  /\ wp' = Wrap(wp)
  /\ mutex' = NoProc
  /\ Goto(p, "w_wake")
  /\ UNCHANGED <<buffer, mem, rp, nreaders, nwriters, queues, async_queue, f_mode, load, ubuf>>

(* Mutant: no wake-up. *)
write_no_wake(p) ==
  /\ pc[p] = "w_wake"
  /\ Goto(p, "idle")
  /\ UNCHANGED <<dev, mutex, queues, async_queue, f_mode, load, ubuf>>

(* Awake the readers; the SIGIO of kill_fasync() is one of the signals     *)
(* that may arrive anywhere.                                               *)
scull_pipe_write_wake(p) ==
  /\ pc[p] = "w_wake"
  /\ inq' = wake_up(inq)
  /\ Goto(p, "idle")
  /\ UNCHANGED <<dev, mutex, outq, caught, async_queue, f_mode, load, ubuf>>

(***************************************************************************)
(* The sleep of scull_getwritespace: prepare_to_wait, one unlocked test,   *)
(* schedule, finish_wait, then the mutex again.                            *)
(***************************************************************************)
write_wait_prepare(p) ==
  /\ pc[p] = "w_wait"
  /\ outq' = prepare_to_wait(outq, p)
  /\ Goto(p, "w_load")
  /\ UNCHANGED <<dev, mutex, inq, caught, async_queue, f_mode, load, ubuf>>

write_wait_load(p) ==
  /\ pc[p] = "w_load"
  /\ LoadOne(p)
  /\ Goto(p, "w_test")
  /\ UNCHANGED <<dev, mutex, queues, async_queue, f_mode, ubuf>>

LeaveOutq(p) == outq' = finish_wait(outq, p) /\ caught' = caught \ {p}

(* Mutants: schedule() without the test; return without finish_wait. *)
write_no_test(p) ==
  /\ pc[p] = "w_test"
  /\ Unload(p)
  /\ Goto(p, "w_sched")
  /\ UNCHANGED <<dev, mutex, queues, async_queue, f_mode, ubuf>>

write_no_finish(p) ==
  /\ pc[p] = "w_test"
  /\ Unload(p)
  /\ Goto(p, IF spacefree(SeenRp(p), SeenWp(p)) = 0 THEN "w_sched" ELSE "w_lock")
  /\ UNCHANGED <<dev, mutex, queues, async_queue, f_mode, ubuf>>

write_wait_test(p) ==
  /\ pc[p] = "w_test"
  /\ Unload(p)
  /\ \/ /\ spacefree(SeenRp(p), SeenWp(p)) = 0
        /\ Goto(p, "w_sched")
        /\ UNCHANGED <<outq, caught>>
     \/ /\ spacefree(SeenRp(p), SeenWp(p)) # 0
        /\ Goto(p, "w_lock")
        /\ LeaveOutq(p)
  /\ UNCHANGED <<dev, mutex, inq, async_queue, f_mode, ubuf>>

write_wait_woken(p) ==
  /\ pc[p] = "w_sched" /\ p \notin outq
  /\ Goto(p, "w_lock")
  /\ UNCHANGED <<dev, mutex, queues, async_queue, f_mode, load, ubuf>>

write_wait_signal(p) ==
  /\ pc[p] = "w_sched"
  /\ LeaveOutq(p)
  /\ Goto(p, "idle")
  /\ UNCHANGED <<dev, mutex, inq, async_queue, f_mode, load, ubuf>>

(* signal_pending() after a wake-up, or mutex_lock_interruptible: -ERESTARTSYS. *)
lock_interrupted(p) ==
  /\ pc[p] \in {"r_lock", "w_lock"}
  /\ Goto(p, "idle")
  /\ UNCHANGED <<dev, mutex, queues, async_queue, f_mode, load, ubuf>>
-----------------------------------------------------------------------------
(***************************************************************************)
(* poll()/select() for one event.  scull_pipe_poll queues the caller on    *)
(* both queues and reports readiness; the caller sleeps until either queue *)
(* wakes it and asks again.                                                *)
(***************************************************************************)
Ready(ev) == IF ev = "poll_in" THEN rp # wp ELSE spacefree(rp, wp) # 0

LeaveQueues(p) == inq' = finish_wait(inq, p) /\ LeaveOutq(p)

scull_pipe_poll_sleep(p, ev) ==
  /\ pc[p] = "idle" \/ (pc[p] = ev /\ (p \notin inq \/ p \notin outq))
  /\ mutex = NoProc
  /\ ~Ready(ev)
  /\ inq' = prepare_to_wait(inq, p)
  /\ outq' = prepare_to_wait(outq, p)
  /\ caught' = caught \ {p}
  /\ Goto(p, ev)
  /\ UNCHANGED <<dev, mutex, async_queue, f_mode, load, ubuf>>

scull_pipe_poll_ready(p, ev) ==
  /\ pc[p] = ev /\ (p \notin inq \/ p \notin outq)
  /\ mutex = NoProc
  /\ Ready(ev)
  /\ LeaveQueues(p)
  /\ Goto(p, "idle")
  /\ UNCHANGED <<dev, mutex, async_queue, f_mode, load, ubuf>>

(* The timeout of poll() or a signal. *)
poll_timeout(p) ==
  /\ pc[p] \in {"poll_in", "poll_out"}
  /\ LeaveQueues(p)
  /\ Goto(p, "idle")
  /\ UNCHANGED <<dev, mutex, async_queue, f_mode, load, ubuf>>
-----------------------------------------------------------------------------
Data == UNION {[1 .. k -> Byte] : k \in Counts}

(* What a process inside a system call goes on to do by itself. *)
Step(p) ==
  \/ scull_pipe_open_end(p)
  \/ scull_pipe_release_end(p)
  \/ scull_pipe_read_wrap(p)
  \/ scull_pipe_read_wake(p)
  \/ read_wait_nosleep(p)
  \/ read_wait_prepare(p)
  \/ read_wait_load(p)
  \/ read_wait_test(p)
  \/ scull_pipe_write_wrap(p)
  \/ scull_pipe_write_wake(p)
  \/ write_wait_prepare(p)
  \/ write_wait_load(p)
  \/ write_wait_test(p)
  \/ write_wait_woken(p)

(* System calls (and their retries once the mutex is free) and signals. *)
Call(p) ==
  \/ \E mode \in Modes : scull_pipe_open(p, mode)
  \/ scull_pipe_release(p)
  \/ \E on \in BOOLEAN : scull_pipe_fasync(p, on)
  \/ scull_pipe_read_empty(p)
  \/ \E n \in Counts : scull_pipe_read(p, n)
  \/ read_wait_signal(p)
  \/ scull_pipe_write_full(p)
  \/ \E s \in Data : scull_pipe_write(p, s)
  \/ write_wait_signal(p)
  \/ lock_interrupted(p)
  \/ \E ev \in {"poll_in", "poll_out"} :
       scull_pipe_poll_sleep(p, ev) \/ scull_pipe_poll_ready(p, ev)
  \/ poll_timeout(p)

Next == \E p \in Procs : Step(p) \/ Call(p)

Spec == Init /\ [][Next]_vars

(* A poller that was woken asks scull_pipe_poll again. *)
PollAgain(p) ==
  \E ev \in {"poll_in", "poll_out"} :
    pc[p] = ev /\ (scull_pipe_poll_sleep(p, ev) \/ scull_pipe_poll_ready(p, ev))

(* A process that runs inside a system call keeps running: the scheduler   *)
(* gives every runnable process the processor.  scull_pipe_poll waits for  *)
(* the mutex with mutex_lock, and the mutex, whose waiters queue, is not   *)
(* kept from one of them for ever: fairness is strong there.  Nothing is   *)
(* assumed about system calls being made or about signals.                 *)
Fairness == \A p \in Procs : WF_vars(Step(p)) /\ SF_vars(PollAgain(p))

FairSpec == Spec /\ Fairness
-----------------------------------------------------------------------------
(***************************************************************************)
(* Properties.                                                             *)
(***************************************************************************)
(* The type of every variable, and the range of the pointers: an offset or *)
(* dev->end.                                                               *)
TypeOK ==
  /\ buffer \in BOOLEAN
  /\ mem \in [Offset -> Byte \cup {Garbage}]
  /\ rp \in 0 .. end /\ wp \in 0 .. end
  /\ nreaders \in Int /\ nwriters \in Int
  /\ mutex \in Procs \cup {NoProc}
  /\ inq \subseteq Procs /\ outq \subseteq Procs /\ caught \subseteq outq
  /\ async_queue \subseteq Procs
  /\ f_mode \in [Procs -> SUBSET {"r", "w"}]
  /\ pc \in [Procs -> PC]
  /\ load \in [Procs -> {"rp", "wp"} \X (0 .. end)]
  /\ ubuf \in [Procs -> Seq(Byte \cup {Garbage})]

(* Who holds an opening that the counters count. *)
Counted(m) == {p \in Procs : pc[p] \notin {"closed", "open"} /\ m \in f_mode[p]}

(* nreaders and nwriters count exactly the open files with that mode,      *)
(* through every interleaving of open and release.                         *)
CountsExact ==
  /\ nreaders = Cardinality(Counted("r"))
  /\ nwriters = Cardinality(Counted("w"))

(* The buffer outlives every file that may copy to or from it (a read or   *)
(* write never touches freed memory), and the last close frees it.         *)
BufferLifetime ==
  /\ Counted("r") \cup Counted("w") # {} => buffer
  /\ (\A p \in Procs : pc[p] = "closed") => ~buffer

(* SIGIO is never sent for a file that is closed or being released.        *)
AsyncQueueLive == \A p \in async_queue : pc[p] \notin {"closed", "open", "release"}

(* The copies of read and write stay inside the buffer and a read returns  *)
(* only bytes that some write stored: no uninitialised byte of the         *)
(* kmalloc()ed buffer reaches user space.                                  *)
NoUninitialisedRead == \A p \in Procs : \A i \in DOMAIN ubuf[p] : ubuf[p][i] # Garbage

Empty == Wrap(rp) = Wrap(wp)
Full  == spacefree(rp, wp) = 0

(* Someone still has to wake the sleepers on inq (outq), or is rewinding.  *)
WillWakeInq  == \E q \in Procs : pc[q] \in {"w_wrap", "w_wake", "open"}
WillWakeOutq == \E q \in Procs : pc[q] \in {"r_wrap", "r_wake", "open"}

(* No lost wake-up: a reader asleep on inq with data in the pipe is about  *)
(* to be woken.                                                            *)
ReaderNotStranded ==
  \A p \in inq : pc[p] \in {"r_sched", "poll_in"} => Empty \/ WillWakeInq

(* No lost wake-up for a writer asleep on outq with space in the pipe,     *)
(* unless an open() emptied the pipe under it (see WriterNotStranded).     *)
WriterWokenByReads ==
  \A p \in outq \ caught :
    pc[p] \in {"w_sched", "poll_out"} => Full \/ WillWakeOutq

(* "Wait for space for writing" (scull_getwritespace): no writer sleeps    *)
(* while there is space and nobody is going to wake it.                    *)
WriterNotStranded ==
  \A p \in outq : pc[p] = "w_sched" => Full \/ WillWakeOutq

(* A process is on a wait queue only while it waits: every way out of read,*)
(* write and poll takes it off.                                            *)
QueuesLeft ==
  /\ \A p \in inq  : pc[p] \in {"r_load", "r_test", "r_sched", "poll_in", "poll_out"}
  /\ \A p \in outq : pc[p] \in {"w_load", "w_test", "w_sched", "poll_in", "poll_out"}

(* The mutex is held exactly inside the critical sections, and a pointer   *)
(* is dev->end only between its advance and its wrap.                      *)
LockOK ==
  /\ \A p \in Procs : mutex = p <=> pc[p] \in {"open", "r_wrap", "w_wrap"}
  /\ rp = end => \E p \in Procs : pc[p] = "r_wrap"
  /\ wp = end => \E p \in Procs : pc[p] = "w_wrap"

(* What a sleeper's half-evaluated condition may still decide: a reader    *)
(* that is going to find rp = wp finds it rightly, or will be woken.       *)
ReaderDecision ==
  \A p \in inq : pc[p] = "r_test" =>
    \/ WillWakeInq
    \/ Empty
    \/ load[p][1] = "rp" /\ load[p][2] # wp
    \/ load[p][1] = "wp" /\ load[p][2] = wp

(* ... and a writer that is going to find the pipe full.                   *)
WriterDecision ==
  \A p \in outq \ caught : pc[p] = "w_test" =>
    \/ WillWakeOutq
    \/ Full
    \/ load[p][1] = "rp" /\ load[p][2] = rp
    \/ load[p][1] = "wp" /\ spacefree(rp, load[p][2]) # 0

(* The inductive invariant behind the absence of lost wake-ups: the        *)
(* sleepers, those about to sleep, the mutex and the wait queues.          *)
SleepInv ==
  /\ TypeOK
  /\ LockOK
  /\ ReaderNotStranded
  /\ ReaderDecision
  /\ WriterWokenByReads
  /\ WriterDecision

(* Liveness: a reader asleep in read, or a process in poll for data, while *)
(* the pipe holds data is eventually woken, and the poll returns, or the   *)
(* data is gone: scull_pipe_write wakes inq, which both are on.            *)
SleepingReaderServed ==
  \A p \in Procs, l \in {"r_sched", "poll_in"} :
    pc[p] = l /\ ~Empty ~> pc[p] # l \/ Empty
-----------------------------------------------------------------------------
(***************************************************************************)
(* The pipe implements a bounded byte queue.                               *)
(***************************************************************************)
(* How many bytes the pipe holds, and the bytes from rp on; a rewind in    *)
(* progress and a freed buffer hold none.                                  *)
Held ==
  IF ~buffer \/ \E p \in Procs : pc[p] = "open" THEN 0
  ELSE IF Wrap(rp) <= Wrap(wp) THEN Wrap(wp) - Wrap(rp)
  ELSE Wrap(wp) + scull_p_buffer - Wrap(rp)

At(i) == IF Wrap(rp) + i < scull_p_buffer THEN mem[Wrap(rp) + i]
                                          ELSE mem[Wrap(rp) + i - scull_p_buffer]

Contents == [i \in 1 .. Held |-> At(i - 1)]

Fifo == INSTANCE ByteFifo WITH
          Capacity <- scull_p_buffer - 1, queue <- Contents, got <- ubuf,
          users <- {p \in Procs : pc[p] # "closed"}

(* Whatever the interleaving of readers, writers, opens and releases, the  *)
(* bytes come out once each and in the order they were accepted, across    *)
(* the wrap of either pointer.                                             *)
ImplementsFifo == Fifo!Spec
=============================================================================
