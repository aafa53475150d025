--------------------------- MODULE ScullPipeDevice ---------------------------
(***************************************************************************)
(* The pipe of the older module (scull_pipe_device/fops.c).  It has the    *)
(* functions of scull_full/impl/scull_pipe.c under names of its own, with  *)
(* a semaphore initialised to 1 where that has a mutex: what is one step   *)
(* of ScullPipe is one step here, in the same order, and `mutex' stands    *)
(* for the holder of dev->sem.  The actions are grouped by function.       *)
(***************************************************************************)
EXTENDS ScullPipe

scull_p_fasync(p) == \E on \in BOOLEAN : scull_pipe_fasync(p, on)

scull_p_open(p) ==
  (\E mode \in Modes : scull_pipe_open(p, mode)) \/ scull_pipe_open_end(p)

scull_p_release(p) == scull_pipe_release(p) \/ scull_pipe_release_end(p)

(* Lock, find the buffer empty and wait, or copy, advance rp and wake outq. *)
scull_p_read(p) ==
  \/ scull_pipe_read_empty(p)
  \/ read_wait_nosleep(p)
  \/ read_wait_prepare(p)
  \/ read_wait_load(p)
  \/ read_wait_test(p)
  \/ read_wait_signal(p)
  \/ \E n \in Counts : scull_pipe_read(p, n)
  \/ scull_pipe_read_wrap(p)
  \/ scull_pipe_read_wake(p)

scull_getwritespace(p) ==
  \/ scull_pipe_write_full(p)
  \/ write_wait_prepare(p)
  \/ write_wait_load(p)
  \/ write_wait_test(p)
  \/ write_wait_woken(p)
  \/ write_wait_signal(p)

(* Make sure of the space, copy, advance wp, wake inq. *)
scull_p_write(p) ==
  \/ scull_getwritespace(p)
  \/ \E s \in Data : scull_pipe_write(p, s)
  \/ scull_pipe_write_wrap(p)
  \/ scull_pipe_write_wake(p)

(* A signal in one of the down_interruptible of the two wait loops. *)
down_interrupted(p) == lock_interrupted(p)

scull_p_poll(p) ==
  \/ \E ev \in {"poll_in", "poll_out"} :
       scull_pipe_poll_sleep(p, ev) \/ scull_pipe_poll_ready(p, ev)
  \/ poll_timeout(p)

DeviceNext == \E p \in Procs :
  \/ scull_p_open(p)
  \/ scull_p_release(p)
  \/ scull_p_fasync(p)
  \/ scull_p_read(p)
  \/ scull_p_write(p)
  \/ down_interrupted(p)
  \/ scull_p_poll(p)

(* The fairness of ScullPipe: what a process does by itself inside a call. *)
DeviceSpec == Init /\ [][DeviceNext]_vars /\ Fairness
=============================================================================
