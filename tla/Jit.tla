--------------------------------- MODULE Jit ---------------------------------
(***************************************************************************)
(* jit/main.c: files under /proc whose read waits.  jitbusy, jitsched,     *)
(* jitqueue and jitschedto wait for delay jiffies; jitimer, jitasklet and  *)
(* jitasklethi wait until a timer or tasklet has printed JIT_ASYNC_LOOPS   *)
(* lines into a buffer on the stack of the read.                           *)
(*                                                                         *)
(* Procs are reads: each is made once and has a stack frame of its own.    *)
(* jiffies wraps around; a read with a non-zero *f_pos returns 0 at once   *)
(* and is left out.  When timers and tasklets run is left open.            *)
(***************************************************************************)
EXTENDS Integers

CONSTANTS
  Procs,
  Wrap,             \* jiffies counts modulo Wrap
  delay,            \* jiffies to wait
  MaxLate,          \* a delayed read runs again this many jiffies after its start
  JIT_ASYNC_LOOPS   \* 5

JitConstants ==
  /\ Wrap \in Nat /\ delay \in Nat \ {0} /\ MaxLate \in Nat
  /\ delay <= MaxLate /\ MaxLate < delay + Wrap \div 2 /\ delay < Wrap \div 2
  /\ JIT_ASYNC_LOOPS \in Nat \ {0}

VARIABLES
  jiffies,
  pc,       \* per read: "idle", "delay", "test", "queued", "asleep", "done"
  file,     \* per read: the file
  j1,       \* per read of a delay file: jiffies to wait for
  elapsed,  \* per read of a delay file: jiffies since its start
  loops,    \* per read: data.loops, lines to print
  pending,  \* per read: what will run next for it, or "none"
  waking,   \* reads whose handler printed the last line and has still to wake_up
  sig       \* reads with a signal pending

delays   == <<j1, elapsed>>
handlers == <<loops, pending, waking>>
vars     == <<jiffies, pc, file, j1, elapsed, loops, pending, waking, sig>>

Goto(r, s) == pc' = [pc EXCEPT ![r] = s]

Init ==
  /\ jiffies \in 0 .. Wrap - 1
  /\ pc = [r \in Procs |-> "idle"]
  /\ file = [r \in Procs |-> "none"]
  /\ j1 = [r \in Procs |-> 0]
  /\ elapsed = [r \in Procs |-> 0]
  /\ loops = [r \in Procs |-> 0]
  /\ pending = [r \in Procs |-> "none"]
  /\ waking = {}
  /\ sig = {}
-----------------------------------------------------------------------------
(* Mutant: a plain comparison, which a wrap of jiffies confuses. *)
time_before_plain(a, b) == a < b

(* The sign of the difference of two jiffies values. *)
time_before(a, b) == (a - b) % Wrap >= Wrap \div 2

DelayFiles == {"jitbusy", "jitsched", "jitqueue", "jitschedto"}

StartDelay(r, f) ==
  /\ pc[r] = "idle" /\ f \in DelayFiles
  /\ Goto(r, "delay")
  /\ file' = [file EXCEPT ![r] = f]
  /\ j1' = [j1 EXCEPT ![r] = (jiffies + delay) % Wrap]
  /\ UNCHANGED <<jiffies, elapsed, handlers, sig>>

TimeUp(r) == ~time_before(jiffies, j1[r])

DelayEnds(r, f) ==
  /\ pc[r] = "delay" /\ file[r] = f
  /\ Goto(r, "done")
  /\ j1' = [j1 EXCEPT ![r] = 0]
  /\ UNCHANGED <<jiffies, file, elapsed, handlers, sig>>

(* Two loops over time_before(), around cpu_relax() and schedule(). *)
jit_busy(r)  == DelayEnds(r, "jitbusy") /\ TimeUp(r)
jit_sched(r) == DelayEnds(r, "jitsched") /\ TimeUp(r)

(* Two sleeps with a timeout; a signal ends them early. *)
jit_queue(r)   == DelayEnds(r, "jitqueue") /\ (TimeUp(r) \/ r \in sig)
jit_schedto(r) == DelayEnds(r, "jitschedto") /\ (TimeUp(r) \/ r \in sig)

Tick ==
  /\ \A r \in Procs : pc[r] = "delay" => elapsed[r] < MaxLate
  /\ jiffies' = (jiffies + 1) % Wrap
  /\ elapsed' = [r \in Procs |-> IF pc[r] = "delay" THEN elapsed[r] + 1 ELSE elapsed[r]]
  /\ UNCHANGED <<pc, file, j1, handlers, sig>>

Signal(r) ==
  /\ pc[r] \notin {"idle", "done"} /\ r \notin sig
  /\ sig' = sig \cup {r}
  /\ UNCHANGED <<jiffies, pc, file, delays, handlers>>
-----------------------------------------------------------------------------
(* Fill data on the stack and register what prints. *)
Start(r, f, what) ==
  /\ pc[r] = "idle"
  /\ Goto(r, "test")
  /\ file' = [file EXCEPT ![r] = f]
  /\ loops' = [loops EXCEPT ![r] = JIT_ASYNC_LOOPS]
  /\ pending' = [pending EXCEPT ![r] = what]
  /\ UNCHANGED <<jiffies, delays, waking, sig>>

jit_timer(r)     == Start(r, "jitimer", "timer")
jit_tasklet(r)   == Start(r, "jitasklet", "tasklet")
jit_tasklethi(r) == Start(r, "jitasklethi", "tasklet_hi")

(* Mutants: a signal ends the wait; a reader sleeps without a second test. *)
wait_event_interruptible(r) ==
  /\ \/ /\ pc[r] \in {"test", "queued"}
        /\ Goto(r, IF loops[r] = 0 \/ r \in sig THEN "done"
                   ELSE IF pc[r] = "test" THEN "queued" ELSE "asleep")
     \/ pc[r] = "asleep" /\ r \in sig /\ Goto(r, "queued")
  /\ UNCHANGED <<jiffies, file, delays, handlers, sig>>

wait_event_once(r) ==
  /\ pc[r] \in {"test", "queued"}
  /\ Goto(r, IF pc[r] = "queued" THEN "asleep" ELSE IF loops[r] = 0 THEN "done" ELSE "queued")
  /\ UNCHANGED <<jiffies, file, delays, handlers, sig>>

(* wait_event(data.wait, !data.loops): test, get on the queue, test again, *)
(* sleep.  A signal does not end it; it only changes what is returned.     *)
wait_event(r) ==
  /\ pc[r] \in {"test", "queued"}
  /\ Goto(r, IF loops[r] = 0 THEN "done" ELSE IF pc[r] = "test" THEN "queued" ELSE "asleep")
  /\ UNCHANGED <<jiffies, file, delays, handlers, sig>>

(* Print a line; the last one is followed by a wake_up, any other by       *)
(* another round of the kind again.                                        *)
LinePrinted(r, again) ==
  /\ loops' = [loops EXCEPT ![r] = @ - 1]
  /\ pending' = [pending EXCEPT ![r] = IF loops[r] > 1 THEN again ELSE "none"]
  /\ waking' = IF loops[r] > 1 THEN waking ELSE waking \cup {r}
  /\ UNCHANGED <<jiffies, pc, file, delays, sig>>

jit_timer_fn(r) == pending[r] = "timer" /\ LinePrinted(r, "timer")

(* data->hi is 0 for both files. *)
jit_tasklet_fn(r) == pending[r] \in {"tasklet", "tasklet_hi"} /\ LinePrinted(r, "tasklet")

wake_up(r) ==
  /\ r \in waking
  /\ waking' = waking \ {r}
  /\ pc' = IF pc[r] = "asleep" THEN [pc EXCEPT ![r] = "queued"] ELSE pc
  /\ UNCHANGED <<jiffies, file, delays, loops, pending, sig>>
-----------------------------------------------------------------------------
ReadStep(r) == jit_busy(r) \/ jit_sched(r) \/ jit_queue(r) \/ jit_schedto(r) \/ wait_event(r)

HandlerStep(r) == jit_timer_fn(r) \/ jit_tasklet_fn(r) \/ wake_up(r)

Next ==
  \/ Tick
  \/ \E r \in Procs :
       \/ \E f \in DelayFiles : StartDelay(r, f)
       \/ jit_timer(r) \/ jit_tasklet(r) \/ jit_tasklethi(r)
       \/ Signal(r)
       \/ ReadStep(r)
       \/ HandlerStep(r)

Spec == Init /\ [][Next]_vars

(* The clock runs, timers expire, tasklets run and reads are scheduled. *)
FairSpec ==
  /\ Spec
  /\ WF_vars(Tick)
  /\ \A r \in Procs : WF_vars(ReadStep(r)) /\ WF_vars(HandlerStep(r))
-----------------------------------------------------------------------------
(* A read waits for delay jiffies, also across a wrap; only a signal cuts  *)
(* jitqueue and jitschedto short.                                          *)
DelayHonoured ==
  \A r \in Procs :
    pc[r] = "done" /\ file[r] \in DelayFiles =>
      elapsed[r] >= delay \/ (r \in sig /\ file[r] \in {"jitqueue", "jitschedto"})

(* A timer or tasklet that is still to print finds the stack frame it      *)
(* prints to: the read has not returned, whatever signals came.            *)
HandlerHasFrame ==
  \A r \in Procs : pending[r] # "none" => pc[r] \in {"test", "queued", "asleep"}

(* No read sleeps on after the last line unless it is about to be woken.   *)
NoReaderForgotten ==
  \A r \in Procs : pc[r] = "asleep" /\ loops[r] = 0 => r \in waking

(* Every read returns. *)
ReadReturns == \A r \in Procs : (pc[r] # "idle") ~> (pc[r] = "done")

(* The wait queue a handler wakes is on the stack of a read that is still  *)
(* there.                                                                  *)
WakesLiveQueue == \A r \in waking : pc[r] # "done"

(* "int hi; /* tasklet or tasklet_hi */": the tasklet of jitasklethi is    *)
(* scheduled with high priority every time.                                *)
HiStaysHi ==
  \A r \in Procs : file[r] = "jitasklethi" => pending[r] \in {"none", "tasklet_hi"}
=============================================================================
