-------------------------------- MODULE Sleepy --------------------------------
(***************************************************************************)
(* sleepy/main.c: readers sleep until a writer raises a flag.  A read is   *)
(* wait_event_interruptible(wq, flag != 0), whose result is ignored, then  *)
(* flag = 0; a write is flag = 1, then wake_up_interruptible.  No lock.    *)
(*                                                                         *)
(* The wait, as the kernel's macro does it: test the flag; get on the wait *)
(* queue; test the flag again, then for a signal; sleep; and again.        *)
(***************************************************************************)
CONSTANT Procs

VARIABLES
  flag,
  pc,   \* per process: "out", "queued", "asleep" or "clear" in a read, "wake" in a write
  sig   \* processes with a signal pending

vars == <<flag, pc, sig>>

Init ==
  /\ flag = 0
  /\ pc = [p \in Procs |-> "out"]
  /\ sig = {}

Goto(p, s) == pc' = [pc EXCEPT ![p] = s]
-----------------------------------------------------------------------------
(* First test of the condition; without it, get on the queue. *)
sleepy_read(p) ==
  /\ pc[p] = "out"
  /\ Goto(p, IF flag # 0 THEN "clear" ELSE "queued")
  /\ UNCHANGED <<flag, sig>>

(* Mutant: a reader goes to sleep without testing the flag again. *)
wait_event_untested(p) ==
  /\ pc[p] = "queued"
  /\ Goto(p, IF p \in sig THEN "clear" ELSE "asleep")
  /\ UNCHANGED <<flag, sig>>

(* On the queue: test again; the flag or a signal ends the wait. *)
wait_event(p) ==
  /\ pc[p] = "queued"
  /\ Goto(p, IF flag # 0 \/ p \in sig THEN "clear" ELSE "asleep")
  /\ UNCHANGED <<flag, sig>>

(* flag = 0, whatever ended the wait. *)
sleepy_read_clear(p) ==
  /\ pc[p] = "clear"
  /\ flag' = 0
  /\ Goto(p, "out")
  /\ sig' = sig \ {p}

sleepy_write(p) ==
  /\ pc[p] = "out"
  /\ flag' = 1
  /\ Goto(p, "wake")
  /\ UNCHANGED sig

wake_up_interruptible(p) ==
  /\ pc[p] = "wake"
  /\ pc' = [q \in Procs |-> IF q = p THEN "out"
                            ELSE IF pc[q] = "asleep" THEN "queued" ELSE pc[q]]
  /\ UNCHANGED <<flag, sig>>

(* A signal for a process in a read wakes it if it is asleep. *)
Signal(p) ==
  /\ pc[p] \in {"queued", "asleep"} /\ p \notin sig
  /\ sig' = sig \cup {p}
  /\ Goto(p, "queued")
  /\ UNCHANGED flag

(* What a process inside a call does next. *)
Step(p) == wait_event(p) \/ sleepy_read_clear(p) \/ wake_up_interruptible(p)

Next == \E p \in Procs : sleepy_read(p) \/ sleepy_write(p) \/ Signal(p) \/ Step(p)

Spec == Init /\ [][Next]_vars

FairSpec == Spec /\ \A p \in Procs : WF_vars(Step(p))
-----------------------------------------------------------------------------
(* No wake-up is lost: a reader asleep although the flag is up is about to *)
(* be woken by the write that raised it.                                   *)
NoReaderForgotten ==
  (\E p \in Procs : pc[p] = "asleep") /\ flag # 0 => \E w \in Procs : pc[w] = "wake"

(* A reader that sleeps while the flag is up wakes up. *)
SleeperWakes == \A p \in Procs : (pc[p] = "asleep" /\ flag # 0) ~> (pc[p] # "asleep")

(* "awakening the readers...": a write is not undone by a reader that only *)
(* a signal woke.                                                          *)
WriteNotTaken ==
  [][\A p \in sig : pc[p] = "clear" /\ flag = 1 => ~sleepy_read_clear(p)]_vars
=============================================================================
