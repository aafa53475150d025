----------------------------- MODULE SmallDevices ----------------------------
(***************************************************************************)
(* The small devices under one specification: the four access-controlled   *)
(* devices of scull_full/impl and the three modules that only wait,        *)
(* sleepy, complete and jit.  They share no state, so each behaviour is    *)
(* one of one of them, kind; the variables of the others keep a fixed      *)
(* value.                                                                  *)
(***************************************************************************)
EXTENDS ScullUsers, Sequences

CONSTANTS
  Reads,                                   \* the reads of jit's files
  Wrap, delay, MaxLate, JIT_ASYNC_LOOPS,   \* as in Jit
  MaxDone                                  \* as in Complete

VARIABLES
  kind,                       \* the device that is used
  pc,                         \* of every device but jit
  last, wrote,                \* of scullsingle, sculluid and scullwuid
  available, refused_free,    \* of scullsingle
  count, owner,               \* of sculluid and scullwuid
  wait, missed,               \* of scullwuid
  lock, list, key, private_data,  \* of scullpriv
  flag, sig,                  \* of sleepy; sig of jit too
  done, waiters,              \* of complete
  jpc, jiffies, file, j1, elapsed, loops, pending, waking  \* of jit

single == <<available, refused_free>>
uids   == <<count, owner>>
waits  == <<wait, missed>>
priv   == <<lock, list, key, private_data>>
scull  == <<last, wrote, single, uids, waits, priv>>
compl  == <<done, waiters>>
jits   == <<jpc, jiffies, file, j1, elapsed, loops, pending, waking>>
demos  == <<flag, sig, compl, jits>>
vars   == <<kind, pc, scull, demos>>

Single == INSTANCE ScullSingle
Uid    == INSTANCE ScullUid
Wuid   == INSTANCE ScullWuid
Priv   == INSTANCE ScullPriv
Sleep  == INSTANCE Sleepy
Comp   == INSTANCE Complete
Jits   == INSTANCE Jit WITH Procs <- Reads, pc <- jpc

ASSUME JitAssumption == Jits!JitConstants /\ MaxDone \in Nat

NoSingle  == available = 1 /\ refused_free = {}
NoUids    == count = 0 /\ owner = CHOOSE u \in Uids : TRUE
NoWaits   == wait = {} /\ missed = {}
NoPriv    == lock = Nobody /\ list = <<>> /\ key = <<>> /\ private_data = <<>>
NoStorage == last = Nobody /\ wrote = {}
NoScull   == NoSingle /\ NoUids /\ NoWaits /\ NoPriv /\ NoStorage
NoComp    == done = 0 /\ waiters = <<>>
NoJit     == /\ jpc = [r \in Reads |-> "idle"] /\ jiffies = 0 /\ file = <<>> /\ j1 = <<>> /\ elapsed = <<>>
             /\ loops = <<>> /\ pending = <<>> /\ waking = {}
NoDemos   == flag = 0 /\ sig = {} /\ NoComp /\ NoJit

Init ==
  \/ kind = "single" /\ Single!Init /\ NoUids /\ NoWaits /\ NoPriv /\ NoDemos
  \/ kind = "uid" /\ Uid!Init /\ NoSingle /\ NoWaits /\ NoPriv /\ NoDemos
  \/ kind = "wuid" /\ Wuid!Init /\ NoSingle /\ NoPriv /\ NoDemos
  \/ kind = "priv" /\ Priv!Init /\ NoSingle /\ NoUids /\ NoWaits /\ NoStorage /\ NoDemos
  \/ kind = "sleepy" /\ Sleep!Init /\ NoComp /\ NoJit /\ NoScull
  \/ kind = "complete" /\ Comp!Init /\ flag = 0 /\ sig = {} /\ NoJit /\ NoScull
  \/ kind = "jit" /\ Jits!Init /\ pc = [p \in Procs |-> "out"] /\ flag = 0 /\ NoComp /\ NoScull

(* A step of one device leaves the variables of the others alone. *)
OfWuid   == kind = "wuid" /\ UNCHANGED <<kind, single, priv, demos>>
OfSleepy == kind = "sleepy" /\ UNCHANGED <<kind, scull, compl, jits>>
OfJit    == kind = "jit" /\ UNCHANGED <<kind, pc, scull, flag, compl>>

Next ==
  \/ kind = "single" /\ Single!Next /\ UNCHANGED <<kind, uids, waits, priv, demos>>
  \/ kind = "uid" /\ Uid!Next /\ UNCHANGED <<kind, single, waits, priv, demos>>
  \/ OfWuid /\ Wuid!Next
  \/ kind = "priv" /\ Priv!Next /\ UNCHANGED <<kind, last, wrote, single, uids, waits, demos>>
  \/ OfSleepy /\ Sleep!Next
  \/ kind = "complete" /\ Comp!Next /\ UNCHANGED <<kind, scull, flag, sig, jits>>
  \/ OfJit /\ Jits!Next

Spec == Init /\ [][Next]_vars

(* As in ScullWuid, Sleepy and Jit: a process inside a system call goes    *)
(* on, the clock runs, timers expire and tasklets run.                     *)
FairSpec ==
  /\ Spec
  /\ \A p \in Procs : WF_vars(OfWuid /\ Wuid!Step(p)) /\ WF_vars(OfSleepy /\ Sleep!Step(p))
  /\ WF_vars(OfJit /\ Jits!Tick)
  /\ \A r \in Reads : /\ WF_vars(OfJit /\ Jits!ReadStep(r))
                      /\ WF_vars(OfJit /\ Jits!HandlerStep(r))
-----------------------------------------------------------------------------
(* scullsingle: what a process wrote in its opening is not changed by      *)
(* anyone else until it closes the device.                                 *)
NoInterference == kind = "single" => Single!NoInterference

(* scullsingle: the count is never lost; it is what the holders and the    *)
(* processes that have still to undo a decrement account for, so that the  *)
(* device can be opened again when they are gone.                          *)
CountConserved == kind = "single" => Single!CountConserved

(* sculluid and scullwuid: count is the number of processes that have the  *)
(* device open or are about to; after any mix of failed opens, interrupted *)
(* waits and releases a free device is free.                               *)
CountExact == (kind = "uid" => Uid!CountExact) /\ (kind = "wuid" => Wuid!CountExact)

(* sculluid and scullwuid: every process inside has the owner's uid or may *)
(* override it; the owner never changes under a holder, however many opens *)
(* race for a free device.                                                 *)
OneUserAtATime ==
  (kind = "uid" => Uid!OneUserAtATime) /\ (kind = "wuid" => Wuid!OneUserAtATime)

(* sculluid and scullwuid: what a process wrote is changed, while it has   *)
(* the device open, only by processes of the owner or with                 *)
(* CAP_DAC_OVERRIDE.                                                       *)
NoForeignWrite ==
  (kind = "uid" => Uid!NoForeignWrite) /\ (kind = "wuid" => Wuid!NoForeignWrite)

(* scullwuid: no wake-up by a release is lost.  A process asleep on        *)
(* dev->wait while the device is available is about to be woken, unless a  *)
(* failed open freed the device.                                           *)
WaiterWokenByRelease == kind = "wuid" => Wuid!WaiterWokenByRelease

(* scullwuid: when a release freed the device, a sleeper wakes up, unless  *)
(* somebody takes the device again first.                                  *)
WaiterServed == kind = "wuid" => Wuid!WaiterServed

(* scullpriv: two open files share their storage exactly when they were    *)
(* opened from the same terminal, however the first opens of a terminal    *)
(* race, and an open file's storage is on the list.                        *)
OneDevicePerTerminal == kind = "priv" => Priv!OneDevicePerTerminal

(* sleepy, complete and jit: no reader sleeps on after the event it waits  *)
(* for unless somebody is on the way to wake it, or, with a completion,    *)
(* as many readers are on their way as there are completions to use.       *)
NoReaderForgotten ==
  /\ kind = "sleepy" => Sleep!NoReaderForgotten
  /\ kind = "complete" => Comp!NoReaderForgotten
  /\ kind = "jit" => Jits!NoReaderForgotten

(* jit: a timer or tasklet prints only into the frame of a read that has   *)
(* not returned, whatever signals came.                                    *)
HandlerHasFrame == kind = "jit" => Jits!HandlerHasFrame

(* jit: a read of a delay file waits for delay jiffies, also across a wrap *)
(* of the counter; only a signal cuts jitqueue and jitschedto short.       *)
DelayHonoured == kind = "jit" => Jits!DelayHonoured

(* jit: every read returns; sleepy: a reader asleep while the flag is up   *)
(* wakes up.                                                               *)
ReadsReturn == (kind = "jit" => Jits!ReadReturns) /\ (kind = "sleepy" => Sleep!SleeperWakes)
=============================================================================
