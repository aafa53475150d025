------------------------------ MODULE ScullWuid ------------------------------
(***************************************************************************)
(* The blocking per-user device (scull_full/impl/scull_wuid.c): owner and  *)
(* count under a spinlock; a process of another user waits until the count *)
(* drops to zero.                                                          *)
(*                                                                         *)
(* A spinlock section is one action.  The condition of                     *)
(* wait_event_interruptible is evaluated without the lock, by a load of    *)
(* count and then a load of owner.  The storage behind the device          *)
(* (ScullDev) is abstracted to the process that changed it last.           *)
(***************************************************************************)
EXTENDS ScullUsers

VARIABLES
  count, owner,
  wait,    \* processes queued on dev->wait
  pc,      \* per process: where it is
  last,    \* who changed the storage last
  wrote,   \* processes that changed it in their current opening
  missed   \* history: on wait when a failed open brought count to zero

vars == <<count, owner, wait, pc, last, wrote, missed>>

Holders == {p \in Procs : pc[p] \in {"opening", "open"}}
Goto(p, l) == pc' = [pc EXCEPT ![p] = l]
Owns(p)    == owner \in {uid[p], euid[p]} \/ p \in Capable

scull_w_available(p) == count = 0 \/ Owns(p)

(* init_scull_wuid: all zero; uid 0 is some member of Uids. *)
Init ==
  /\ count = 0
  /\ owner \in Uids
  /\ wait = {}
  /\ pc = [p \in Procs |-> "closed"]
  /\ last = Nobody
  /\ wrote = {}
  /\ missed = {}
-----------------------------------------------------------------------------
(* Available: grab the device. *)
scull_wuid_open(p) ==
  /\ pc[p] \in {"closed", "lock"} /\ scull_w_available(p)
  /\ owner' = IF count = 0 THEN uid[p] ELSE owner
  /\ count' = count + 1
  /\ Goto(p, "opening")
  /\ UNCHANGED <<wait, last, wrote, missed>>

(* Not available: -EAGAIN or wait. *)
scull_wuid_open_wait(p) ==
  /\ pc[p] \in {"closed", "lock"} /\ ~scull_w_available(p)
  /\ \E nonblock \in BOOLEAN : Goto(p, IF nonblock THEN "closed" ELSE "wait")
  /\ UNCHANGED <<count, owner, wait, last, wrote, missed>>

(* wait_event_interruptible: queue; then load count, and owner unless the  *)
(* count was zero; sleep or go on.                                         *)
wuid_wait_prepare(p) ==
  /\ pc[p] = "wait" \/ (pc[p] = "sched" /\ p \notin wait)
  /\ wait' = wait \cup {p}
  /\ Goto(p, "load_count")
  /\ UNCHANGED <<count, owner, last, wrote, missed>>

LeaveWait(p) == wait' = wait \ {p} /\ missed' = missed \ {p}

wuid_wait_count(p) ==
  /\ pc[p] = "load_count"
  /\ \/ count = 0 /\ LeaveWait(p) /\ Goto(p, "lock")
     \/ count # 0 /\ Goto(p, "load_owner") /\ UNCHANGED <<wait, missed>>
  /\ UNCHANGED <<count, owner, last, wrote>>

wuid_wait_owner(p) ==
  /\ pc[p] = "load_owner"
  /\ \/ Owns(p) /\ LeaveWait(p) /\ Goto(p, "lock")
     \/ ~Owns(p) /\ Goto(p, "sched") /\ UNCHANGED <<wait, missed>>
  /\ UNCHANGED <<count, owner, last, wrote>>

(* A signal: dequeued; the condition is tested once more, or -ERESTARTSYS. *)
wuid_wait_signal(p) ==
  /\ pc[p] \in {"wait", "sched"}
  /\ LeaveWait(p)
  /\ Goto(p, IF scull_w_available(p) THEN "lock" ELSE "closed")
  /\ UNCHANGED <<count, owner, last, wrote>>
-----------------------------------------------------------------------------
(* Mutant: a failed opening stays counted. *)
wuid_fail_counted(p, wronly) ==
  /\ pc[p] = "opening"
  /\ \/ /\ Goto(p, "open")
        /\ last' = IF wronly THEN p ELSE last
        /\ wrote' = IF wronly THEN wrote \cup {p} ELSE wrote
     \/ /\ wronly
        /\ Goto(p, "closed")
        /\ UNCHANGED <<last, wrote>>
  /\ UNCHANGED <<count, owner, wait, missed>>

(* scull_dev_open: a write-only opening trims the storage, or fails with   *)
(* -ERESTARTSYS and uncounts itself.                                       *)
scull_wuid_dev_open(p, wronly) ==
  /\ pc[p] = "opening"
  /\ \/ /\ Goto(p, "open")
        /\ last' = IF wronly THEN p ELSE last
        /\ wrote' = IF wronly THEN wrote \cup {p} ELSE wrote
        /\ UNCHANGED <<count, missed>>
     \/ /\ wronly
        /\ count' = count - 1
        /\ missed' = IF count' = 0 THEN wait ELSE missed
        /\ Goto(p, "closed")
        /\ UNCHANGED <<last, wrote>>
  /\ UNCHANGED <<owner, wait>>

scull_wuid_write(p) ==
  /\ pc[p] = "open"
  /\ last' = p
  /\ wrote' = wrote \cup {p}
  /\ UNCHANGED <<count, owner, wait, pc, missed>>

(* Mutant: the last holder does not wake anybody. *)
release_silent(p) ==
  /\ pc[p] = "open"
  /\ count' = count - 1
  /\ wrote' = wrote \ {p}
  /\ Goto(p, "closed")
  /\ UNCHANGED <<owner, wait, last, missed>>

(* Uncount; the last one wakes the waiters after the unlock. *)
scull_wuid_release(p) ==
  /\ pc[p] = "open"
  /\ count' = count - 1
  /\ wrote' = wrote \ {p}
  /\ Goto(p, IF count' = 0 THEN "wake" ELSE "closed")
  /\ UNCHANGED <<owner, wait, last, missed>>

scull_wuid_release_wake(p) ==
  /\ pc[p] = "wake"
  /\ wait' = {}
  /\ missed' = {}
  /\ Goto(p, "closed")
  /\ UNCHANGED <<count, owner, last, wrote>>
-----------------------------------------------------------------------------
(* What a process inside a system call goes on to do by itself. *)
Step(p) ==
  \/ wuid_wait_prepare(p)
  \/ wuid_wait_count(p)
  \/ wuid_wait_owner(p)
  \/ \E wronly \in BOOLEAN : scull_wuid_dev_open(p, wronly)
  \/ scull_wuid_release_wake(p)

Next ==
  \E p \in Procs :
    \/ Step(p)
    \/ scull_wuid_open(p)
    \/ scull_wuid_open_wait(p)
    \/ wuid_wait_signal(p)
    \/ scull_wuid_write(p)
    \/ scull_wuid_release(p)

Spec == Init /\ [][Next]_vars

(* A process that runs inside a system call keeps running.                 *)
FairSpec == Spec /\ \A p \in Procs : WF_vars(Step(p))
-----------------------------------------------------------------------------
(* count is the number of processes that have the device open or are about *)
(* to: it never underflows and the device is never lost to everybody.      *)
CountExact == count = Cardinality(Holders)

(* Every process inside has the owner's uid or may override it: the owner  *)
(* never changes under a holder, however many opens race for a free device. *)
OneUserAtATime == \A p \in Holders : Owns(p)

(* What a process wrote is changed, while it has the device open, only by  *)
(* processes of the owner or with CAP_DAC_OVERRIDE.                        *)
NoForeignWrite == wrote # {} => last \in Procs /\ Owns(last)

WillWake == \E q \in Procs : pc[q] = "wake"

(* No lost wake-up by a release: a process asleep on dev->wait while the   *)
(* device is available is about to be woken, unless a failed open freed    *)
(* the device (see WaiterNotStranded).                                     *)
WaiterWokenByRelease ==
  \A p \in wait \ missed : pc[p] = "sched" => ~scull_w_available(p) \/ WillWake

(* Liveness: when a release freed the device, a sleeper wakes up, unless   *)
(* somebody takes the device again first.                                  *)
WaiterServed ==
  \A p \in Procs :
    pc[p] = "sched" /\ p \notin missed /\ count = 0
      ~> pc[p] # "sched" \/ p \in missed \/ count # 0

(* "awake other uid's": when the count drops to zero the waiters of other  *)
(* users are woken; nobody sleeps on a device that is available.           *)
WaiterNotStranded ==
  \A p \in wait : pc[p] = "sched" => ~scull_w_available(p) \/ WillWake
=============================================================================
