------------------------------- MODULE Complete -------------------------------
(***************************************************************************)
(* complete/main.c: a read is wait_for_completion(&comp), a write is       *)
(* complete(&comp).  The kernel's completion (external) counts the         *)
(* complete()s nobody has used and keeps its waiters in order; both calls  *)
(* hold the completion's own lock, so each is one action.                  *)
(***************************************************************************)
EXTENDS Naturals, Sequences, FiniteSets

CONSTANTS
  Procs,
  MaxDone   \* bound on unused completions (UINT_MAX in the kernel)

VARIABLES
  done,     \* completions nobody has used
  waiters,  \* processes asleep, first come first
  pc        \* per process: "out", "asleep" or "woken"

vars == <<done, waiters, pc>>

Init ==
  /\ done = 0
  /\ waiters = <<>>
  /\ pc = [p \in Procs |-> "out"]

(* Use a completion, or get on the queue and sleep. *)
wait_for_completion(p) ==
  \/ /\ done > 0
     /\ done' = done - 1
     /\ pc' = [pc EXCEPT ![p] = "out"]
     /\ UNCHANGED waiters
  \/ /\ done = 0
     /\ waiters' = Append(waiters, p)
     /\ pc' = [pc EXCEPT ![p] = "asleep"]
     /\ UNCHANGED done

(* A call of read, and a woken reader that tests again: somebody else may  *)
(* have used the completion that woke it.                                  *)
complete_read(p) == pc[p] = "out" /\ wait_for_completion(p)
woken_read(p)    == pc[p] = "woken" /\ wait_for_completion(p)

(* complete(), by any process that is not in a read: one more, and wake    *)
(* the first waiter.                                                       *)
complete_write ==
  /\ done < MaxDone
  /\ done' = done + 1
  /\ IF waiters = <<>> THEN UNCHANGED <<waiters, pc>>
     ELSE /\ waiters' = Tail(waiters)
          /\ pc' = [pc EXCEPT ![Head(waiters)] = "woken"]

Next == complete_write \/ \E p \in Procs : complete_read(p) \/ woken_read(p)

Spec == Init /\ [][Next]_vars
-----------------------------------------------------------------------------
(* While somebody sleeps every unused completion has a reader on its way   *)
(* to use it, also when late readers take completions from woken ones.     *)
NoReaderForgotten ==
  waiters # <<>> => done <= Cardinality({p \in Procs : pc[p] = "woken"})
=============================================================================
