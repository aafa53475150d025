------------------------------ MODULE SnullLoad ------------------------------
(***************************************************************************)
(* The life of the network module: snull_add_device allocates both         *)
(* interfaces and registers one after the other, and snull_remove_device   *)
(* unregisters, empties and frees the first before it unregisters the      *)
(* second.  Whatever is registered carries the traffic of Snull meanwhile. *)
(*                                                                         *)
(* A thread whose next step would touch a freed interface takes no step:   *)
(* what such an access does is not modelled, that it is reached is.        *)
(***************************************************************************)
EXTENDS Snull

VARIABLES
  first,       \* snull_devs[0]
  present,     \* the interfaces whose entry of snull_devs is not NULL
  registered,  \* register_netdev has succeeded, unregister_netdev not begun
  freed,       \* given to free_netdev
  lpc,         \* where snull_add_device or snull_remove_device is
  cur          \* the interface its loop has reached

lvars   == <<first, present, registered, freed, lpc, cur>>
allvars == <<vars, lvars>>

second == Peer(first)

(* Before the module is loaded. *)
LoadInit ==
  /\ Fresh
  /\ pool = [d \in Devs |-> 0] /\ allocated = pool
  /\ first \in Devs /\ cur = first
  /\ present = {} /\ registered = {} /\ freed = {}
  /\ lpc = "alloc"
-----------------------------------------------------------------------------
(* snull_add_device. *)

(* The two alloc_netdev, each with its snull_init; nothing runs meanwhile. *)
alloc_netdev ==
  /\ lpc = "alloc"
  /\ present' \in SUBSET Devs /\ (conf.kmalloc_fails \/ present' = Devs)
  /\ pool' \in [Devs -> snull_setup_pool(0) \cup {0}]
  /\ \A d \in Devs : IF d \in present' THEN pool'[d] \in snull_setup_pool(0) ELSE pool'[d] = 0
  /\ allocated' = pool'
  /\ lpc' = IF present' = Devs THEN "register" ELSE "unregister"
  /\ UNCHANGED <<conf, devVars, napiVars, slot, thrVars, first, registered, freed, cur>>

(* register_netdev succeeds or fails; the module stays loaded when one     *)
(* interface could be registered.                                          *)
register_netdev ==
  /\ lpc = "register"
  /\ \/ registered' = registered \cup {cur}
     \/ conf.kmalloc_fails /\ registered' = registered
  /\ IF cur = first THEN lpc' = "register" /\ cur' = second
     ELSE IF registered' = {} THEN lpc' = "unregister" /\ cur' = first
     ELSE lpc' = "live" /\ UNCHANGED cur
  /\ UNCHANGED <<vars, first, present, freed>>

rmmod ==
  /\ lpc = "live"
  /\ lpc' = "unregister" /\ cur' = first
  /\ UNCHANGED <<vars, first, present, registered, freed>>
-----------------------------------------------------------------------------
(* snull_remove_device, the body of its loop for snull_devs[i] = cur. *)

(* To the next turn of the loop. *)
NextTurn ==
  IF cur = first THEN lpc' = "unregister" /\ cur' = second
                 ELSE lpc' = "out" /\ UNCHANGED cur

absent ==
  /\ lpc = "unregister" /\ cur \notin present
  /\ NextTurn
  /\ UNCHANGED <<vars, first, present, registered, freed>>

(* unregister_netdev of an interface that is down; the kernel warns of one *)
(* that never was registered, and does nothing.                            *)
unregister_down ==
  /\ lpc = "unregister" /\ cur \in present
  /\ ~up[cur] /\ ~disabling[cur]
  /\ registered' = registered \ {cur}
  /\ lpc' = "teardown"
  /\ UNCHANGED <<vars, first, present, freed, cur>>

(* Of one that is up: it is taken down ... *)
unregister_up ==
  /\ lpc = "unregister" /\ cur \in present
  /\ dev_close(cur)
  /\ registered' = registered \ {cur}
  /\ lpc' = "closing"
  /\ UNCHANGED <<first, present, freed, cur>>

(* Mutant: nobody waits for the poll in progress. *)
unregister_no_wait ==
  /\ lpc = "closing"
  /\ lpc' = "teardown"
  /\ UNCHANGED <<vars, first, present, registered, freed, cur>>

(* ... and unregister_netdev waits for the end of napi_disable. *)
unregister_end ==
  /\ lpc = "closing" /\ ~disabling[cur]
  /\ lpc' = "teardown"
  /\ UNCHANGED <<vars, first, present, registered, freed, cur>>

(* Mutant: the pool is left to itself. *)
teardown_nothing ==
  /\ lpc = "teardown"
  /\ lpc' = "free"
  /\ UNCHANGED <<vars, first, present, registered, freed, cur>>

(* snull_teardown_pool frees what is in ppool, and only that.  It takes no *)
(* lock; here it is one step all the same.                                 *)
snull_teardown_pool ==
  /\ lpc = "teardown"
  /\ pool' = [pool EXCEPT ![cur] = 0]
  /\ allocated' = [allocated EXCEPT ![cur] = @ - pool[cur]]
  /\ slot' = [t \in Threads |-> IF PoolOf(t) = cur /\ slot[t] > 0 THEN Gone ELSE slot[t]]
  /\ lpc' = "free"
  /\ UNCHANGED <<conf, devVars, napiVars, thrVars, first, present, registered, freed, cur>>

free_netdev ==
  /\ lpc = "free"
  /\ freed' = freed \cup {cur}
  /\ NextTurn
  /\ UNCHANGED <<vars, first, present, registered>>
-----------------------------------------------------------------------------
(* Traffic. *)

(* The interface whose private data the next step of thread t uses. *)
Touched(t) ==
  IF t[2] = "poll"
  THEN IF pc[t] \in {"push", "test", "wake"} THEN PoolOf(t) ELSE t[1]
  ELSE CASE pc[t] \in {"enqueue", "check"}            -> Peer(t[1])
         [] pc[t] \in {"load", "store", "interrupt"}  -> Target(t[1])
         [] pc[t] \in {"push", "test", "wake"}        -> PoolOf(t)
         [] OTHER                                     -> t[1]

Traffic ==
  /\ \/ \E d \in Devs :
          \/ d \in registered /\ (snull_open(d) \/ snull_release(d))
          \/ napi_disabled(d) \/ snull_tx(d) \/ snull_tx_timeout(d)
          \/ Touched(Tx(d)) \notin freed /\ TxStep(d)
          \/ Touched(Poll(d)) \notin freed /\ PollStep(d)
     \/ \E t \in Threads : Touched(t) \notin freed /\ ReleaseStep(t)
  /\ UNCHANGED lvars

Loading ==
  \/ alloc_netdev \/ register_netdev \/ rmmod
  \/ absent \/ unregister_down \/ unregister_up \/ unregister_end
  \/ snull_teardown_pool \/ free_netdev

LoadNext == Traffic \/ Loading

LoadSpec == LoadInit /\ [][LoadNext]_allvars
-----------------------------------------------------------------------------
(* Properties. *)

(* snull_remove_device frees sn0 while sn1 may still send and receive, and *)
(* both sending and giving back a buffer reach for the other interface.    *)
(* That is the only way to freed memory: a thread that is about to touch   *)
(* it works for the second interface, which is still to be unregistered,   *)
(* and what it touches is the first; no thread of a freed interface runs.  *)
FreedUnused ==
  \A t \in Threads : pc[t] # "idle" /\ Touched(t) \in freed =>
    /\ t[1] = second /\ Touched(t) = first
    /\ cur = second /\ lpc \in {"unregister", "closing"}

(* When the module is out, by rmmod or after a failed load, every          *)
(* interface was freed, nothing is registered and no thread runs; and the  *)
(* packet buffers that leak, since snull_teardown_pool looks at ppool      *)
(* only, are those that waited on the peer's receive list and those that   *)
(* the second interface gave back to the first after its teardown.         *)
UnloadGivesBack ==
  lpc = "out" =>
    /\ freed = present /\ registered = {} /\ \A t \in Threads : pc[t] = "idle"
    /\ \A d \in Devs : allocated[d] = rx_queue[Peer(d)] + (IF d = first THEN pool[d] ELSE 0)

(* "struct net_device *snull_devs[2]": no thread reaches for an interface  *)
(* that was freed.                                                         *)
NoUseOfFreed == \A t \in Threads : pc[t] # "idle" => Touched(t) \notin freed

(* snull_remove_device gives back every packet buffer. *)
NoBufferLeaks == lpc = "out" => \A d \in Devs : allocated[d] = 0
=============================================================================
