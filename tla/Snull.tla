-------------------------------- MODULE Snull --------------------------------
(***************************************************************************)
(* The pair of network interfaces of network_device/snull_device.c.  What  *)
(* one transmits, the other receives; there is no hardware, so the         *)
(* transmitting thread itself runs the interrupt handlers of both.         *)
(*                                                                         *)
(* Per device there is a transmit thread (ndo_start_xmit, or the watchdog's *)
(* ndo_tx_timeout: the kernel's transmit lock keeps them apart) and, with  *)
(* NAPI, a poll thread.  A spin_lock section is one action; priv->status   *)
(* is changed outside the lock, by a load and a store.  A packet buffer is *)
(* counted, not named: every buffer on the receive list of d comes from    *)
(* the pool of Peer(d), and both lists are stacks.                         *)
(***************************************************************************)
EXTENDS Integers, FiniteSets

CONSTANTS
  Devs,   \* snull_devs: two devices
  Confs   \* how the module may be loaded and used: a set of records

(* use_napi, lockup (drop each lockup-th transmit interrupt) and pool_size *)
(* (packet buffers of a device) are the module's variables; weight is the  *)
(* budget the kernel hands to snull_poll; senders are the devices that are *)
(* given packets to send, closable the ones that are taken down;           *)
(* kmalloc_fails says whether an allocation of a packet buffer may fail,   *)
(* and max_buffers bounds the buffers of one device alive at a time.       *)
ASSUME SnullAssumption ==
  /\ IsFiniteSet(Devs) /\ Cardinality(Devs) = 2
  /\ \A c \in Confs :
       /\ c.use_napi \in BOOLEAN /\ c.kmalloc_fails \in BOOLEAN
       /\ c.lockup \in Nat /\ c.pool_size \in Nat \ {0} /\ c.weight \in Nat \ {0}
       /\ c.max_buffers \in Nat /\ c.max_buffers >= c.pool_size
       /\ c.senders \subseteq Devs /\ c.closable \subseteq Devs

VARIABLES
  conf,            \* the configuration, fixed when the module is loaded
  up,              \* the interface is up
  stopped,         \* its transmit queue is stopped
  pool,            \* length of ppool
  rx_queue,        \* length of rx_queue
  rx_int_enabled,
  status,          \* subset of {"RX", "TX"}
  skb,             \* the packet being sent: none (NULL), live, freed, twice
  locked,          \* priv->lock was left locked
  tx_packets,      \* stats.tx_packets modulo lockup
  napi,            \* off, idle or sched (the SCHED bit is ours to poll)
  disabling,       \* napi_disable waits for the poll to end
  missed,          \* the MISSED bit of the napi state
  pc,              \* per thread <<d, kind>>
  phase,           \* of a transmit thread: rx, tx (half of snull_hw_tx) or to
  seen,            \* of a transmit thread: the status word it has loaded
  slot,            \* per thread: place in the pool of the buffer it released
  npackets,        \* of snull_poll
  allocated,       \* history: buffers of a device that kfree has not seen
  deaf             \* history: napi refused a schedule with interrupts off

devVars  == <<up, stopped, rx_queue, rx_int_enabled, status, skb, locked, tx_packets>>
napiVars == <<napi, disabling, missed, npackets, deaf>>
bufVars  == <<pool, slot, allocated>>
thrVars  == <<pc, phase, seen>>
vars     == <<conf, devVars, napiVars, bufVars, thrVars>>

use_napi   == conf.use_napi
lockup     == conf.lockup
pool_size  == conf.pool_size
MaxBuffers == conf.max_buffers

Threads == Devs \X {"tx", "poll"}
Tx(d)   == <<d, "tx">>
Poll(d) == <<d, "poll">>
Peer(d) == CHOOSE e \in Devs : e # d
Gone    == -1

(* The device whose interrupt a transmit thread raises. *)
Target(d) == IF phase[d] = "rx" THEN Peer(d) ELSE d

(* The device whose buffer a thread is giving back. *)
PoolOf(t) == Peer(IF t[2] = "poll" THEN t[1] ELSE Target(t[1]))

Goto(t, l) == pc' = [pc EXCEPT ![t] = l]

(* snull_setup_pool: the lengths a new pool may have; it is shorter when   *)
(* kmalloc fails.                                                          *)
snull_setup_pool(others) ==
  {n \in 0 .. pool_size : others + n <= MaxBuffers /\ (conf.kmalloc_fails \/ n = pool_size)}

(* An interface as snull_init sets it up, but for its pool. *)
Fresh ==
  /\ conf \in Confs
  /\ up = [d \in Devs |-> FALSE]
  /\ stopped = [d \in Devs |-> FALSE]
  /\ rx_queue = [d \in Devs |-> 0]
  /\ rx_int_enabled = [d \in Devs |-> TRUE]
  /\ status = [d \in Devs |-> {}]
  /\ skb = [d \in Devs |-> "none"]
  /\ locked = [d \in Devs |-> FALSE]
  /\ tx_packets = [d \in Devs |-> 0]
  /\ napi = [d \in Devs |-> "off"]
  /\ disabling = [d \in Devs |-> FALSE]
  /\ missed = [d \in Devs |-> FALSE]
  /\ pc = [t \in Threads |-> "idle"]
  /\ phase = [d \in Devs |-> "rx"]
  /\ seen = [d \in Devs |-> {}]
  /\ slot = [t \in Threads |-> 0]
  /\ npackets = [d \in Devs |-> 0]
  /\ deaf = [d \in Devs |-> FALSE]

(* After snull_add_device: both interfaces are there, with their pools. *)
Init ==
  /\ Fresh
  /\ pool \in [Devs -> snull_setup_pool(0)]
  /\ allocated = pool
-----------------------------------------------------------------------------
(* Going up and down. *)

(* __snull_open: the pool and the interrupt flag keep what they were. *)
snull_open(d) ==
  /\ ~up[d] /\ ~disabling[d]
  /\ up' = [up EXCEPT ![d] = TRUE]
  /\ napi' = [napi EXCEPT ![d] = IF use_napi THEN "idle" ELSE "off"]
  /\ stopped' = [stopped EXCEPT ![d] = FALSE]
  /\ UNCHANGED <<conf, rx_queue, rx_int_enabled, status, skb, locked, tx_packets,
                 disabling, missed, npackets, deaf, bufVars, thrVars>>

(* __snull_release up to the wait in napi_disable; the kernel has waited   *)
(* for the transmit thread before.                                         *)
dev_close(d) ==
  /\ up[d] /\ pc[Tx(d)] = "idle"
  /\ up' = [up EXCEPT ![d] = FALSE]
  /\ stopped' = [stopped EXCEPT ![d] = TRUE]
  /\ disabling' = [disabling EXCEPT ![d] = use_napi]
  /\ UNCHANGED <<conf, rx_queue, rx_int_enabled, status, skb, locked, tx_packets,
                 napi, missed, npackets, deaf, bufVars, thrVars>>

(* A user takes the interface down. *)
snull_release(d) == d \in conf.closable /\ dev_close(d)

(* The rest of napi_disable: it takes the SCHED bit once it is free. *)
napi_disabled(d) ==
  /\ disabling[d] /\ napi[d] = "idle"
  /\ napi' = [napi EXCEPT ![d] = "off"]
  /\ disabling' = [disabling EXCEPT ![d] = FALSE]
  /\ UNCHANGED <<conf, devVars, missed, npackets, deaf, bufVars, thrVars>>
-----------------------------------------------------------------------------
(* Transmission. *)

(* __snull_tx: the skb is remembered for the interrupt. *)
snull_tx(d) ==
  /\ up[d] /\ ~stopped[d] /\ pc[Tx(d)] = "idle" /\ d \in conf.senders
  /\ skb' = [skb EXCEPT ![d] = "live"]
  /\ Goto(Tx(d), "get")
  /\ UNCHANGED <<conf, up, stopped, rx_queue, rx_int_enabled, status, locked, tx_packets,
                 napiVars, bufVars, phase, seen>>

(* Buffers above n leave the pool of d: a released one read later is gone. *)
PoolShrinksTo(d, n) ==
  /\ pool' = [pool EXCEPT ![d] = n]
  /\ slot' = [t \in Threads |-> IF PoolOf(t) = d /\ slot[t] > n THEN Gone ELSE slot[t]]

(* snull_get_tx_buffer; on an empty pool it returns with the lock held, and *)
(* the transmission ends there.                                            *)
snull_get_tx_buffer(d) ==
  /\ pc[Tx(d)] = "get" /\ ~locked[d]
  /\ \/ /\ pool[d] = 0
        /\ locked' = [locked EXCEPT ![d] = TRUE]
        /\ Goto(Tx(d), "idle")
        /\ UNCHANGED <<stopped, pool, slot>>
     \/ /\ pool[d] > 0
        /\ PoolShrinksTo(d, pool[d] - 1)
        /\ stopped' = [stopped EXCEPT ![d] = @ \/ pool[d] = 1]
        /\ Goto(Tx(d), "enqueue")
        /\ UNCHANGED locked
  /\ UNCHANGED <<conf, up, rx_queue, rx_int_enabled, status, skb, tx_packets,
                 napiVars, allocated, phase, seen>>

(* The copy into the buffer, then snull_enqueue_buf. *)
snull_enqueue_buf(d) ==
  /\ pc[Tx(d)] = "enqueue" /\ ~locked[Peer(d)]
  /\ rx_queue' = [rx_queue EXCEPT ![Peer(d)] = @ + 1]
  /\ Goto(Tx(d), "check")
  /\ UNCHANGED <<conf, up, stopped, rx_int_enabled, status, skb, locked, tx_packets,
                 napiVars, bufVars, phase, seen>>

(* snull_hw_tx: no receive interrupt while the peer polls. *)
hw_tx_check(d) ==
  /\ pc[Tx(d)] = "check"
  /\ phase' = [phase EXCEPT ![d] = IF rx_int_enabled[Peer(d)] THEN "rx" ELSE "tx"]
  /\ Goto(Tx(d), "load")
  /\ UNCHANGED <<conf, devVars, napiVars, bufVars, seen>>

(* status |= bit, the load ... *)
status_load(d) ==
  /\ pc[Tx(d)] = "load"
  /\ seen' = [seen EXCEPT ![d] = status[Target(d)]]
  /\ Goto(Tx(d), "store")
  /\ UNCHANGED <<conf, devVars, napiVars, bufVars, phase>>

(* ... and the store. *)
status_store(d) ==
  /\ pc[Tx(d)] = "store"
  /\ status' = [status EXCEPT ![Target(d)] =
                  seen[d] \cup {IF phase[d] = "rx" THEN "RX" ELSE "TX"}]
  /\ seen' = [seen EXCEPT ![d] = {}]
  /\ Goto(Tx(d), IF phase[d] = "tx" THEN "lockup" ELSE "interrupt")
  /\ UNCHANGED <<conf, up, stopped, rx_queue, rx_int_enabled, skb, locked, tx_packets,
                 napiVars, bufVars, phase>>

(* snull_hw_tx: the simulated loss of a transmit interrupt. *)
hw_tx_lockup(d) ==
  LET lost == lockup # 0 /\ (tx_packets[d] + 1) % lockup = 0 IN
  /\ pc[Tx(d)] = "lockup"
  /\ stopped' = [stopped EXCEPT ![d] = @ \/ lost]
  /\ Goto(Tx(d), IF lost THEN "idle" ELSE "interrupt")
  /\ phase' = [phase EXCEPT ![d] = IF lost THEN "rx" ELSE @]
  /\ UNCHANGED <<conf, up, rx_queue, rx_int_enabled, status, skb, locked, tx_packets,
                 napiVars, bufVars, seen>>
-----------------------------------------------------------------------------
(* Interrupts; they run in the transmit thread. *)

(* Where a transmit thread goes on after an interrupt. *)
AfterInterrupt(d) ==
  /\ Goto(Tx(d), CASE phase[d] = "rx" -> "load"
                   [] phase[d] = "tx" -> "idle"
                   [] phase[d] = "to" -> "reset")
  /\ phase' = [phase EXCEPT ![d] = CASE @ = "rx" -> "tx" [] @ = "tx" -> "rx" [] @ = "to" -> "to"]

(* The transmit half of both handlers: count, and free the skb. *)
TransmitDone(x, freed) ==
  /\ tx_packets' = [tx_packets EXCEPT ![x] =
       IF "TX" \in status[x] /\ lockup # 0 THEN (@ + 1) % lockup ELSE @]
  /\ skb' = [skb EXCEPT ![x] = IF "TX" \in status[x] /\ @ # "none" THEN freed ELSE @]

(* napi_schedule: refused while napi_disable waits; otherwise a SCHED bit  *)
(* that somebody has already leaves a MISSED bit.                          *)
napi_schedule(x) ==
  /\ napi' = [napi EXCEPT ![x] = IF @ = "idle" /\ ~disabling[x] THEN "sched" ELSE @]
  /\ missed' = [missed EXCEPT ![x] = @ \/ (napi[x] # "idle" /\ ~disabling[x])]
  /\ deaf' = [deaf EXCEPT ![x] = @ \/ disabling[x] \/ napi[x] = "off"]

snull_napi_interrupt(d) ==
  LET x == Target(d) IN
  /\ use_napi
  /\ pc[Tx(d)] = "interrupt" /\ ~locked[x]
  /\ status' = [status EXCEPT ![x] = {}]
  /\ IF "RX" \in status[x]
     THEN rx_int_enabled' = [rx_int_enabled EXCEPT ![x] = FALSE] /\ napi_schedule(x)
     ELSE UNCHANGED <<rx_int_enabled, napi, missed, deaf>>
  /\ TransmitDone(x, "none")
  /\ AfterInterrupt(d)
  /\ UNCHANGED <<conf, up, stopped, rx_queue, locked, disabling, npackets, bufVars, seen>>

(* snull_dequeue_buf, called or not, on a list with a packet. *)
snull_dequeue_buf(x, called) ==
  rx_queue' = [rx_queue EXCEPT ![x] = IF called THEN @ - 1 ELSE @]

(* The pointer to the skb is kept after the free. *)
snull_regular_interrupt(d) ==
  LET x   == Target(d)
      pkt == "RX" \in status[x] /\ rx_queue[x] > 0 IN
  /\ ~use_napi
  /\ pc[Tx(d)] = "interrupt" /\ ~locked[x]
  /\ status' = [status EXCEPT ![x] = {}]
  /\ snull_dequeue_buf(x, pkt)
  /\ TransmitDone(x, IF skb[x] = "live" THEN "freed" ELSE "twice")
  /\ IF pkt THEN Goto(Tx(d), "push") /\ UNCHANGED phase ELSE AfterInterrupt(d)
  /\ UNCHANGED <<conf, up, stopped, rx_int_enabled, locked, napiVars, bufVars, seen>>
-----------------------------------------------------------------------------
(* snull_release_buffer, by either kind of thread: the push ... *)
release_push(t) ==
  LET d == PoolOf(t) IN
  /\ pc[t] = "push" /\ ~locked[d]
  /\ pool' = [pool EXCEPT ![d] = @ + 1]
  /\ slot' = [slot EXCEPT ![t] = pool[d] + 1]
  /\ Goto(t, "test")
  /\ UNCHANGED <<conf, devVars, napiVars, allocated, phase, seen>>

Resume(t) == IF t[2] = "poll" THEN Goto(t, "loop") /\ UNCHANGED phase ELSE AfterInterrupt(t[1])

(* Mutant: the pool, as it is after the unlock, is asked for its length. *)
release_test_pool(t) ==
  /\ pc[t] = "test"
  /\ slot' = [slot EXCEPT ![t] = 0]
  /\ IF stopped[PoolOf(t)] /\ pool[PoolOf(t)] = 1
     THEN Goto(t, "wake") /\ UNCHANGED phase
     ELSE Resume(t)
  /\ UNCHANGED <<conf, devVars, napiVars, pool, allocated, seen>>

(* ... the test, after the unlock: pkt->next is NULL in the lowest place   *)
(* of the pool, and may be anything once the buffer has left it ...        *)
release_test(t) ==
  /\ pc[t] = "test"
  /\ slot' = [slot EXCEPT ![t] = 0]
  /\ \/ /\ stopped[PoolOf(t)] /\ slot[t] \in {1, Gone}
        /\ Goto(t, "wake") /\ UNCHANGED phase
     \/ /\ ~stopped[PoolOf(t)] \/ slot[t] # 1
        /\ Resume(t)
  /\ UNCHANGED <<conf, devVars, napiVars, pool, allocated, seen>>

(* ... and netif_wake_queue. *)
release_wake(t) ==
  /\ pc[t] = "wake"
  /\ stopped' = [stopped EXCEPT ![PoolOf(t)] = FALSE]
  /\ Resume(t)
  /\ UNCHANGED <<conf, up, rx_queue, rx_int_enabled, status, skb, locked, tx_packets,
                 napiVars, bufVars, seen>>
-----------------------------------------------------------------------------
(* NAPI. *)

(* The kernel calls snull_poll of a scheduled device. *)
napi_poll(d) ==
  /\ napi[d] = "sched" /\ pc[Poll(d)] = "idle"
  /\ Goto(Poll(d), "loop")
  /\ UNCHANGED <<conf, devVars, napiVars, bufVars, phase, seen>>

(* Mutant: a packet dropped for want of an skb is not given back. *)
poll_drop_leaks(d) ==
  LET more == npackets[d] < conf.weight /\ rx_queue[d] > 0 IN
  /\ pc[Poll(d)] = "loop" /\ (more => ~locked[d])
  /\ snull_dequeue_buf(d, more)
  /\ npackets' = [npackets EXCEPT ![d] = IF more THEN @ + 1 ELSE @]
  /\ \E l \in IF more THEN {"push", "loop"} ELSE {"done"} : Goto(Poll(d), l)
  /\ UNCHANGED <<conf, up, stopped, rx_int_enabled, status, skb, locked, tx_packets,
                 napi, disabling, missed, deaf, bufVars, phase, seen>>

(* One turn of the loop: whether or not an skb can be had, the buffer goes *)
(* back; or the loop ends.                                                 *)
snull_poll(d) ==
  LET more == npackets[d] < conf.weight /\ rx_queue[d] > 0 IN
  /\ pc[Poll(d)] = "loop" /\ (more => ~locked[d])
  /\ snull_dequeue_buf(d, more)
  /\ npackets' = [npackets EXCEPT ![d] = IF more THEN @ + 1 ELSE @]
  /\ Goto(Poll(d), IF more THEN "push" ELSE "done")
  /\ UNCHANGED <<conf, up, stopped, rx_int_enabled, status, skb, locked, tx_packets,
                 napi, disabling, missed, deaf, bufVars, phase, seen>>

(* Mutant: interrupts come back on only if the list is empty. *)
complete_if_empty(d) ==
  /\ pc[Poll(d)] = "done" /\ npackets[d] < conf.weight /\ ~locked[d]
  /\ missed' = [missed EXCEPT ![d] = FALSE]
  /\ napi' = [napi EXCEPT ![d] = IF missed[d] THEN "sched" ELSE "idle"]
  /\ rx_int_enabled' = [rx_int_enabled EXCEPT ![d] = @ \/ (~missed[d] /\ rx_queue[d] = 0)]
  /\ npackets' = [npackets EXCEPT ![d] = 0]
  /\ Goto(Poll(d), "idle")
  /\ UNCHANGED <<conf, up, stopped, rx_queue, status, skb, locked, tx_packets,
                 disabling, deaf, bufVars, phase, seen>>

(* The end of snull_poll: completion, unless a schedule was missed, turns  *)
(* the receive interrupts back on.                                         *)
poll_complete(d) ==
  /\ pc[Poll(d)] = "done" /\ npackets[d] < conf.weight /\ ~locked[d]
  /\ missed' = [missed EXCEPT ![d] = FALSE]
  /\ napi' = [napi EXCEPT ![d] = IF missed[d] THEN "sched" ELSE "idle"]
  /\ rx_int_enabled' = [rx_int_enabled EXCEPT ![d] = @ \/ ~missed[d]]
  /\ npackets' = [npackets EXCEPT ![d] = 0]
  /\ Goto(Poll(d), "idle")
  /\ UNCHANGED <<conf, up, stopped, rx_queue, status, skb, locked, tx_packets,
                 disabling, deaf, bufVars, phase, seen>>

(* The budget is used up: the kernel polls again, or, when the device goes *)
(* down, completes on its own.                                             *)
poll_exhausted(d) ==
  /\ pc[Poll(d)] = "done" /\ npackets[d] >= conf.weight
  /\ missed' = [missed EXCEPT ![d] = @ /\ ~disabling[d]]
  /\ napi' = [napi EXCEPT ![d] = IF disabling[d] /\ ~missed[d] THEN "idle" ELSE "sched"]
  /\ deaf' = [deaf EXCEPT ![d] = @ \/ (disabling[d] /\ ~missed[d])]
  /\ npackets' = [npackets EXCEPT ![d] = 0]
  /\ Goto(Poll(d), "idle")
  /\ UNCHANGED <<conf, devVars, disabling, bufVars, phase, seen>>
-----------------------------------------------------------------------------
(* __snull_tx_timeout, called for a queue that has been stopped too long:  *)
(* it raises a transmit interrupt (status_load ... with phase "to") ...    *)
snull_tx_timeout(d) ==
  /\ up[d] /\ stopped[d] /\ pc[Tx(d)] = "idle"
  /\ snull_setup_pool(allocated[d] - pool[d]) # {}  \* MaxBuffers is not exceeded
  /\ phase' = [phase EXCEPT ![d] = "to"]
  /\ Goto(Tx(d), "load")
  /\ UNCHANGED <<conf, devVars, napiVars, bufVars, seen>>

(* ... resets the pool: snull_teardown_pool frees what is in it, not what  *)
(* the peer has yet to receive ...                                         *)
timeout_reset(d) ==
  LET others == allocated[d] - pool[d] IN
  /\ pc[Tx(d)] = "reset" /\ ~locked[d]
  /\ \E n \in snull_setup_pool(others) :
       /\ pool' = [pool EXCEPT ![d] = n]
       /\ allocated' = [allocated EXCEPT ![d] = others + n]
  /\ slot' = [t \in Threads |-> IF PoolOf(t) = d /\ slot[t] > 0 THEN Gone ELSE slot[t]]
  /\ Goto(Tx(d), "restart")
  /\ UNCHANGED <<conf, devVars, napiVars, phase, seen>>

(* Mutant: the queue stays stopped. *)
timeout_no_wake(d) ==
  /\ pc[Tx(d)] = "restart"
  /\ phase' = [phase EXCEPT ![d] = "rx"]
  /\ Goto(Tx(d), "idle")
  /\ UNCHANGED <<conf, devVars, napiVars, bufVars, seen>>

(* ... and restarts the queue. *)
timeout_wake(d) ==
  /\ pc[Tx(d)] = "restart"
  /\ stopped' = [stopped EXCEPT ![d] = FALSE]
  /\ phase' = [phase EXCEPT ![d] = "rx"]
  /\ Goto(Tx(d), "idle")
  /\ UNCHANGED <<conf, up, rx_queue, rx_int_enabled, status, skb, locked, tx_packets,
                 napiVars, bufVars, seen>>
-----------------------------------------------------------------------------
TxStep(d) ==
  \/ snull_get_tx_buffer(d) \/ snull_enqueue_buf(d) \/ hw_tx_check(d)
  \/ status_load(d) \/ status_store(d) \/ hw_tx_lockup(d)
  \/ snull_napi_interrupt(d) \/ snull_regular_interrupt(d)
  \/ timeout_reset(d) \/ timeout_wake(d)

PollStep(d) == napi_poll(d) \/ snull_poll(d) \/ poll_complete(d) \/ poll_exhausted(d)

ReleaseStep(t) == release_push(t) \/ release_test(t) \/ release_wake(t)

Next ==
  \/ \E d \in Devs :
       \/ snull_open(d) \/ snull_release(d) \/ napi_disabled(d)
       \/ snull_tx(d) \/ snull_tx_timeout(d)
       \/ TxStep(d) \/ PollStep(d)
  \/ \E t \in Threads : ReleaseStep(t)

Spec == Init /\ [][Next]_vars

(* A thread that is running goes on, softirqs are served, and the watchdog *)
(* timer fires.  Nothing makes anyone open, close or send.                 *)
Fairness ==
  \A d \in Devs :
    /\ WF_vars(TxStep(d) \/ ReleaseStep(Tx(d)))
    /\ WF_vars(PollStep(d) \/ ReleaseStep(Poll(d)))
    /\ WF_vars(snull_tx_timeout(d))

FairSpec == Spec /\ Fairness
-----------------------------------------------------------------------------
(* Properties. *)

(* Each variable has its type, and no status word is left half updated. *)
TypeOK ==
  /\ conf \in Confs
  /\ up \in [Devs -> BOOLEAN] /\ stopped \in [Devs -> BOOLEAN]
  /\ pool \in [Devs -> 0 .. MaxBuffers] /\ rx_queue \in [Devs -> 0 .. MaxBuffers]
  /\ rx_int_enabled \in [Devs -> BOOLEAN]
  /\ status \in [Devs -> SUBSET {"RX", "TX"}] /\ seen \in [Devs -> SUBSET {"RX", "TX"}]
  /\ skb \in [Devs -> {"none", "live", "freed", "twice"}]
  /\ locked \in [Devs -> BOOLEAN] /\ tx_packets \in [Devs -> Nat]
  /\ napi \in [Devs -> {"off", "idle", "sched"}]
  /\ disabling \in [Devs -> BOOLEAN] /\ missed \in [Devs -> BOOLEAN]
  /\ pc \in [Threads -> {"idle", "get", "enqueue", "check", "load", "store", "lockup",
                          "interrupt", "reset", "restart", "push", "test", "wake",
                          "loop", "done"}]
  /\ phase \in [Devs -> {"rx", "tx", "to"}] /\ slot \in [Threads -> Gone .. MaxBuffers]
  /\ npackets \in [Devs -> 0 .. conf.weight]
  /\ allocated \in [Devs -> 0 .. MaxBuffers] /\ deaf \in [Devs -> BOOLEAN]

(* Every buffer of d is in its pool, on the receive list of the peer, or   *)
(* in the hands of exactly one thread (snull_get_tx_buffer to              *)
(* snull_enqueue_buf, the dequeue to snull_release_buffer), across resets  *)
(* of the pool by snull_tx_timeout.                                        *)
Held(d) == {t \in Threads : (t = Tx(d) /\ pc[t] = "enqueue")
                              \/ (pc[t] = "push" /\ PoolOf(t) = d)}
BuffersAccounted ==
  \A d \in Devs : allocated[d] = pool[d] + rx_queue[Peer(d)] + Cardinality(Held(d))

(* A queue that snull_get_tx_buffer stopped does not stay stopped with     *)
(* buffers in the pool: the snull_release_buffer that put back the first   *)
(* one, or the watchdog, is about to wake it, though it tests the queue    *)
(* and pkt->next after the unlock.                                         *)
StoppedQueueHasWaker ==
  \A d \in Devs : lockup = 0 /\ up[d] /\ stopped[d] /\ pool[d] > 0 =>
    \/ pc[Tx(d)] # "idle" /\ phase[d] = "to"
    \/ \E t \in Threads :
         /\ PoolOf(t) = d
         /\ pc[t] = "wake" \/ (pc[t] = "test" /\ slot[t] = 1)

(* Receive interrupts that snull_napi_interrupt turned off are turned on   *)
(* again: with them off a poll is due, unless napi refused the schedule    *)
(* because the device was down or going down.                              *)
InterruptsComeBack ==
  \A d \in Devs : ~rx_int_enabled[d] /\ ~deaf[d] => napi[d] = "sched"

(* Whatever interrupt is lost, a stopped queue is started again, by a      *)
(* release or by snull_tx_timeout, unless the device goes down or a lock   *)
(* was never given back.                                                   *)
StoppedQueueRestarts ==
  \A d \in Devs : (up[d] /\ stopped[d]) ~>
                    (~stopped[d] \/ ~up[d] \/ \E e \in Devs : locked[e])

(* "Our simple device can not fail": a transmission always finds a buffer, *)
(* and snull_get_tx_buffer gives the lock back.                            *)
LockGivenBack == \A d \in Devs : ~locked[d]

(* "If we processed all packets, we're done": when the poll of d is over   *)
(* and its interrupts are on, no packet is left that nobody will announce. *)
NoPacketLeft ==
  \A d \in Devs :
    up[d] /\ napi[d] = "idle" /\ rx_int_enabled[d] /\ pc[Tx(Peer(d))] = "idle"
      => rx_queue[d] = 0

(* "tell the kernel and reenable ints": a device that is up and not being  *)
(* polled takes receive interrupts.                                        *)
ReceivesWhenUp ==
  \A d \in Devs : up[d] /\ napi[d] = "idle" => rx_int_enabled[d]

(* "a transmission is over: free the skb": the skb is not freed while      *)
(* snull_hw_tx has still to copy it.                                       *)
SkbHeldWhileSending ==
  \A d \in Devs : pc[Tx(d)] \in {"get", "enqueue"} => skb[d] = "live"

(* "a transmission is over: free the skb": and it is freed once. *)
FreedOnce == \A d \in Devs : skb[d] # "twice"
=============================================================================
