------------------------------ MODULE SnullProofs ------------------------------
(***************************************************************************)
(* Proofs about Snull and about the life of the module in SnullLoad, for   *)
(* every set of configurations: any length of the pools, any budget of the *)
(* polls, NAPI or not.                                                     *)
(***************************************************************************)
EXTENDS SnullLoad, FiniteSetTheorems, TLAPS

-----------------------------------------------------------------------------
(* There are two devices, each the peer of the other.                      *)
LEMMA Peers ==
  \A d \in Devs : /\ Peer(d) \in Devs /\ Peer(d) # d /\ Peer(Peer(d)) = d
                  /\ \A e \in Devs : e # d => e = Peer(d)
<1>1. IsFiniteSet(Devs) /\ Cardinality(Devs) = 2
  BY SnullAssumption
<1> SUFFICES ASSUME NEW d \in Devs
             PROVE  /\ Peer(d) \in Devs /\ Peer(d) # d /\ Peer(Peer(d)) = d
                    /\ \A e \in Devs : e # d => e = Peer(d)
  OBVIOUS
<1>2. IsFiniteSet(Devs \ {d}) /\ Cardinality(Devs \ {d}) = 1
  BY <1>1, FS_RemoveElement
<1>3. PICK x \in Devs \ {d} : TRUE
  BY <1>2, FS_EmptySet
<1>4. IsFiniteSet((Devs \ {d}) \ {x}) /\ Cardinality((Devs \ {d}) \ {x}) = 0
  BY <1>2, <1>3, FS_RemoveElement
<1>5. (Devs \ {d}) \ {x} = {}
  BY <1>4, FS_EmptySet
<1>6. Devs = {d, x} /\ d # x
  BY <1>3, <1>5
<1>7. Peer(d) = x /\ Peer(x) = d
  BY <1>6 DEF Peer
<1> QED BY <1>6, <1>7

(* The threads: one that transmits and one that polls for each device.     *)
LEMMA ThreadNames ==
  /\ \A d \in Devs : /\ Tx(d) \in Threads /\ Poll(d) \in Threads
                     /\ Tx(d)[1] = d /\ Tx(d)[2] = "tx"
                     /\ Poll(d)[1] = d /\ Poll(d)[2] = "poll"
  /\ \A d, e \in Devs : /\ Tx(d) # Poll(e) /\ (Tx(d) = Tx(e) => d = e)
                        /\ (Poll(d) = Poll(e) => d = e)
  /\ \A t \in Threads : /\ t[1] \in Devs
                        /\ (t[2] = "tx" /\ t = Tx(t[1])) \/ (t[2] = "poll" /\ t = Poll(t[1]))
BY DEF Threads, Tx, Poll

(* A set of threads is finite.                                             *)
LEMMA ThreadsCounted ==
  ASSUME NEW S \in SUBSET Threads
  PROVE  IsFiniteSet(S) /\ Cardinality(S) \in Nat
<1> DEFINE Kinds == {"tx"} \cup {"poll"}
<1>1. IsFiniteSet(Devs) /\ IsFiniteSet(Kinds)
  BY SnullAssumption, FS_Singleton, FS_AddElement
<1>2. Threads = Devs \X Kinds
  BY DEF Threads
<1>3. IsFiniteSet(Threads)
  <2> HIDE DEF Kinds
  <2> QED BY <1>1, <1>2, FS_Product
<1> QED BY <1>3, FS_Subset, FS_CardinalityType

(* A configuration.                                                        *)
LEMMA Configuration ==
  ASSUME conf \in Confs
  PROVE  /\ use_napi \in BOOLEAN /\ lockup \in Nat /\ pool_size \in Nat \ {0}
         /\ MaxBuffers \in Nat /\ conf.weight \in Nat \ {0}
BY SnullAssumption DEF use_napi, lockup, pool_size, MaxBuffers
-----------------------------------------------------------------------------
(***************************************************************************)
(* The invariant.                                                          *)
(***************************************************************************)
TxLabels   == {"idle", "get", "enqueue", "check", "load", "store", "lockup", "interrupt",
               "reset", "restart", "push", "test", "wake"}
PollLabels == {"idle", "loop", "push", "test", "wake", "done"}

(* The types but for the bounds, which follow from the accounts.           *)
Types ==
  /\ conf \in Confs
  /\ up \in [Devs -> BOOLEAN] /\ stopped \in [Devs -> BOOLEAN]
  /\ pool \in [Devs -> Nat] /\ rx_queue \in [Devs -> Nat]
  /\ rx_int_enabled \in [Devs -> BOOLEAN]
  /\ status \in [Devs -> SUBSET {"RX", "TX"}] /\ seen \in [Devs -> SUBSET {"RX", "TX"}]
  /\ skb \in [Devs -> {"none", "live", "freed", "twice"}]
  /\ locked \in [Devs -> BOOLEAN] /\ tx_packets \in [Devs -> Nat]
  /\ napi \in [Devs -> {"off", "idle", "sched"}]
  /\ disabling \in [Devs -> BOOLEAN] /\ missed \in [Devs -> BOOLEAN]
  /\ pc \in [Threads -> TxLabels \cup PollLabels]
  /\ phase \in [Devs -> {"rx", "tx", "to"}] /\ slot \in [Threads -> Gone .. MaxBuffers]
  /\ npackets \in [Devs -> 0 .. conf.weight]
  /\ allocated \in [Devs -> 0 .. MaxBuffers] /\ deaf \in [Devs -> BOOLEAN]

(* The labels of each kind of thread, what they say of the phase, and that *)
(* a thread that takes a buffer has found its queue running.               *)
Labels ==
  \A d \in Devs :
    /\ pc[Tx(d)] \in TxLabels /\ pc[Poll(d)] \in PollLabels
    /\ pc[Tx(d)] \in {"reset", "restart"} => phase[d] = "to"
    /\ pc[Tx(d)] \in {"idle", "get", "enqueue", "check", "lockup"} => phase[d] # "to"
    /\ pc[Tx(d)] = "get" => ~stopped[d]

(* A device that is down has napi off, and a poll has the SCHED bit.       *)
NapiOK ==
  \A d \in Devs :
    /\ ~up[d] /\ ~disabling[d] => napi[d] = "off"
    /\ ~use_napi => napi[d] = "off" /\ ~disabling[d]
    /\ pc[Poll(d)] # "idle" => napi[d] = "sched"

SnullInv ==
  /\ Types /\ Labels /\ BuffersAccounted
  /\ NapiOK /\ InterruptsComeBack /\ StoppedQueueHasWaker

(* A step of thread t: the labels and the pools of the others stay.        *)
OthersStay(t) == \A u \in Threads : u # t => pc'[u] = pc[u] /\ PoolOf(u)' = PoolOf(u)

(* The pool of a thread is one of the two.                                 *)
LEMMA PoolOfValue ==
  ASSUME Types
  PROVE  /\ \A d \in Devs : /\ Target(d) \in Devs
                            /\ PoolOf(Tx(d)) = Peer(Target(d)) /\ PoolOf(Poll(d)) = Peer(d)
         /\ \A t \in Threads : PoolOf(t) \in Devs
<1>1. \A d \in Devs : Target(d) \in Devs
  BY Peers DEF Target
<1>2. \A d \in Devs : PoolOf(Tx(d)) = Peer(Target(d)) /\ PoolOf(Poll(d)) = Peer(d)
  BY ThreadNames DEF PoolOf
<1>3. \A t \in Threads : PoolOf(t) \in Devs
  BY <1>1, Peers, ThreadNames DEF PoolOf
<1> QED BY <1>1, <1>2, <1>3

(* A step of one thread that changes no phase but its own is one of that   *)
(* thread alone.                                                           *)
LEMMA TxAlone ==
  ASSUME Types, NEW d \in Devs, NEW l, NEW f,
         pc' = [pc EXCEPT ![Tx(d)] = l],
         phase' = phase \/ phase' = [phase EXCEPT ![d] = f]
  PROVE  OthersStay(Tx(d)) /\ pc'[Tx(d)] = l
<1>1. pc'[Tx(d)] = l
  BY ThreadNames DEF Types
<1>2. ASSUME NEW u \in Threads, u # Tx(d)
      PROVE  pc'[u] = pc[u] /\ PoolOf(u)' = PoolOf(u)
  <2>1. pc'[u] = pc[u]
    BY <1>2, ThreadNames DEF Types
  <2>2. CASE u[2] = "poll"
    BY <2>1, <2>2 DEF PoolOf
  <2>3. CASE u[2] # "poll"
    <3>1. u[1] \in Devs /\ u[1] # d
      BY <1>2, <2>3, ThreadNames
    <3>2. phase'[u[1]] = phase[u[1]]
      BY <3>1 DEF Types
    <3> QED BY <2>1, <2>3, <3>2 DEF PoolOf, Target
  <2> QED BY <2>2, <2>3
<1> QED BY <1>1, <1>2 DEF OthersStay

(* The same for the thread that polls.                                     *)
LEMMA PollAlone ==
  ASSUME Types, NEW d \in Devs, NEW l, pc' = [pc EXCEPT ![Poll(d)] = l], phase' = phase
  PROVE  OthersStay(Poll(d)) /\ pc'[Poll(d)] = l /\ PoolOf(Poll(d))' = PoolOf(Poll(d))
BY ThreadNames DEF Types, OthersStay, PoolOf, Target

(* The buffers in the hands of threads after a step of thread t.           *)
LEMMA HeldMoves ==
  ASSUME Types, NEW t \in Threads, OthersStay(t), NEW d \in Devs
  PROVE  /\ Cardinality(Held(d)) \in Nat /\ Cardinality(Held(d)') \in Nat
         /\ t \in Held(d) => Cardinality(Held(d)) > 0
         /\ (t \in Held(d) <=> t \in Held(d)') => Cardinality(Held(d)') = Cardinality(Held(d))
         /\ t \notin Held(d) /\ t \in Held(d)' => Cardinality(Held(d)') = Cardinality(Held(d)) + 1
         /\ t \in Held(d) /\ t \notin Held(d)' => Cardinality(Held(d)') = Cardinality(Held(d)) - 1
<1>1. \A u \in Threads : u # t => (u \in Held(d) <=> u \in Held(d)')
  BY DEF Held, OthersStay
<1>2. Held(d) \in SUBSET Threads /\ Held(d)' \in SUBSET Threads
  BY DEF Held
<1>3. /\ IsFiniteSet(Held(d)) /\ Cardinality(Held(d)) \in Nat
      /\ IsFiniteSet(Held(d)') /\ Cardinality(Held(d)') \in Nat
  BY <1>2, ThreadsCounted
<1>4. (t \in Held(d) <=> t \in Held(d)') => Held(d)' = Held(d)
  BY <1>1, <1>2
<1>5. t \notin Held(d) /\ t \in Held(d)' => Held(d)' = Held(d) \cup {t}
  BY <1>1, <1>2
<1>6. t \in Held(d) /\ t \notin Held(d)' => Held(d)' = Held(d) \ {t}
  BY <1>1, <1>2
<1>7. t \notin Held(d) /\ t \in Held(d)' => Cardinality(Held(d)') = Cardinality(Held(d)) + 1
  BY <1>3, <1>5, FS_AddElement
<1>8. t \in Held(d) /\ t \notin Held(d)' => Cardinality(Held(d)') = Cardinality(Held(d)) - 1
  BY <1>3, <1>6, FS_RemoveElement
<1>9. t \in Held(d) => Cardinality(Held(d)) > 0
  BY <1>3, FS_EmptySet
<1> QED BY <1>3, <1>4, <1>7, <1>8, <1>9

(* Where a transmit thread goes after an interrupt, case by case.          *)
LEMMA AfterInterruptValue ==
  ASSUME Types, NEW d \in Devs, AfterInterrupt(d)
  PROVE  \E l \in TxLabels, f \in {"rx", "tx", "to"} :
           /\ pc' = [pc EXCEPT ![Tx(d)] = l] /\ phase' = [phase EXCEPT ![d] = f]
           /\ \/ phase[d] = "rx" /\ l = "load" /\ f = "tx"
              \/ phase[d] = "tx" /\ l = "idle" /\ f = "rx"
              \/ phase[d] = "to" /\ l = "reset" /\ f = "to"
<1>0. phase[d] \in {"rx", "tx", "to"}
  BY DEF Types
<1>1. CASE phase[d] = "rx"
  <2>1. pc' = [pc EXCEPT ![Tx(d)] = "load"] /\ phase' = [phase EXCEPT ![d] = "tx"]
    BY <1>1 DEF AfterInterrupt, Goto
  <2> QED BY <1>1, <2>1 DEF TxLabels
<1>2. CASE phase[d] = "tx"
  <2>1. pc' = [pc EXCEPT ![Tx(d)] = "idle"] /\ phase' = [phase EXCEPT ![d] = "rx"]
    BY <1>2 DEF AfterInterrupt, Goto
  <2> QED BY <1>2, <2>1 DEF TxLabels
<1>3. CASE phase[d] = "to"
  <2>1. pc' = [pc EXCEPT ![Tx(d)] = "reset"] /\ phase' = [phase EXCEPT ![d] = "to"]
    BY <1>3 DEF AfterInterrupt, Goto
  <2> QED BY <1>3, <2>1 DEF TxLabels
<1> QED BY <1>0, <1>1, <1>2, <1>3

(* The lengths of a new pool.                                              *)
LEMMA NewPool ==
  ASSUME Types, NEW k \in Nat, NEW n \in snull_setup_pool(k)
  PROVE  n \in Nat /\ k + n \in 0 .. MaxBuffers
BY Configuration DEF Types, snull_setup_pool

(* The buffers that are not in the pool.                                   *)
LEMMA Outside ==
  ASSUME Types, BuffersAccounted, NEW d \in Devs
  PROVE  /\ Cardinality(Held(d)) \in Nat
         /\ allocated[d] \in Nat /\ pool[d] \in Nat /\ rx_queue[Peer(d)] \in Nat
         /\ allocated[d] = pool[d] + rx_queue[Peer(d)] + Cardinality(Held(d))
         /\ allocated[d] - pool[d] \in Nat
         /\ allocated[d] <= MaxBuffers /\ MaxBuffers \in Nat
<1>1. /\ allocated[d] \in 0 .. MaxBuffers /\ MaxBuffers \in Nat /\ pool[d] \in Nat
      /\ rx_queue[Peer(d)] \in Nat
  BY Peers, Configuration DEF Types
<1>2. Cardinality(Held(d)) \in Nat
  BY ThreadsCounted DEF Held
<1>3. allocated[d] = pool[d] + rx_queue[Peer(d)] + Cardinality(Held(d))
  BY DEF BuffersAccounted
<1> QED BY <1>1, <1>2, <1>3

(* Buffers that leave a pool make their places unknown.                    *)
LEMMA SlotLost ==
  ASSUME Types, NEW d \in Devs, NEW n \in Nat,
         slot' = [t \in Threads |-> IF PoolOf(t) = d /\ slot[t] > n THEN Gone ELSE slot[t]]
  PROVE  slot' \in [Threads -> Gone .. MaxBuffers]
BY Configuration DEF Types, Gone

(* A step keeps the types, also if it closes a device nobody else would.   *)
LEMMA TypesStep ==
  ASSUME SnullInv, Next \/ \E d \in Devs : dev_close(d)
  PROVE  Types'
<1>t. Types /\ Labels /\ BuffersAccounted
  BY DEF SnullInv
<1>c. /\ use_napi \in BOOLEAN /\ lockup \in Nat /\ MaxBuffers \in Nat /\ conf.weight \in Nat \ {0}
  BY <1>t, Configuration DEF Types
<1> USE ThreadNames DEF Types, Goto, TxLabels, PollLabels, devVars, napiVars, bufVars, thrVars
<1>1. ASSUME NEW d \in Devs, snull_open(d) PROVE Types'
  BY <1>t, <1>1 DEF snull_open, MaxBuffers
<1>2. ASSUME NEW d \in Devs, dev_close(d) PROVE Types'
  BY <1>t, <1>c, <1>2 DEF dev_close, MaxBuffers
<1>3. ASSUME NEW d \in Devs, napi_disabled(d) PROVE Types'
  BY <1>t, <1>3 DEF napi_disabled, MaxBuffers
<1>4. ASSUME NEW d \in Devs, snull_tx(d) PROVE Types'
  BY <1>t, <1>4 DEF snull_tx, MaxBuffers
<1>5. ASSUME NEW d \in Devs, snull_tx_timeout(d) PROVE Types'
  BY <1>t, <1>5 DEF snull_tx_timeout, MaxBuffers
<1>6. ASSUME NEW d \in Devs, snull_get_tx_buffer(d) PROVE Types'
  <2>1. CASE pool[d] = 0
    <3>1. /\ pc' = [pc EXCEPT ![Tx(d)] = "idle"] /\ locked' = [locked EXCEPT ![d] = TRUE]
          /\ UNCHANGED <<conf, up, rx_queue, rx_int_enabled, status, skb, tx_packets,
                         napiVars, allocated, phase, seen, stopped, pool, slot>>
      BY <1>6, <2>1 DEF snull_get_tx_buffer
    <3> QED BY <1>t, <3>1 DEF MaxBuffers
  <2>2. CASE pool[d] > 0
    <3>1. pool[d] - 1 \in Nat
      BY <1>t, <2>2
    <3>2. /\ pc' = [pc EXCEPT ![Tx(d)] = "enqueue"] /\ PoolShrinksTo(d, pool[d] - 1)
          /\ stopped' = [stopped EXCEPT ![d] = @ \/ pool[d] = 1]
          /\ UNCHANGED <<conf, up, rx_queue, rx_int_enabled, status, skb, locked, tx_packets,
                         napiVars, allocated, phase, seen>>
      BY <1>6, <2>2 DEF snull_get_tx_buffer
    <3>3. slot' = [t \in Threads |-> IF PoolOf(t) = d /\ slot[t] > pool[d] - 1 THEN Gone ELSE slot[t]]
      BY <3>2 DEF PoolShrinksTo
    <3>4. slot' \in [Threads -> Gone .. MaxBuffers]
      <4> HIDE DEF Types
      <4> QED BY <1>t, <3>1, <3>3, SlotLost
    <3>5. pool' \in [Devs -> Nat]
      BY <1>t, <3>1, <3>2 DEF PoolShrinksTo
    <3> QED BY <1>t, <3>2, <3>4, <3>5 DEF MaxBuffers
  <2> QED BY <1>t, <2>1, <2>2
<1>7. ASSUME NEW d \in Devs, snull_enqueue_buf(d) PROVE Types'
  BY <1>t, <1>7, Peers DEF snull_enqueue_buf, MaxBuffers
<1>8. ASSUME NEW d \in Devs, hw_tx_check(d) PROVE Types'
  BY <1>t, <1>8 DEF hw_tx_check, MaxBuffers
<1>9. ASSUME NEW d \in Devs, status_load(d) PROVE Types'
  BY <1>t, <1>9, PoolOfValue DEF status_load, MaxBuffers
<1>10. ASSUME NEW d \in Devs, status_store(d) PROVE Types'
  <2>1. seen[d] \cup {IF phase[d] = "rx" THEN "RX" ELSE "TX"} \in SUBSET {"RX", "TX"}
    BY <1>t
  <2>2. status' \in [Devs -> SUBSET {"RX", "TX"}]
    BY <1>t, <1>10, <2>1, PoolOfValue DEF status_store
  <2> QED BY <1>t, <1>10, <2>2 DEF status_store, MaxBuffers
<1>11. ASSUME NEW d \in Devs, hw_tx_lockup(d) PROVE Types'
  <2>1. PICK lost \in BOOLEAN :
          /\ stopped' = [stopped EXCEPT ![d] = @ \/ lost]
          /\ pc' = [pc EXCEPT ![Tx(d)] = IF lost THEN "idle" ELSE "interrupt"]
          /\ phase' = [phase EXCEPT ![d] = IF lost THEN "rx" ELSE @]
    BY <1>11 DEF hw_tx_lockup
  <2> QED BY <1>t, <1>11, <2>1 DEF hw_tx_lockup, MaxBuffers
<1>12. ASSUME NEW x \in Devs, NEW after \in {"none", "freed", "twice"}, TransmitDone(x, after)
       PROVE  /\ tx_packets' \in [Devs -> Nat]
              /\ skb' \in [Devs -> {"none", "live", "freed", "twice"}]
  <2>1. skb' \in [Devs -> {"none", "live", "freed", "twice"}]
    BY <1>t, <1>12 DEF TransmitDone
  <2>2. lockup # 0 => (tx_packets[x] + 1) % lockup \in Nat
    BY <1>t, <1>c
  <2> DEFINE n == IF "TX" \in status[x] /\ lockup # 0 THEN (tx_packets[x] + 1) % lockup ELSE tx_packets[x]
  <2>3. n \in Nat
    BY <1>t, <2>2
  <2>4. tx_packets' = [tx_packets EXCEPT ![x] = n]
    BY <1>12 DEF TransmitDone
  <2> HIDE DEF n
  <2> QED BY <1>t, <2>1, <2>3, <2>4
<1>13. ASSUME NEW d \in Devs, AfterInterrupt(d)
       PROVE  /\ pc' \in [Threads -> TxLabels \cup PollLabels]
              /\ phase' \in [Devs -> {"rx", "tx", "to"}]
  <2>1. PICK l \in TxLabels, f \in {"rx", "tx", "to"} :
          pc' = [pc EXCEPT ![Tx(d)] = l] /\ phase' = [phase EXCEPT ![d] = f]
    BY <1>t, <1>13, AfterInterruptValue
  <2> QED BY <1>t, <2>1
<1>14. ASSUME NEW d \in Devs, snull_napi_interrupt(d) PROVE Types'
  <2> DEFINE x == Target(d)
  <2>1. x \in Devs
    BY <1>t, PoolOfValue
  <2>2. TransmitDone(x, "none") /\ AfterInterrupt(d)
    BY <1>14 DEF snull_napi_interrupt
  <2>3. /\ status' = [status EXCEPT ![x] = {}]
        /\ UNCHANGED <<conf, up, stopped, rx_queue, locked, disabling, npackets, pool, slot, allocated, seen>>
    BY <1>14 DEF snull_napi_interrupt
  <2>4. /\ rx_int_enabled' \in [Devs -> BOOLEAN] /\ napi' \in [Devs -> {"off", "idle", "sched"}]
        /\ missed' \in [Devs -> BOOLEAN] /\ deaf' \in [Devs -> BOOLEAN]
    <3>1. CASE "RX" \in status[x]
      <4>1. rx_int_enabled' = [rx_int_enabled EXCEPT ![x] = FALSE] /\ napi_schedule(x)
        BY <1>14, <3>1 DEF snull_napi_interrupt
      <4> HIDE DEF x
      <4> QED BY <1>t, <2>1, <4>1 DEF napi_schedule
    <3>2. CASE "RX" \notin status[x]
      <4>1. UNCHANGED <<rx_int_enabled, napi, missed, deaf>>
        BY <1>14, <3>2 DEF snull_napi_interrupt
      <4> QED BY <1>t, <4>1
    <3> QED BY <3>1, <3>2
  <2> HIDE DEF x
  <2> QED BY <1>t, <1>12, <1>13, <2>1, <2>2, <2>3, <2>4 DEF MaxBuffers
<1>15. ASSUME NEW d \in Devs, snull_regular_interrupt(d) PROVE Types'
  <2> DEFINE x == Target(d)
             pkt == "RX" \in status[x] /\ rx_queue[x] > 0
  <2>1. x \in Devs
    BY <1>t, PoolOfValue
  <2>2. PICK after \in {"none", "freed", "twice"} : TransmitDone(x, after)
    <3>1. TransmitDone(x, IF skb[x] = "live" THEN "freed" ELSE "twice")
      BY <1>15 DEF snull_regular_interrupt
    <3> QED BY <3>1
  <2>3. /\ status' = [status EXCEPT ![x] = {}]
        /\ UNCHANGED <<conf, up, stopped, rx_int_enabled, locked, napi, disabling, missed,
                       npackets, deaf, pool, slot, allocated, seen>>
    BY <1>15 DEF snull_regular_interrupt
  <2>4. rx_queue' \in [Devs -> Nat]
    <3>1. rx_queue' = [rx_queue EXCEPT ![x] = IF pkt THEN @ - 1 ELSE @]
      BY <1>15 DEF snull_regular_interrupt, snull_dequeue_buf
    <3>2. rx_queue[x] \in Nat
      BY <1>t, <2>1
    <3>3. pkt => rx_queue[x] - 1 \in Nat
      BY <3>2
    <3> QED BY <1>t, <3>1, <3>2, <3>3
  <2>5. /\ pc' \in [Threads -> TxLabels \cup PollLabels]
        /\ phase' \in [Devs -> {"rx", "tx", "to"}]
    <3>1. CASE pkt
      <4>1. pc' = [pc EXCEPT ![Tx(d)] = "push"] /\ phase' = phase
        BY <1>15, <3>1 DEF snull_regular_interrupt
      <4> QED BY <1>t, <4>1
    <3>2. CASE ~pkt
      BY <1>13, <1>15, <3>2 DEF snull_regular_interrupt
    <3> QED BY <3>1, <3>2
  <2>6. /\ tx_packets' \in [Devs -> Nat]
        /\ skb' \in [Devs -> {"none", "live", "freed", "twice"}]
    BY <1>12, <2>1, <2>2
  <2> HIDE DEF x, pkt
  <2> QED BY <1>t, <2>1, <2>3, <2>4, <2>5, <2>6 DEF MaxBuffers
<1>16. ASSUME NEW d \in Devs, timeout_reset(d) PROVE Types'
  <2>1. allocated[d] - pool[d] \in Nat
    BY <1>t, Outside
  <2>2. PICK n \in snull_setup_pool(allocated[d] - pool[d]) :
          /\ pool' = [pool EXCEPT ![d] = n]
          /\ allocated' = [allocated EXCEPT ![d] = allocated[d] - pool[d] + n]
    BY <1>16 DEF timeout_reset
  <2>3. n \in Nat /\ allocated[d] - pool[d] + n \in 0 .. MaxBuffers
    BY <1>t, <2>1, NewPool
  <2>4. slot' \in [Threads -> Gone .. MaxBuffers]
    <3>1. slot' = [t \in Threads |-> IF PoolOf(t) = d /\ slot[t] > 0 THEN Gone ELSE slot[t]]
      BY <1>16 DEF timeout_reset
    <3> HIDE DEF Types
    <3> QED BY <1>t, <3>1, SlotLost
  <2> QED BY <1>t, <1>16, <2>2, <2>3, <2>4 DEF timeout_reset, MaxBuffers
<1>17. ASSUME NEW d \in Devs, timeout_wake(d) PROVE Types'
  BY <1>t, <1>17 DEF timeout_wake, MaxBuffers
<1>18. ASSUME NEW d \in Devs, napi_poll(d) PROVE Types'
  BY <1>t, <1>18 DEF napi_poll, MaxBuffers
<1>19. ASSUME NEW d \in Devs, snull_poll(d) PROVE Types'
  <2> DEFINE more == npackets[d] < conf.weight /\ rx_queue[d] > 0
  <2>1. /\ rx_queue' = [rx_queue EXCEPT ![d] = IF more THEN @ - 1 ELSE @]
        /\ npackets' = [npackets EXCEPT ![d] = IF more THEN @ + 1 ELSE @]
        /\ pc' = [pc EXCEPT ![Poll(d)] = IF more THEN "push" ELSE "done"]
    BY <1>19 DEF snull_poll, snull_dequeue_buf
  <2>2. /\ more => rx_queue[d] - 1 \in Nat /\ npackets[d] + 1 \in 0 .. conf.weight
        /\ more \in BOOLEAN
    BY <1>t, <1>c
  <2>3. UNCHANGED <<conf, up, stopped, rx_int_enabled, status, skb, locked, tx_packets,
                    napi, disabling, missed, deaf, bufVars, phase, seen>>
    BY <1>19 DEF snull_poll
  <2> HIDE DEF more
  <2> QED BY <1>t, <2>1, <2>2, <2>3, SMTT(30) DEF MaxBuffers
<1>20. ASSUME NEW d \in Devs, poll_complete(d) PROVE Types'
  BY <1>t, <1>c, <1>20 DEF poll_complete, MaxBuffers
<1>21. ASSUME NEW d \in Devs, poll_exhausted(d) PROVE Types'
  BY <1>t, <1>c, <1>21 DEF poll_exhausted, MaxBuffers
<1>22. ASSUME NEW t \in Threads, Resume(t)
       PROVE  /\ pc' \in [Threads -> TxLabels \cup PollLabels]
              /\ phase' \in [Devs -> {"rx", "tx", "to"}]
  BY <1>t, <1>13, <1>22 DEF Resume
<1>23. ASSUME NEW t \in Threads, release_push(t) PROVE Types'
  <2> DEFINE d == PoolOf(t)
  <2>1. d \in Devs /\ t \in Held(d)
    BY <1>t, <1>23, PoolOfValue DEF release_push, Held
  <2>2. pool[d] + 1 \in 0 .. MaxBuffers
    <3>1. Cardinality(Held(d)) > 0
      <4>1. Held(d) \in SUBSET Threads /\ Held(d) # {}
        BY <2>1 DEF Held
      <4> QED BY <4>1, ThreadsCounted, FS_EmptySet
    <3> QED BY <1>t, <2>1, <3>1, Outside
  <2>3. /\ pool' = [pool EXCEPT ![d] = @ + 1] /\ slot' = [slot EXCEPT ![t] = pool[d] + 1]
        /\ pc' = [pc EXCEPT ![t] = "test"]
        /\ UNCHANGED <<conf, devVars, napiVars, allocated, phase, seen>>
    BY <1>23 DEF release_push
  <2> HIDE DEF d
  <2> QED BY <1>t, <1>c, <2>1, <2>2, <2>3 DEF MaxBuffers, Gone
<1>24. ASSUME NEW t \in Threads, release_test(t) PROVE Types'
  <2>1. /\ pc' \in [Threads -> TxLabels \cup PollLabels]
        /\ phase' \in [Devs -> {"rx", "tx", "to"}]
    <3>1. CASE pc' = [pc EXCEPT ![t] = "wake"] /\ phase' = phase
      BY <1>t, <3>1
    <3>2. CASE Resume(t)
      BY <1>22, <3>2
    <3> QED BY <1>24, <3>1, <3>2 DEF release_test
  <2>2. slot' \in [Threads -> Gone .. MaxBuffers]
    BY <1>t, <1>c, <1>24 DEF release_test, Gone
  <2> QED BY <1>t, <1>24, <2>1, <2>2 DEF release_test, MaxBuffers
<1>25. ASSUME NEW t \in Threads, release_wake(t) PROVE Types'
  <2>1. /\ pc' \in [Threads -> TxLabels \cup PollLabels]
        /\ phase' \in [Devs -> {"rx", "tx", "to"}]
    BY <1>22, <1>25 DEF release_wake
  <2>2. stopped' \in [Devs -> BOOLEAN]
    BY <1>t, <1>25 DEF release_wake
  <2> QED BY <1>t, <1>25, <2>1, <2>2 DEF release_wake, MaxBuffers
<1> QED BY <1>1, <1>2, <1>3, <1>4, <1>5, <1>6, <1>7, <1>8, <1>9, <1>10, <1>11, <1>14, <1>15,
          <1>16, <1>17, <1>18, <1>19, <1>20, <1>21, <1>23, <1>24, <1>25
        DEF Next, TxStep, PollStep, ReleaseStep, snull_release
-----------------------------------------------------------------------------
(***************************************************************************)
(* What a step leaves alone.                                               *)
(***************************************************************************)
(* The labels after a step of a transmit thread.                           *)
LEMMA LabelsStay ==
  ASSUME Types, Labels, NEW d \in Devs, NEW l \in TxLabels, NEW f \in {"rx", "tx", "to"},
         pc' = [pc EXCEPT ![Tx(d)] = l],
         phase' = phase \/ phase' = [phase EXCEPT ![d] = f],
         \A e \in Devs : e # d => (stopped'[e] => stopped[e]),
         l \in {"reset", "restart"} => phase'[d] = "to",
         l \in {"idle", "get", "enqueue", "check", "lockup"} => phase'[d] # "to",
         l = "get" => ~stopped'[d]
  PROVE  Labels'
<1> SUFFICES ASSUME NEW e \in Devs
             PROVE  /\ pc'[Tx(e)] \in TxLabels /\ pc'[Poll(e)] \in PollLabels
                    /\ pc'[Tx(e)] \in {"reset", "restart"} => phase'[e] = "to"
                    /\ pc'[Tx(e)] \in {"idle", "get", "enqueue", "check", "lockup"} => phase'[e] # "to"
                    /\ pc'[Tx(e)] = "get" => ~stopped'[e]
  BY DEF Labels
<1>1. pc'[Poll(e)] = pc[Poll(e)] /\ pc[Poll(e)] \in PollLabels
  BY ThreadNames DEF Types, Labels
<1>2. CASE e = d
  BY <1>1, <1>2, ThreadNames DEF Types
<1>3. CASE e # d
  <2>1. pc'[Tx(e)] = pc[Tx(e)] /\ phase'[e] = phase[e]
    BY <1>3, ThreadNames DEF Types
  <2> QED BY <1>1, <1>3, <2>1 DEF Labels
<1> QED BY <1>2, <1>3

(* The labels after a step of a thread that polls.                         *)
LEMMA PollLabelsStay ==
  ASSUME Types, Labels, NEW d \in Devs, NEW l \in PollLabels,
         pc' = [pc EXCEPT ![Poll(d)] = l], phase' = phase,
         \A e \in Devs : stopped'[e] => stopped[e]
  PROVE  Labels'
BY ThreadNames DEF Types, Labels

(* The accounts after a step that moves no buffer.                         *)
LEMMA AccountsStay ==
  ASSUME Types, BuffersAccounted, NEW t \in Threads, OthersStay(t),
         pc[t] \notin {"enqueue", "push"}, pc'[t] \notin {"enqueue", "push"},
         UNCHANGED <<pool, rx_queue, allocated>>
  PROVE  BuffersAccounted'
<1> SUFFICES ASSUME NEW d \in Devs
             PROVE  allocated'[d] = pool'[d] + rx_queue'[Peer(d)] + Cardinality(Held(d)')
  BY DEF BuffersAccounted
<1>1. t \notin Held(d) /\ t \notin Held(d)'
  BY DEF Held
<1>2. Cardinality(Held(d)') = Cardinality(Held(d))
  BY <1>1, HeldMoves
<1> QED BY <1>2 DEF BuffersAccounted

(* napi after a step that leaves its state alone.                          *)
LEMMA NapiStays ==
  ASSUME Types, NapiOK, InterruptsComeBack,
         UNCHANGED <<conf, up, rx_int_enabled, napi, disabling, deaf>>,
         \A d \in Devs : pc'[Poll(d)] # "idle" => pc[Poll(d)] # "idle"
  PROVE  NapiOK' /\ InterruptsComeBack'
BY DEF NapiOK, InterruptsComeBack, use_napi

(* Who will wake the queue of d.                                           *)
Waker(d, t) == PoolOf(t) = d /\ (pc[t] = "wake" \/ (pc[t] = "test" /\ slot[t] = 1))

(* The wakers after a step of a thread that is none of them.               *)
LEMMA WakersStay ==
  ASSUME Types, StoppedQueueHasWaker, NEW t \in Threads, OthersStay(t),
         pc[t] \notin {"test", "wake"}, conf' = conf,
         NEW d \in Devs,
         \A u \in Threads : u # t /\ PoolOf(u) = d => slot'[u] = slot[u],
         up'[d] /\ stopped'[d] => up[d] /\ stopped[d],
         pool'[d] > 0 => pool[d] > 0,
         pc[Tx(d)] # "idle" /\ phase[d] = "to" => pc'[Tx(d)] # "idle" /\ phase'[d] = "to",
         lockup = 0, up'[d], stopped'[d], pool'[d] > 0
  PROVE  \/ pc'[Tx(d)] # "idle" /\ phase'[d] = "to"
         \/ \E u \in Threads : Waker(d, u)'
<1>1. \/ pc[Tx(d)] # "idle" /\ phase[d] = "to"
      \/ \E u \in Threads : Waker(d, u)
  BY DEF StoppedQueueHasWaker, Waker
<1>2. ASSUME NEW u \in Threads, Waker(d, u) PROVE Waker(d, u)'
  <2>1. u # t
    BY <1>2 DEF Waker
  <2>2. pc'[u] = pc[u] /\ PoolOf(u)' = PoolOf(u) /\ slot'[u] = slot[u]
    BY <1>2, <2>1 DEF OthersStay, Waker
  <2> QED BY <1>2, <2>2 DEF Waker
<1> QED BY <1>1, <1>2

(* What is to be shown of the next state, queue by queue.                  *)
LEMMA WakersSuffice ==
  ASSUME lockup' = lockup,
         \A e \in Devs : lockup = 0 /\ up'[e] /\ stopped'[e] /\ pool'[e] > 0 =>
           \/ pc'[Tx(e)] # "idle" /\ phase'[e] = "to"
           \/ \E u \in Threads : Waker(e, u)'
  PROVE  StoppedQueueHasWaker'
BY DEF StoppedQueueHasWaker, Waker

(* A step of a transmit thread that leaves the pools alone.                *)
LEMMA QuietTx ==
  ASSUME SnullInv, NEW d \in Devs, NEW l \in TxLabels, NEW f \in {"rx", "tx", "to"},
         pc' = [pc EXCEPT ![Tx(d)] = l],
         phase' = phase \/ phase' = [phase EXCEPT ![d] = f],
         pc[Tx(d)] \notin {"test", "wake"},
         UNCHANGED <<conf, up, pool, slot>>,
         \A e \in Devs : e # d => stopped'[e] = stopped[e],
         stopped'[d] => stopped[d] \/ lockup # 0,
         l \in {"reset", "restart"} => phase'[d] = "to",
         l \in {"idle", "get", "enqueue", "check", "lockup"} => phase'[d] # "to",
         l = "get" => ~stopped'[d],
         phase[d] = "to" /\ pc[Tx(d)] # "idle" => ~stopped'[d] \/ (phase'[d] = "to" /\ l # "idle")
  PROVE  /\ Labels' /\ StoppedQueueHasWaker'
         /\ OthersStay(Tx(d)) /\ pc'[Tx(d)] = l
         /\ \A e \in Devs : pc'[Poll(e)] = pc[Poll(e)]
<1>t. Types /\ Labels /\ StoppedQueueHasWaker
  BY DEF SnullInv
<1>0. Tx(d) \in Threads
  BY ThreadNames
<1>1. OthersStay(Tx(d)) /\ pc'[Tx(d)] = l
  BY <1>t, TxAlone
<1>2. Labels'
  BY <1>t, LabelsStay
<1>3. \A e \in Devs : pc'[Poll(e)] = pc[Poll(e)]
  BY <1>1, ThreadNames DEF OthersStay
<1>4. ASSUME NEW e \in Devs, lockup = 0, up'[e], stopped'[e], pool'[e] > 0
      PROVE  \/ pc'[Tx(e)] # "idle" /\ phase'[e] = "to"
             \/ \E u \in Threads : Waker(e, u)'
  <2>1. CASE e = d
    <3>1. pc[Tx(d)] # "idle" /\ phase[d] = "to" => pc'[Tx(d)] # "idle" /\ phase'[d] = "to"
      BY <1>1, <1>4, <2>1
    <3>2. stopped[d] /\ up[d]
      BY <1>4, <2>1
    <3> QED BY <1>t, <1>0, <1>1, <1>4, <2>1, <3>1, <3>2, WakersStay
  <2>2. CASE e # d
    <3>1. pc'[Tx(e)] = pc[Tx(e)] /\ phase'[e] = phase[e]
      BY <1>t, <2>2, ThreadNames DEF Types
    <3>2. stopped[e] /\ up[e]
      BY <1>4, <2>2
    <3> QED BY <1>t, <1>0, <1>1, <1>4, <3>1, <3>2, WakersStay
  <2> QED BY <2>1, <2>2
<1>5. lockup' = lockup
  BY DEF lockup
<1>6. StoppedQueueHasWaker'
  BY <1>4, <1>5, WakersSuffice
<1> QED BY <1>1, <1>2, <1>3, <1>6

(* A step of a thread that polls and leaves the pools alone.               *)
LEMMA QuietPoll ==
  ASSUME SnullInv, NEW d \in Devs, NEW l \in PollLabels,
         pc' = [pc EXCEPT ![Poll(d)] = l], phase' = phase,
         pc[Poll(d)] \notin {"test", "wake"},
         UNCHANGED <<conf, up, stopped, pool, slot>>
  PROVE  /\ Labels' /\ StoppedQueueHasWaker'
         /\ OthersStay(Poll(d)) /\ pc'[Poll(d)] = l /\ PoolOf(Poll(d))' = Peer(d)
<1>t. Types /\ Labels /\ StoppedQueueHasWaker
  BY DEF SnullInv
<1>0. Poll(d) \in Threads
  BY ThreadNames
<1>1. /\ OthersStay(Poll(d)) /\ pc'[Poll(d)] = l /\ PoolOf(Poll(d))' = Peer(d)
      /\ \A e \in Devs : pc'[Tx(e)] = pc[Tx(e)]
  <2>1. OthersStay(Poll(d)) /\ pc'[Poll(d)] = l /\ PoolOf(Poll(d))' = PoolOf(Poll(d))
    BY <1>t, PollAlone
  <2>2. PoolOf(Poll(d)) = Peer(d)
    BY <1>t, PoolOfValue
  <2>3. \A e \in Devs : pc'[Tx(e)] = pc[Tx(e)]
    BY <2>1, ThreadNames DEF OthersStay
  <2> QED BY <2>1, <2>2, <2>3
<1>2. Labels'
  BY <1>t, PollLabelsStay
<1>3. ASSUME NEW e \in Devs, lockup = 0, up'[e], stopped'[e], pool'[e] > 0
      PROVE  \/ pc'[Tx(e)] # "idle" /\ phase'[e] = "to"
             \/ \E u \in Threads : Waker(e, u)'
  BY <1>t, <1>0, <1>1, <1>3, WakersStay
<1>4. lockup' = lockup
  BY DEF lockup
<1>5. StoppedQueueHasWaker'
  BY <1>3, <1>4, WakersSuffice
<1> QED BY <1>1, <1>2, <1>5

(* Nobody moves.                                                           *)
LEMMA NobodyMoves ==
  ASSUME SnullInv, UNCHANGED <<conf, pc, phase, slot, pool, rx_queue, allocated>>,
         \A e \in Devs : up'[e] /\ stopped'[e] => up[e] /\ stopped[e],
         \A e \in Devs : pc[Tx(e)] = "get" => (stopped'[e] => stopped[e])
  PROVE  Labels' /\ BuffersAccounted' /\ StoppedQueueHasWaker'
<1>t. Types /\ Labels /\ BuffersAccounted /\ StoppedQueueHasWaker
  BY DEF SnullInv
<1>1. \A t \in Threads : PoolOf(t)' = PoolOf(t)
  BY DEF PoolOf, Target
<1>2. \A d \in Devs : Held(d)' = Held(d)
  BY <1>1 DEF Held
<1>3. BuffersAccounted'
  BY <1>t, <1>2 DEF BuffersAccounted
<1>4. Labels'
  BY <1>t DEF Labels
<1>5. StoppedQueueHasWaker'
  BY <1>t, <1>1 DEF StoppedQueueHasWaker, lockup
<1> QED BY <1>3, <1>4, <1>5

(* A thread that has given a buffer back goes on.                          *)
LEMMA ResumeStays ==
  ASSUME Types, Labels, NEW t \in Threads, Resume(t), pc[t] # "idle",
         \A e \in Devs : stopped'[e] => stopped[e]
  PROVE  /\ Labels' /\ OthersStay(t) /\ pc'[t] \notin {"enqueue", "push", "test", "wake"}
         /\ \A e \in Devs : phase[e] = "to" => phase'[e] = "to"
         /\ \A e \in Devs : phase[e] = "to" /\ pc[Tx(e)] # "idle" => pc'[Tx(e)] # "idle"
         /\ \A e \in Devs : pc'[Poll(e)] # "idle" => pc[Poll(e)] # "idle"
<1>1. ASSUME NEW d \in Devs, t = Poll(d)
      PROVE  /\ Labels' /\ OthersStay(t) /\ pc'[t] = "loop" /\ phase' = phase
  <2>1. pc' = [pc EXCEPT ![t] = "loop"] /\ phase' = phase
    BY <1>1, ThreadNames DEF Resume, Goto
  <2>2. OthersStay(t) /\ pc'[t] = "loop"
    BY <1>1, <2>1, PollAlone
  <2>3. Labels'
    BY <1>1, <2>1, PollLabelsStay DEF PollLabels
  <2> QED BY <2>1, <2>2, <2>3
<1>2. ASSUME NEW d \in Devs, t = Tx(d)
      PROVE  /\ Labels' /\ OthersStay(t) /\ pc'[t] \in {"load", "idle", "reset"}
             /\ phase[d] = "to" => phase'[d] = "to" /\ pc'[t] # "idle"
             /\ \A e \in Devs : e # d => phase'[e] = phase[e]
  <2>1. AfterInterrupt(d)
    BY <1>2, ThreadNames DEF Resume
  <2>2. PICK l \in TxLabels, f \in {"rx", "tx", "to"} :
           /\ pc' = [pc EXCEPT ![Tx(d)] = l] /\ phase' = [phase EXCEPT ![d] = f]
           /\ \/ phase[d] = "rx" /\ l = "load" /\ f = "tx"
              \/ phase[d] = "tx" /\ l = "idle" /\ f = "rx"
              \/ phase[d] = "to" /\ l = "reset" /\ f = "to"
    BY <2>1, AfterInterruptValue
  <2>3. OthersStay(t) /\ pc'[t] = l
    BY <1>2, <2>2, TxAlone
  <2>4. phase'[d] = f /\ \A e \in Devs : e # d => phase'[e] = phase[e]
    BY <2>2 DEF Types
  <2>5. Labels'
    BY <2>2, <2>4, LabelsStay
  <2> QED BY <2>2, <2>3, <2>4, <2>5
<1>3. CASE \E d \in Devs : t = Poll(d)
  <2>1. PICK d \in Devs : t = Poll(d)
    BY <1>3
  <2>2. \A e \in Devs : Tx(e) # t /\ Tx(e) \in Threads /\ Poll(e) \in Threads
    BY <2>1, ThreadNames
  <2> QED BY <1>1, <2>1, <2>2 DEF OthersStay
<1>4. CASE \E d \in Devs : t = Tx(d)
  <2>1. PICK d \in Devs : t = Tx(d)
    BY <1>4
  <2>2. \A e \in Devs : /\ Tx(e) # t \/ e = d
                        /\ Poll(e) # t /\ Tx(e) \in Threads /\ Poll(e) \in Threads
    BY <2>1, ThreadNames
  <2> QED BY <1>2, <2>1, <2>2 DEF OthersStay
<1> QED BY <1>3, <1>4, ThreadNames
-----------------------------------------------------------------------------
(***************************************************************************)
(* The steps.                                                              *)
(***************************************************************************)
(* What holds after a step beside the types.                               *)
Rest == Labels /\ BuffersAccounted /\ NapiOK /\ InterruptsComeBack /\ StoppedQueueHasWaker

(* An interface goes up or down.                                           *)
LEMMA UpDownStep ==
  ASSUME SnullInv, NEW d \in Devs, snull_open(d) \/ dev_close(d) \/ napi_disabled(d)
  PROVE  Rest'
<1>t. Types /\ Labels /\ NapiOK /\ InterruptsComeBack
  BY DEF SnullInv
<1> USE DEF devVars, napiVars, bufVars, thrVars
<1>1. CASE snull_open(d)
  <2>1. /\ ~up[d] /\ ~disabling[d] /\ stopped' = [stopped EXCEPT ![d] = FALSE]
        /\ up' = [up EXCEPT ![d] = TRUE]
        /\ napi' = [napi EXCEPT ![d] = IF use_napi THEN "idle" ELSE "off"]
        /\ UNCHANGED <<conf, pc, phase, slot, pool, rx_queue, allocated, rx_int_enabled, disabling, deaf>>
    BY <1>1 DEF snull_open
  <2>2. napi[d] = "off" /\ pc[Poll(d)] = "idle"
    BY <1>t, <2>1 DEF NapiOK
  <2>3. NapiOK' /\ InterruptsComeBack'
    BY <1>t, <2>1, <2>2 DEF Types, NapiOK, InterruptsComeBack, use_napi
  <2>4. \A e \in Devs : stopped'[e] => e # d /\ stopped[e]
    BY <1>t, <2>1 DEF Types
  <2>5. \A e \in Devs : e # d => up'[e] = up[e]
    BY <1>t, <2>1 DEF Types
  <2> QED BY <2>1, <2>3, <2>4, <2>5, NobodyMoves DEF Rest
<1>2. CASE dev_close(d)
  <2>1. /\ up[d] /\ pc[Tx(d)] = "idle" /\ stopped' = [stopped EXCEPT ![d] = TRUE]
        /\ up' = [up EXCEPT ![d] = FALSE]
        /\ disabling' = [disabling EXCEPT ![d] = use_napi]
        /\ UNCHANGED <<conf, pc, phase, slot, pool, rx_queue, allocated, rx_int_enabled, napi, deaf>>
    BY <1>2 DEF dev_close
  <2>2. NapiOK' /\ InterruptsComeBack'
    BY <1>t, <2>1 DEF Types, NapiOK, InterruptsComeBack, use_napi
  <2>3. \A e \in Devs : /\ up'[e] => e # d /\ up[e]
                        /\ e # d => stopped'[e] = stopped[e]
                        /\ pc[Tx(e)] = "get" => e # d
    BY <1>t, <2>1 DEF Types
  <2> QED BY <2>1, <2>2, <2>3, NobodyMoves DEF Rest
<1>3. CASE napi_disabled(d)
  <2>1. /\ disabling[d] /\ napi[d] = "idle"
        /\ napi' = [napi EXCEPT ![d] = "off"] /\ disabling' = [disabling EXCEPT ![d] = FALSE]
        /\ UNCHANGED <<conf, up, stopped, pc, phase, slot, pool, rx_queue, allocated, rx_int_enabled, deaf>>
    BY <1>3 DEF napi_disabled
  <2>2. NapiOK' /\ InterruptsComeBack'
    BY <1>t, <2>1 DEF Types, NapiOK, InterruptsComeBack, use_napi
  <2> QED BY <2>1, <2>2, NobodyMoves DEF Rest
<1> QED BY <1>1, <1>2, <1>3

(* A transmit thread in a step that touches no buffer and no interrupt.    *)
LEMMA SendStep ==
  ASSUME SnullInv, NEW d \in Devs,
         \/ snull_tx(d) \/ snull_tx_timeout(d) \/ hw_tx_check(d) \/ status_load(d)
         \/ status_store(d) \/ hw_tx_lockup(d) \/ timeout_wake(d)
  PROVE  Rest'
<1>t. Types /\ Labels /\ BuffersAccounted /\ NapiOK /\ InterruptsComeBack
  BY DEF SnullInv
<1>n. Tx(d) \in Threads
  BY ThreadNames
<1> USE DEF devVars, napiVars, bufVars, thrVars, Goto
<1>1. ASSUME NEW l \in TxLabels, NEW f \in {"rx", "tx", "to"},
             pc' = [pc EXCEPT ![Tx(d)] = l],
             phase' = phase \/ phase' = [phase EXCEPT ![d] = f],
             pc[Tx(d)] \notin {"enqueue", "push", "test", "wake"}, l \notin {"enqueue", "push"},
             UNCHANGED <<conf, up, pool, slot, rx_queue, allocated, rx_int_enabled,
                         napi, disabling, deaf>>,
             \A e \in Devs : e # d => stopped'[e] = stopped[e],
             stopped'[d] => stopped[d] \/ lockup # 0,
             l \in {"reset", "restart"} => phase'[d] = "to",
             l \in {"idle", "get", "enqueue", "check", "lockup"} => phase'[d] # "to",
             l = "get" => ~stopped'[d],
             phase[d] = "to" /\ pc[Tx(d)] # "idle" => ~stopped'[d] \/ (phase'[d] = "to" /\ l # "idle")
      PROVE  Rest'
  <2>1. /\ Labels' /\ StoppedQueueHasWaker' /\ OthersStay(Tx(d)) /\ pc'[Tx(d)] = l
        /\ \A e \in Devs : pc'[Poll(e)] = pc[Poll(e)]
    BY <1>1, QuietTx
  <2>2. BuffersAccounted'
    BY <1>t, <1>n, <1>1, <2>1, AccountsStay
  <2>3. NapiOK' /\ InterruptsComeBack'
    BY <1>t, <1>1, <2>1, NapiStays
  <2> QED BY <2>1, <2>2, <2>3 DEF Rest
<1>2. CASE snull_tx(d)
  <2>1. /\ ~stopped[d] /\ pc[Tx(d)] = "idle" /\ pc' = [pc EXCEPT ![Tx(d)] = "get"] /\ phase' = phase
        /\ UNCHANGED <<conf, up, pool, slot, rx_queue, allocated, rx_int_enabled, napi, disabling, deaf, stopped>>
    BY <1>2 DEF snull_tx
  <2>2. phase[d] # "to"
    BY <1>t, <2>1 DEF Labels
  <2> QED BY <1>1, <2>1, <2>2 DEF TxLabels
<1>3. CASE snull_tx_timeout(d)
  <2>1. /\ pc[Tx(d)] = "idle" /\ pc' = [pc EXCEPT ![Tx(d)] = "load"] /\ phase' = [phase EXCEPT ![d] = "to"]
        /\ UNCHANGED <<conf, up, pool, slot, rx_queue, allocated, rx_int_enabled, napi, disabling, deaf, stopped>>
    BY <1>3 DEF snull_tx_timeout
  <2> QED BY <1>1, <2>1 DEF TxLabels
<1>4. CASE hw_tx_check(d)
  <2>1. PICK f \in {"rx", "tx"} :
        /\ pc[Tx(d)] = "check" /\ pc' = [pc EXCEPT ![Tx(d)] = "load"] /\ phase' = [phase EXCEPT ![d] = f]
        /\ UNCHANGED <<conf, up, pool, slot, rx_queue, allocated, rx_int_enabled, napi, disabling, deaf, stopped>>
    BY <1>4 DEF hw_tx_check
  <2>2. phase[d] # "to"
    BY <1>t, <2>1 DEF Labels
  <2> QED BY <1>1, <2>1, <2>2 DEF TxLabels
<1>5. CASE status_load(d)
  <2>1. /\ pc[Tx(d)] = "load" /\ pc' = [pc EXCEPT ![Tx(d)] = "store"] /\ phase' = phase
        /\ UNCHANGED <<conf, up, pool, slot, rx_queue, allocated, rx_int_enabled, napi, disabling, deaf, stopped>>
    BY <1>5 DEF status_load
  <2> QED BY <1>1, <2>1 DEF TxLabels
<1>6. CASE status_store(d)
  <2>1. PICK l \in {"lockup", "interrupt"} :
        /\ pc[Tx(d)] = "store" /\ pc' = [pc EXCEPT ![Tx(d)] = l] /\ phase' = phase
        /\ l = "lockup" => phase[d] = "tx"
        /\ UNCHANGED <<conf, up, pool, slot, rx_queue, allocated, rx_int_enabled, napi, disabling, deaf, stopped>>
    BY <1>6 DEF status_store
  <2> QED BY <1>1, <2>1 DEF TxLabels
<1>7. CASE hw_tx_lockup(d)
  <2>0. phase[d] # "to" /\ pc[Tx(d)] = "lockup" /\ stopped \in [Devs -> BOOLEAN] /\ phase \in [Devs -> {"rx", "tx", "to"}]
    BY <1>t, <1>7 DEF Labels, hw_tx_lockup, Types
  <2>1. CASE lockup # 0 /\ (tx_packets[d] + 1) % lockup = 0
    <3>1. /\ pc' = [pc EXCEPT ![Tx(d)] = "idle"] /\ phase' = [phase EXCEPT ![d] = "rx"]
          /\ UNCHANGED <<conf, up, pool, slot, rx_queue, allocated, rx_int_enabled, napi, disabling, deaf>>
          /\ \A e \in Devs : e # d => stopped'[e] = stopped[e]
      BY <1>7, <2>0, <2>1 DEF hw_tx_lockup
    <3>2. phase'[d] = "rx"
      BY <2>0, <3>1
    <3> QED BY <1>1, <2>0, <2>1, <3>1, <3>2 DEF TxLabels
  <2>2. CASE ~(lockup # 0 /\ (tx_packets[d] + 1) % lockup = 0)
    <3>1. /\ pc' = [pc EXCEPT ![Tx(d)] = "interrupt"] /\ phase' = [phase EXCEPT ![d] = phase[d]]
          /\ UNCHANGED <<conf, up, pool, slot, rx_queue, allocated, rx_int_enabled, napi, disabling, deaf>>
          /\ stopped' = [stopped EXCEPT ![d] = stopped[d]]
      BY <1>7, <2>0, <2>2 DEF hw_tx_lockup
    <3>2. phase' = phase /\ stopped' = stopped
      BY <2>0, <3>1
    <3> QED BY <1>1, <2>0, <2>2, <3>1, <3>2 DEF TxLabels
  <2> QED BY <2>1, <2>2
<1>8. CASE timeout_wake(d)
  <2>1. /\ pc[Tx(d)] = "restart" /\ pc' = [pc EXCEPT ![Tx(d)] = "idle"] /\ phase' = [phase EXCEPT ![d] = "rx"]
        /\ stopped' = [stopped EXCEPT ![d] = FALSE]
        /\ UNCHANGED <<conf, up, pool, slot, rx_queue, allocated, rx_int_enabled, napi, disabling, deaf>>
    BY <1>8 DEF timeout_wake
  <2>2. phase'[d] = "rx" /\ ~stopped'[d] /\ \A e \in Devs : e # d => stopped'[e] = stopped[e]
    BY <1>t, <2>1 DEF Types
  <2> QED BY <1>1, <2>1, <2>2 DEF TxLabels
<1> QED BY <1>2, <1>3, <1>4, <1>5, <1>6, <1>7, <1>8

(* snull_get_tx_buffer and snull_enqueue_buf: a buffer goes from the pool  *)
(* to the thread and from the thread to the list of the peer.              *)
LEMMA BufferStep ==
  ASSUME SnullInv, NEW d \in Devs, snull_get_tx_buffer(d) \/ snull_enqueue_buf(d)
  PROVE  Rest'
<1>t. /\ Types /\ Labels /\ BuffersAccounted /\ NapiOK /\ InterruptsComeBack
      /\ StoppedQueueHasWaker
  BY DEF SnullInv
<1>n. Tx(d) \in Threads /\ \A e \in Devs : Poll(e) \in Threads /\ Poll(e) # Tx(d)
  BY ThreadNames
<1>p. Peer(d) \in Devs /\ Peer(d) # d /\ \A e \in Devs : Peer(e) = Peer(d) => e = d
  BY Peers
<1> USE DEF devVars, napiVars, bufVars, thrVars, Goto
<1>1. CASE snull_get_tx_buffer(d) /\ pool[d] = 0
  <2>1. /\ pc[Tx(d)] = "get" /\ pc' = [pc EXCEPT ![Tx(d)] = "idle"] /\ phase' = phase
        /\ UNCHANGED <<conf, up, pool, slot, rx_queue, allocated, rx_int_enabled, napi, disabling, deaf, stopped>>
    BY <1>1 DEF snull_get_tx_buffer
  <2>2. phase[d] # "to"
    BY <1>t, <2>1 DEF Labels
  <2>3. /\ Labels' /\ StoppedQueueHasWaker' /\ OthersStay(Tx(d)) /\ pc'[Tx(d)] = "idle"
        /\ \A e \in Devs : pc'[Poll(e)] = pc[Poll(e)]
    BY <2>1, <2>2, QuietTx DEF TxLabels
  <2>4. BuffersAccounted'
    BY <1>t, <1>n, <2>1, <2>3, AccountsStay
  <2>5. NapiOK' /\ InterruptsComeBack'
    BY <1>t, <2>1, <2>3, NapiStays
  <2> QED BY <2>3, <2>4, <2>5 DEF Rest
<1>2. CASE snull_get_tx_buffer(d) /\ pool[d] # 0
  <2>0. pool[d] \in Nat /\ pool[d] > 0
    BY <1>t, <1>2 DEF Types
  <2>1. /\ pc[Tx(d)] = "get" /\ pc' = [pc EXCEPT ![Tx(d)] = "enqueue"] /\ phase' = phase
        /\ pool' = [pool EXCEPT ![d] = pool[d] - 1]
        /\ slot' = [t \in Threads |-> IF PoolOf(t) = d /\ slot[t] > pool[d] - 1 THEN Gone ELSE slot[t]]
        /\ stopped' = [stopped EXCEPT ![d] = stopped[d] \/ pool[d] = 1]
        /\ UNCHANGED <<conf, up, rx_queue, allocated, rx_int_enabled, napi, disabling, deaf>>
    BY <1>2 DEF snull_get_tx_buffer, PoolShrinksTo
  <2>2. phase[d] # "to" /\ ~stopped[d]
    BY <1>t, <2>1 DEF Labels
  <2>3. OthersStay(Tx(d)) /\ pc'[Tx(d)] = "enqueue"
    BY <1>t, <2>1, TxAlone
  <2>4. \A e \in Devs : pc'[Poll(e)] = pc[Poll(e)]
    BY <1>n, <2>3 DEF OthersStay
  <2>5. \A e \in Devs : e # d => stopped'[e] = stopped[e] /\ pool'[e] = pool[e]
    BY <1>t, <2>1 DEF Types
  <2>6. Labels'
    BY <1>t, <2>1, <2>2, <2>5, LabelsStay DEF TxLabels
  <2>7. NapiOK' /\ InterruptsComeBack'
    BY <1>t, <2>1, <2>4, NapiStays
  <2>8. BuffersAccounted'
    <3>1. ASSUME NEW e \in Devs
          PROVE  allocated'[e] = pool'[e] + rx_queue'[Peer(e)] + Cardinality(Held(e)')
      <4>1. Tx(d) \notin Held(e) /\ (Tx(d) \in Held(e)' <=> e = d)
        BY <1>n, <2>1, <2>3, ThreadNames DEF Held
      <4>2. CASE e = d
        <5>1. Cardinality(Held(e)') = Cardinality(Held(e)) + 1
          BY <1>t, <1>n, <2>3, <4>1, <4>2, HeldMoves
        <5>2. pool'[e] = pool[e] - 1 /\ allocated'[e] = allocated[e] /\ rx_queue' = rx_queue
          BY <1>t, <2>1, <4>2 DEF Types
        <5> QED BY <1>t, <5>1, <5>2, Outside
      <4>3. CASE e # d
        <5>1. Cardinality(Held(e)') = Cardinality(Held(e))
          BY <1>t, <1>n, <2>3, <4>1, <4>3, HeldMoves
        <5> QED BY <1>t, <2>1, <2>5, <4>3, <5>1 DEF BuffersAccounted
      <4> QED BY <4>2, <4>3
    <3> QED BY <3>1 DEF BuffersAccounted
  <2>9. StoppedQueueHasWaker'
    <3>1. lockup' = lockup
      BY <2>1 DEF lockup
    <3>2. ASSUME NEW e \in Devs, lockup = 0, up'[e], stopped'[e], pool'[e] > 0
          PROVE  \/ pc'[Tx(e)] # "idle" /\ phase'[e] = "to"
                 \/ \E u \in Threads : Waker(e, u)'
      <4>1. CASE e = d
        <5>1. pool[d] = 1 /\ pool'[d] = pool[d] - 1
          BY <1>t, <2>1, <2>2, <3>2, <4>1 DEF Types
        <5> QED BY <3>2, <4>1, <5>1
      <4>2. CASE e # d
        <5>1. Tx(e) \in Threads /\ Tx(e) # Tx(d)
          BY <4>2, ThreadNames
        <5>2. pc'[Tx(e)] = pc[Tx(e)]
          BY <2>3, <5>1 DEF OthersStay
        <5>3. \A u \in Threads : PoolOf(u) = e => slot'[u] = slot[u]
          BY <2>1, <4>2
        <5>4. /\ up[e] /\ stopped[e] /\ pool[e] > 0 /\ conf' = conf /\ phase'[e] = phase[e]
              /\ pc[Tx(d)] \notin {"test", "wake"}
          BY <2>1, <2>5, <3>2, <4>2
        <5> QED BY <1>t, <1>n, <2>3, <3>2, <5>2, <5>3, <5>4, WakersStay
      <4> QED BY <4>1, <4>2
    <3> QED BY <3>1, <3>2, WakersSuffice
  <2> QED BY <2>6, <2>7, <2>8, <2>9 DEF Rest
<1>3. CASE snull_enqueue_buf(d)
  <2>1. /\ pc[Tx(d)] = "enqueue" /\ pc' = [pc EXCEPT ![Tx(d)] = "check"] /\ phase' = phase
        /\ rx_queue' = [rx_queue EXCEPT ![Peer(d)] = rx_queue[Peer(d)] + 1]
        /\ UNCHANGED <<conf, up, pool, slot, allocated, rx_int_enabled, napi, disabling, deaf, stopped>>
    BY <1>3 DEF snull_enqueue_buf
  <2>2. phase[d] # "to"
    BY <1>t, <2>1 DEF Labels
  <2>3. /\ Labels' /\ StoppedQueueHasWaker' /\ OthersStay(Tx(d)) /\ pc'[Tx(d)] = "check"
        /\ \A e \in Devs : pc'[Poll(e)] = pc[Poll(e)]
    BY <2>1, <2>2, QuietTx DEF TxLabels
  <2>4. NapiOK' /\ InterruptsComeBack'
    BY <1>t, <2>1, <2>3, NapiStays
  <2>5. BuffersAccounted'
    <3>1. ASSUME NEW e \in Devs
          PROVE  allocated'[e] = pool'[e] + rx_queue'[Peer(e)] + Cardinality(Held(e)')
      <4>1. Tx(d) \notin Held(e)' /\ (Tx(d) \in Held(e) <=> e = d)
        BY <1>n, <2>1, <2>3, ThreadNames DEF Held
      <4>2. CASE e = d
        <5>1. Cardinality(Held(d)') = Cardinality(Held(d)) - 1
          BY <1>t, <1>n, <2>3, <4>1, <4>2, HeldMoves
        <5>2. rx_queue'[Peer(d)] = rx_queue[Peer(d)] + 1
          BY <1>t, <1>p, <2>1 DEF Types
        <5> QED BY <1>t, <2>1, <4>2, <5>1, <5>2, Outside
      <4>3. CASE e # d
        <5>1. Cardinality(Held(e)') = Cardinality(Held(e))
          BY <1>t, <1>n, <2>3, <4>1, <4>3, HeldMoves
        <5>2. rx_queue'[Peer(e)] = rx_queue[Peer(e)]
          BY <1>t, <1>p, <2>1, <4>3, Peers DEF Types
        <5> QED BY <1>t, <2>1, <5>1, <5>2 DEF BuffersAccounted
      <4> QED BY <4>2, <4>3
    <3> QED BY <3>1 DEF BuffersAccounted
  <2> QED BY <2>3, <2>4, <2>5 DEF Rest
<1> QED BY <1>1, <1>2, <1>3

(* The interrupt handlers.                                                 *)
LEMMA InterruptStep ==
  ASSUME SnullInv, NEW d \in Devs, snull_napi_interrupt(d) \/ snull_regular_interrupt(d)
  PROVE  Rest'
<1>t. Types /\ Labels /\ BuffersAccounted /\ NapiOK /\ InterruptsComeBack
  BY DEF SnullInv
<1>n. Tx(d) \in Threads
  BY ThreadNames
<1> DEFINE x == Target(d)
<1>x. x \in Devs /\ PoolOf(Tx(d)) = Peer(x) /\ Peer(x) \in Devs
  BY <1>t, PoolOfValue, Peers
<1>a. ASSUME AfterInterrupt(d), pc[Tx(d)] = "interrupt",
             UNCHANGED <<conf, up, stopped, pool, slot, rx_queue, allocated>>
      PROVE  /\ Labels' /\ StoppedQueueHasWaker' /\ BuffersAccounted'
             /\ \A e \in Devs : pc'[Poll(e)] = pc[Poll(e)]
  <2>1. PICK l \in TxLabels, f \in {"rx", "tx", "to"} :
           /\ pc' = [pc EXCEPT ![Tx(d)] = l] /\ phase' = [phase EXCEPT ![d] = f]
           /\ \/ phase[d] = "rx" /\ l = "load" /\ f = "tx"
              \/ phase[d] = "tx" /\ l = "idle" /\ f = "rx"
              \/ phase[d] = "to" /\ l = "reset" /\ f = "to"
    BY <1>t, <1>a, AfterInterruptValue
  <2>2. phase'[d] = f
    BY <1>t, <2>1 DEF Types
  <2>3. /\ Labels' /\ StoppedQueueHasWaker' /\ OthersStay(Tx(d)) /\ pc'[Tx(d)] = l
        /\ \A e \in Devs : pc'[Poll(e)] = pc[Poll(e)]
    BY <1>a, <2>1, <2>2, QuietTx
  <2>4. BuffersAccounted'
    BY <1>t, <1>n, <1>a, <2>1, <2>3, AccountsStay
  <2> QED BY <2>3, <2>4
<1>1. CASE snull_napi_interrupt(d)
  <2>1. /\ AfterInterrupt(d) /\ pc[Tx(d)] = "interrupt" /\ use_napi
        /\ UNCHANGED <<conf, up, stopped, pool, slot, rx_queue, allocated, disabling>>
    BY <1>1 DEF snull_napi_interrupt, bufVars
  <2>2. /\ Labels' /\ StoppedQueueHasWaker' /\ BuffersAccounted'
        /\ \A e \in Devs : pc'[Poll(e)] = pc[Poll(e)]
    BY <1>a, <2>1
  <2>3. NapiOK' /\ InterruptsComeBack'
    <3>1. CASE "RX" \in status[x]
      <4>1. rx_int_enabled' = [rx_int_enabled EXCEPT ![x] = FALSE] /\ napi_schedule(x)
        BY <1>1, <3>1 DEF snull_napi_interrupt
      <4>2. /\ napi' = [napi EXCEPT ![x] = IF @ = "idle" /\ ~disabling[x] THEN "sched" ELSE @]
            /\ deaf' = [deaf EXCEPT ![x] = @ \/ disabling[x] \/ napi[x] = "off"]
        BY <4>1 DEF napi_schedule
      <4>3. ASSUME NEW e \in Devs, e # x
            PROVE  napi'[e] = napi[e] /\ deaf'[e] = deaf[e] /\ rx_int_enabled'[e] = rx_int_enabled[e]
        BY <1>t, <4>1, <4>2, <4>3 DEF Types
      <4>4. /\ napi'[x] = IF napi[x] = "idle" /\ ~disabling[x] THEN "sched" ELSE napi[x]
            /\ ~deaf'[x] => ~disabling[x] /\ napi[x] # "off"
            /\ napi[x] \in {"off", "idle", "sched"}
        BY <1>t, <1>x, <4>2 DEF Types
      <4> HIDE DEF x
      <4>5. NapiOK'
        BY <1>t, <1>x, <2>1, <2>2, <4>3, <4>4 DEF NapiOK, use_napi
      <4>6. InterruptsComeBack'
        BY <1>t, <1>x, <4>3, <4>4 DEF InterruptsComeBack
      <4> QED BY <4>5, <4>6
    <3>2. CASE "RX" \notin status[x]
      <4>1. UNCHANGED <<rx_int_enabled, napi, missed, deaf>>
        BY <1>1, <3>2 DEF snull_napi_interrupt
      <4> QED BY <1>t, <2>1, <2>2, <4>1, NapiStays
    <3> QED BY <3>1, <3>2
  <2> QED BY <2>2, <2>3 DEF Rest
<1>2. CASE snull_regular_interrupt(d)
  <2> DEFINE pkt == "RX" \in status[x] /\ rx_queue[x] > 0
  <2>1. /\ pc[Tx(d)] = "interrupt"
        /\ rx_queue' = [rx_queue EXCEPT ![x] = IF pkt THEN @ - 1 ELSE @]
        /\ UNCHANGED <<conf, up, stopped, pool, slot, allocated, disabling, napi, rx_int_enabled, deaf>>
        /\ IF pkt THEN pc' = [pc EXCEPT ![Tx(d)] = "push"] /\ phase' = phase ELSE AfterInterrupt(d)
    BY <1>2 DEF snull_regular_interrupt, bufVars, napiVars, snull_dequeue_buf, Goto
  <2>2. CASE pkt
    <3>1. pc' = [pc EXCEPT ![Tx(d)] = "push"] /\ phase' = phase
      BY <2>1, <2>2
    <3>2. /\ Labels' /\ StoppedQueueHasWaker' /\ OthersStay(Tx(d)) /\ pc'[Tx(d)] = "push"
          /\ \A e \in Devs : pc'[Poll(e)] = pc[Poll(e)]
      BY <2>1, <3>1, QuietTx DEF TxLabels
    <3>3. NapiOK' /\ InterruptsComeBack'
      BY <1>t, <2>1, <3>2, NapiStays
    <3>4. PoolOf(Tx(d))' = Peer(x)
      <4>1. PoolOf(Tx(d))' = PoolOf(Tx(d))
        BY <3>1 DEF PoolOf, Target
      <4> QED BY <1>x, <4>1
    <3>5. rx_queue[x] \in Nat /\ rx_queue[x] > 0 /\ rx_queue'[x] = rx_queue[x] - 1
      BY <1>t, <1>x, <2>1, <2>2 DEF Types
    <3>6. \A e \in Devs : e # x => rx_queue'[e] = rx_queue[e]
      BY <1>t, <2>1 DEF Types
    <3>7. ASSUME NEW e \in Devs
          PROVE  allocated'[e] = pool'[e] + rx_queue'[Peer(e)] + Cardinality(Held(e)')
      <4>1. Tx(d) \notin Held(e) /\ (Tx(d) \in Held(e)' <=> e = Peer(x))
        BY <1>n, <2>1, <3>2, <3>4 DEF Held
      <4>2. CASE e = Peer(x)
        <5>1. Cardinality(Held(e)') = Cardinality(Held(e)) + 1
          BY <1>t, <1>n, <3>2, <4>1, <4>2, HeldMoves
        <5>2. Peer(e) = x
          BY <1>x, <4>2, Peers
        <5> HIDE DEF x, pkt
        <5> QED BY <1>t, <2>1, <3>5, <5>1, <5>2, Outside
      <4>3. CASE e # Peer(x)
        <5>1. Cardinality(Held(e)') = Cardinality(Held(e))
          BY <1>t, <1>n, <3>2, <4>1, <4>3, HeldMoves
        <5>2. Peer(e) # x /\ Peer(e) \in Devs
          BY <1>x, <4>3, Peers
        <5> HIDE DEF x, pkt
        <5> QED BY <1>t, <2>1, <3>6, <5>1, <5>2 DEF BuffersAccounted
      <4> QED BY <4>2, <4>3
    <3> QED BY <3>2, <3>3, <3>7 DEF Rest, BuffersAccounted
  <2>3. CASE ~pkt
    <3>1. AfterInterrupt(d) /\ rx_queue' = rx_queue
      BY <1>t, <1>x, <2>1, <2>3 DEF Types
    <3> QED BY <1>t, <1>a, <2>1, <3>1, NapiStays DEF Rest
  <2> QED BY <2>2, <2>3
<1> QED BY <1>1, <1>2

(* The reset of the pool: what is outside it stays accounted for.          *)
LEMMA ResetStep ==
  ASSUME SnullInv, NEW d \in Devs, timeout_reset(d)
  PROVE  Rest'
<1>t. /\ Types /\ Labels /\ BuffersAccounted /\ NapiOK /\ InterruptsComeBack
      /\ StoppedQueueHasWaker
  BY DEF SnullInv
<1>n. Tx(d) \in Threads /\ \A e \in Devs : Poll(e) \in Threads /\ Poll(e) # Tx(d)
  BY ThreadNames
<1>1. PICK n \in snull_setup_pool(allocated[d] - pool[d]) :
        /\ pool' = [pool EXCEPT ![d] = n]
        /\ allocated' = [allocated EXCEPT ![d] = allocated[d] - pool[d] + n]
  BY DEF timeout_reset
<1>2. /\ pc[Tx(d)] = "reset" /\ pc' = [pc EXCEPT ![Tx(d)] = "restart"] /\ phase' = phase
      /\ slot' = [t \in Threads |-> IF PoolOf(t) = d /\ slot[t] > 0 THEN Gone ELSE slot[t]]
      /\ UNCHANGED <<conf, up, stopped, rx_queue, rx_int_enabled, napi, disabling, deaf>>
  BY DEF timeout_reset, Goto, devVars, napiVars
<1>3. n \in Nat /\ allocated[d] - pool[d] \in Nat
  BY <1>t, NewPool, Outside
<1>4. phase[d] = "to"
  BY <1>t, <1>2 DEF Labels
<1>5. OthersStay(Tx(d)) /\ pc'[Tx(d)] = "restart"
  BY <1>t, <1>2, TxAlone
<1>6. \A e \in Devs : pc'[Poll(e)] = pc[Poll(e)]
  BY <1>n, <1>5 DEF OthersStay
<1>7. Labels'
  BY <1>t, <1>2, <1>4, LabelsStay DEF TxLabels
<1>8. NapiOK' /\ InterruptsComeBack'
  BY <1>t, <1>2, <1>6, NapiStays
<1>9. BuffersAccounted'
  <2>1. ASSUME NEW e \in Devs
        PROVE  allocated'[e] = pool'[e] + rx_queue'[Peer(e)] + Cardinality(Held(e)')
    <3>1. Tx(d) \notin Held(e)' /\ Tx(d) \notin Held(e)
      BY <1>2, <1>5 DEF Held
    <3>2. Cardinality(Held(e)') = Cardinality(Held(e))
      BY <1>t, <1>n, <1>5, <3>1, HeldMoves
    <3>3. CASE e = d
      <4>1. pool'[e] = n /\ allocated'[e] = allocated[e] - pool[e] + n /\ rx_queue' = rx_queue
        BY <1>t, <1>1, <1>2, <3>3 DEF Types
      <4> QED BY <1>t, <1>3, <3>2, <4>1, Outside
    <3>4. CASE e # d
      <4>1. pool'[e] = pool[e] /\ allocated'[e] = allocated[e] /\ rx_queue' = rx_queue
        BY <1>t, <1>1, <1>2, <3>4 DEF Types
      <4> QED BY <1>t, <3>2, <4>1 DEF BuffersAccounted
    <3> QED BY <3>3, <3>4
  <2> QED BY <2>1 DEF BuffersAccounted
<1>10. StoppedQueueHasWaker'
  <2>1. lockup' = lockup
    BY <1>2 DEF lockup
  <2>2. ASSUME NEW e \in Devs, lockup = 0, up'[e], stopped'[e], pool'[e] > 0
        PROVE  \/ pc'[Tx(e)] # "idle" /\ phase'[e] = "to"
               \/ \E u \in Threads : Waker(e, u)'
    <3>1. CASE e = d
      BY <1>2, <1>4, <1>5, <3>1
    <3>2. CASE e # d
      <4>1. Tx(e) \in Threads /\ Tx(e) # Tx(d)
        BY <3>2, ThreadNames
      <4>2. pc'[Tx(e)] = pc[Tx(e)]
        BY <1>5, <4>1 DEF OthersStay
      <4>3. \A u \in Threads : PoolOf(u) = e => slot'[u] = slot[u]
        BY <1>2, <3>2
      <4>4. pool'[e] = pool[e]
        BY <1>t, <1>1, <3>2 DEF Types
      <4>5. /\ up[e] /\ stopped[e] /\ pool[e] > 0 /\ conf' = conf /\ phase'[e] = phase[e]
            /\ pc[Tx(d)] \notin {"test", "wake"}
        BY <1>2, <2>2, <4>4
      <4> QED BY <1>t, <1>n, <1>5, <2>2, <4>2, <4>3, <4>5, WakersStay
    <3> QED BY <3>1, <3>2
  <2> QED BY <2>1, <2>2, WakersSuffice
<1> QED BY <1>7, <1>8, <1>9, <1>10 DEF Rest

(* The poll.                                                               *)
LEMMA PollingStep ==
  ASSUME SnullInv, NEW d \in Devs, PollStep(d)
  PROVE  Rest'
<1>t. Types /\ Labels /\ BuffersAccounted /\ NapiOK /\ InterruptsComeBack
  BY DEF SnullInv
<1>n. Poll(d) \in Threads /\ \A e \in Devs : e # d => Poll(e) \in Threads /\ Poll(e) # Poll(d)
  BY ThreadNames
<1> USE DEF devVars, napiVars, bufVars, thrVars, Goto
<1>a. ASSUME NEW l \in PollLabels, l # "push", pc' = [pc EXCEPT ![Poll(d)] = l], phase' = phase,
             pc[Poll(d)] \notin {"push", "test", "wake"},
             UNCHANGED <<conf, up, stopped, pool, slot, rx_queue, allocated>>
      PROVE  /\ Labels' /\ StoppedQueueHasWaker' /\ BuffersAccounted'
             /\ pc'[Poll(d)] = l /\ \A e \in Devs : e # d => pc'[Poll(e)] = pc[Poll(e)]
  <2>1. /\ Labels' /\ StoppedQueueHasWaker'
        /\ OthersStay(Poll(d)) /\ pc'[Poll(d)] = l /\ PoolOf(Poll(d))' = Peer(d)
    BY <1>a, QuietPoll
  <2>2. pc[Poll(d)] # "enqueue" /\ l # "enqueue"
    BY <1>t, <1>a DEF Labels, PollLabels
  <2>3. BuffersAccounted'
    BY <1>t, <1>n, <1>a, <2>1, <2>2, AccountsStay
  <2> QED BY <1>n, <2>1, <2>3 DEF OthersStay
<1>1. CASE napi_poll(d)
  <2>1. /\ napi[d] = "sched" /\ pc[Poll(d)] = "idle" /\ pc' = [pc EXCEPT ![Poll(d)] = "loop"]
        /\ phase' = phase
        /\ UNCHANGED <<conf, up, stopped, pool, slot, rx_queue, allocated, rx_int_enabled, napi, disabling, deaf>>
    BY <1>1 DEF napi_poll
  <2>2. /\ Labels' /\ StoppedQueueHasWaker' /\ BuffersAccounted'
        /\ pc'[Poll(d)] = "loop" /\ \A e \in Devs : e # d => pc'[Poll(e)] = pc[Poll(e)]
    BY <1>a, <2>1 DEF PollLabels
  <2>3. NapiOK' /\ InterruptsComeBack'
    BY <1>t, <2>1, <2>2 DEF NapiOK, InterruptsComeBack, use_napi
  <2> QED BY <2>2, <2>3 DEF Rest
<1>2. CASE snull_poll(d)
  <2> DEFINE more == npackets[d] < conf.weight /\ rx_queue[d] > 0
  <2>1. /\ pc[Poll(d)] = "loop" /\ pc' = [pc EXCEPT ![Poll(d)] = IF more THEN "push" ELSE "done"]
        /\ phase' = phase /\ rx_queue' = [rx_queue EXCEPT ![d] = IF more THEN @ - 1 ELSE @]
        /\ UNCHANGED <<conf, up, stopped, pool, slot, allocated, rx_int_enabled, napi, disabling, deaf>>
    BY <1>2 DEF snull_poll, snull_dequeue_buf
  <2>2. CASE ~more
    <3>1. pc' = [pc EXCEPT ![Poll(d)] = "done"] /\ rx_queue' = rx_queue
      BY <1>t, <2>1, <2>2 DEF Types
    <3>2. /\ Labels' /\ StoppedQueueHasWaker' /\ BuffersAccounted'
          /\ pc'[Poll(d)] = "done" /\ \A e \in Devs : e # d => pc'[Poll(e)] = pc[Poll(e)]
      BY <1>a, <2>1, <3>1 DEF PollLabels
    <3>3. NapiOK' /\ InterruptsComeBack'
      BY <1>t, <2>1, <3>2, NapiStays
    <3> QED BY <3>2, <3>3 DEF Rest
  <2>3. CASE more
    <3>1. pc' = [pc EXCEPT ![Poll(d)] = "push"]
      BY <2>1, <2>3
    <3>2. /\ Labels' /\ StoppedQueueHasWaker'
          /\ OthersStay(Poll(d)) /\ pc'[Poll(d)] = "push" /\ PoolOf(Poll(d))' = Peer(d)
      BY <2>1, <3>1, QuietPoll DEF PollLabels
    <3>3. \A e \in Devs : e # d => pc'[Poll(e)] = pc[Poll(e)]
      BY <1>n, <3>2 DEF OthersStay
    <3>4. NapiOK' /\ InterruptsComeBack'
      BY <1>t, <2>1, <3>2, <3>3, NapiStays
    <3>5. rx_queue'[d] = rx_queue[d] - 1 /\ \A e \in Devs : e # d => rx_queue'[e] = rx_queue[e]
      BY <1>t, <2>1, <2>3 DEF Types
    <3>6. ASSUME NEW e \in Devs
          PROVE  allocated'[e] = pool'[e] + rx_queue'[Peer(e)] + Cardinality(Held(e)')
      <4>0. \A c \in Devs : Poll(d) # Tx(c)
        BY ThreadNames
      <4>1. Poll(d) \notin Held(e) /\ (Poll(d) \in Held(e)' <=> e = Peer(d))
        BY <1>n, <2>1, <3>2, <4>0 DEF Held
      <4> HIDE DEF more
      <4>2. CASE e = Peer(d)
        <5>1. Cardinality(Held(e)') = Cardinality(Held(e)) + 1
          BY <1>t, <1>n, <3>2, <4>1, <4>2, HeldMoves
        <5>2. Peer(e) = d
          BY <4>2, Peers
        <5> QED BY <1>t, <2>1, <3>5, <5>1, <5>2, Outside
      <4>3. CASE e # Peer(d)
        <5>1. Cardinality(Held(e)') = Cardinality(Held(e))
          BY <1>t, <1>n, <3>2, <4>1, <4>3, HeldMoves
        <5>2. Peer(e) # d /\ Peer(e) \in Devs
          BY <4>3, Peers
        <5> QED BY <1>t, <2>1, <3>5, <5>1, <5>2 DEF BuffersAccounted
      <4> QED BY <4>2, <4>3
    <3> QED BY <3>2, <3>4, <3>6 DEF Rest, BuffersAccounted
  <2> QED BY <2>2, <2>3
<1>3. CASE poll_complete(d) \/ poll_exhausted(d)
  <2>1. /\ pc[Poll(d)] = "done" /\ pc' = [pc EXCEPT ![Poll(d)] = "idle"] /\ phase' = phase
        /\ UNCHANGED <<conf, up, stopped, pool, slot, rx_queue, allocated, disabling>>
    BY <1>3 DEF poll_complete, poll_exhausted
  <2>2. /\ Labels' /\ StoppedQueueHasWaker' /\ BuffersAccounted'
        /\ pc'[Poll(d)] = "idle" /\ \A e \in Devs : e # d => pc'[Poll(e)] = pc[Poll(e)]
    BY <1>a, <2>1 DEF PollLabels
  <2>3. /\ napi'[d] \in {"idle", "sched"} /\ \A e \in Devs : e # d => napi'[e] = napi[e]
        /\ \A e \in Devs : e # d => deaf'[e] = deaf[e] /\ rx_int_enabled'[e] = rx_int_enabled[e]
        /\ napi'[d] # "sched" => rx_int_enabled'[d] \/ deaf'[d]
    <3>0. napi \in [Devs -> {"off", "idle", "sched"}] /\ deaf \in [Devs -> BOOLEAN]
          /\ rx_int_enabled \in [Devs -> BOOLEAN]
      BY <1>t DEF Types
    <3>1. CASE poll_complete(d)
      BY <3>0, <3>1 DEF poll_complete
    <3>2. CASE poll_exhausted(d)
      BY <3>0, <3>2 DEF poll_exhausted
    <3> QED BY <1>3, <3>1, <3>2
  <2>4. napi[d] = "sched" /\ (up[d] \/ disabling[d]) /\ use_napi
    BY <1>t, <2>1 DEF NapiOK
  <2>5. NapiOK'
    BY <1>t, <2>1, <2>2, <2>3, <2>4 DEF NapiOK, use_napi
  <2>6. InterruptsComeBack'
    BY <1>t, <2>3 DEF InterruptsComeBack
  <2> QED BY <2>2, <2>5, <2>6 DEF Rest
<1> QED BY <1>1, <1>2, <1>3 DEF PollStep

(* snull_release_buffer, by either kind of thread.                         *)
LEMMA GiveBackStep ==
  ASSUME SnullInv, NEW t \in Threads, ReleaseStep(t)
  PROVE  Rest'
<1>t. /\ Types /\ Labels /\ BuffersAccounted /\ NapiOK /\ InterruptsComeBack
      /\ StoppedQueueHasWaker
  BY DEF SnullInv
<1>n. \A e \in Devs : Tx(e) \in Threads /\ Poll(e) \in Threads /\ Tx(e) # Poll(e)
  BY ThreadNames
<1>p. PoolOf(t) \in Devs
  BY <1>t, PoolOfValue
<1> USE DEF devVars, napiVars, bufVars, thrVars, Goto
<1>a. ASSUME NEW l \in {"test", "wake"}, pc[t] \in {"push", "test"},
             pc' = [pc EXCEPT ![t] = l], phase' = phase, stopped' = stopped
      PROVE  /\ Labels' /\ OthersStay(t) /\ pc'[t] = l /\ PoolOf(t)' = PoolOf(t)
             /\ \A e \in Devs : pc[Tx(e)] # "idle" => pc'[Tx(e)] # "idle"
             /\ \A e \in Devs : pc'[Poll(e)] # "idle" => pc[Poll(e)] # "idle"
  <2>1. \A u \in Threads : PoolOf(u)' = PoolOf(u)
    BY <1>a DEF PoolOf, Target
  <2>2. pc'[t] = l /\ \A u \in Threads : u # t => pc'[u] = pc[u]
    BY <1>t, <1>a DEF Types
  <2>3. Labels'
    BY <1>t, <1>n, <1>a, <2>2 DEF Labels, TxLabels, PollLabels
  <2>4. \A e \in Devs : /\ pc[Tx(e)] # "idle" => pc'[Tx(e)] # "idle"
                        /\ pc'[Poll(e)] # "idle" => pc[Poll(e)] # "idle"
    BY <1>n, <1>a, <2>2
  <2> QED BY <2>1, <2>2, <2>3, <2>4 DEF OthersStay
<1>1. CASE release_push(t)
  <2> DEFINE d == PoolOf(t)
  <2>1. /\ pc[t] = "push" /\ pc' = [pc EXCEPT ![t] = "test"] /\ phase' = phase
        /\ pool' = [pool EXCEPT ![d] = pool[d] + 1]
        /\ slot' = [slot EXCEPT ![t] = pool[d] + 1]
        /\ UNCHANGED <<conf, up, stopped, rx_queue, allocated, rx_int_enabled, napi, disabling, deaf>>
    BY <1>1 DEF release_push
  <2>2. /\ Labels' /\ OthersStay(t) /\ pc'[t] = "test" /\ PoolOf(t)' = d
        /\ \A e \in Devs : pc[Tx(e)] # "idle" => pc'[Tx(e)] # "idle"
        /\ \A e \in Devs : pc'[Poll(e)] # "idle" => pc[Poll(e)] # "idle"
    BY <1>a, <2>1
  <2>3. NapiOK' /\ InterruptsComeBack'
    BY <1>t, <2>1, <2>2, NapiStays
  <2>4. /\ pool[d] \in Nat /\ pool'[d] = pool[d] + 1 /\ slot'[t] = pool[d] + 1
        /\ \A e \in Devs : e # d => pool'[e] = pool[e]
        /\ \A u \in Threads : u # t => slot'[u] = slot[u]
    BY <1>t, <1>p, <2>1 DEF Types
  <2>h. \A e \in Devs : t \notin Held(e)' /\ (t \in Held(e) <=> e = d)
    BY <1>p, <2>1, <2>2, ThreadNames DEF Held
  <2> HIDE DEF d
  <2>5. BuffersAccounted'
    <3>1. ASSUME NEW e \in Devs
          PROVE  allocated'[e] = pool'[e] + rx_queue'[Peer(e)] + Cardinality(Held(e)')
      <4>1. CASE e = d
        <5>1. Cardinality(Held(e)') = Cardinality(Held(e)) - 1
          BY <1>t, <2>2, <2>h, <4>1, HeldMoves
        <5>2. pool'[e] = pool[e] + 1 /\ rx_queue' = rx_queue /\ allocated' = allocated
          BY <2>1, <2>4, <4>1
        <5> QED BY <1>t, <5>1, <5>2, Outside
      <4>2. CASE e # d
        <5>1. Cardinality(Held(e)') = Cardinality(Held(e))
          BY <1>t, <2>2, <2>h, <4>2, HeldMoves
        <5> QED BY <1>t, <2>1, <2>4, <4>2, <5>1 DEF BuffersAccounted
      <4> QED BY <4>1, <4>2
    <3> QED BY <3>1 DEF BuffersAccounted
  <2>6. StoppedQueueHasWaker'
    <3>1. lockup' = lockup
      BY <2>1 DEF lockup
    <3>2. ASSUME NEW e \in Devs, lockup = 0, up'[e], stopped'[e], pool'[e] > 0
          PROVE  \/ pc'[Tx(e)] # "idle" /\ phase'[e] = "to"
                 \/ \E u \in Threads : Waker(e, u)'
      <4>1. CASE e = d /\ pool[d] = 0
        <5>1. Waker(e, t)'
          BY <2>2, <2>4, <4>1 DEF Waker
        <5> QED BY <5>1
      <4>2. CASE ~(e = d /\ pool[d] = 0)
        <5>1. pool[e] > 0
          BY <2>4, <3>2, <4>2
        <5>2. /\ up[e] /\ stopped[e] /\ conf' = conf /\ phase'[e] = phase[e]
              /\ pc[t] \notin {"test", "wake"}
          BY <2>1, <3>2
        <5> QED BY <1>t, <2>2, <2>4, <3>2, <5>1, <5>2, WakersStay
      <4> QED BY <4>1, <4>2
    <3> QED BY <3>1, <3>2, WakersSuffice
  <2> QED BY <2>2, <2>3, <2>5, <2>6 DEF Rest
<1>b. ASSUME NEW e \in Devs, lockup = 0, up[e], stopped[e], pool[e] > 0
      PROVE  \/ pc[Tx(e)] # "idle" /\ phase[e] = "to"
             \/ \E u \in Threads : Waker(e, u)
  BY <1>t, <1>b DEF StoppedQueueHasWaker, Waker
<1>2. CASE release_test(t)
  <2>1. /\ pc[t] = "test" /\ slot' = [slot EXCEPT ![t] = 0]
        /\ UNCHANGED <<conf, up, stopped, pool, rx_queue, allocated, rx_int_enabled, napi, disabling, deaf>>
    BY <1>2 DEF release_test
  <2>2. \A u \in Threads : u # t => slot'[u] = slot[u]
    BY <1>t, <2>1 DEF Types
  <2>3. CASE pc' = [pc EXCEPT ![t] = "wake"] /\ phase' = phase
    <3>1. /\ Labels' /\ OthersStay(t) /\ pc'[t] = "wake" /\ PoolOf(t)' = PoolOf(t)
          /\ \A e \in Devs : pc[Tx(e)] # "idle" => pc'[Tx(e)] # "idle"
          /\ \A e \in Devs : pc'[Poll(e)] # "idle" => pc[Poll(e)] # "idle"
      BY <1>a, <2>1, <2>3
    <3>2. NapiOK' /\ InterruptsComeBack'
      BY <1>t, <2>1, <3>1, NapiStays
    <3>3. BuffersAccounted'
      BY <1>t, <2>1, <3>1, AccountsStay
    <3>4. ASSUME NEW e \in Devs, NEW u \in Threads, Waker(e, u) PROVE Waker(e, u)'
      <4>1. CASE u = t
        BY <3>1, <3>4, <4>1 DEF Waker
      <4>2. CASE u # t
        BY <2>2, <3>1, <3>4, <4>2 DEF Waker, OthersStay
      <4> QED BY <4>1, <4>2
    <3>5. lockup' = lockup
      BY <2>1 DEF lockup
    <3>6. StoppedQueueHasWaker'
      <4>1. ASSUME NEW e \in Devs, lockup = 0, up'[e], stopped'[e], pool'[e] > 0
            PROVE  \/ pc'[Tx(e)] # "idle" /\ phase'[e] = "to"
                   \/ \E u \in Threads : Waker(e, u)'
        <5>1. up[e] /\ stopped[e] /\ pool[e] > 0 /\ phase'[e] = phase[e]
          BY <2>1, <2>3, <4>1
        <5> QED BY <1>b, <3>1, <3>4, <4>1, <5>1
      <4> QED BY <3>5, <4>1, WakersSuffice
    <3> QED BY <3>1, <3>2, <3>3, <3>6 DEF Rest
  <2>4. CASE (~stopped[PoolOf(t)] \/ slot[t] # 1) /\ Resume(t)
    <3>1. /\ Labels' /\ OthersStay(t) /\ pc'[t] \notin {"enqueue", "push", "test", "wake"}
          /\ \A e \in Devs : phase[e] = "to" => phase'[e] = "to"
          /\ \A e \in Devs : phase[e] = "to" /\ pc[Tx(e)] # "idle" => pc'[Tx(e)] # "idle"
          /\ \A e \in Devs : pc'[Poll(e)] # "idle" => pc[Poll(e)] # "idle"
      BY <1>t, <2>1, <2>4, ResumeStays
    <3>2. NapiOK' /\ InterruptsComeBack'
      BY <1>t, <2>1, <3>1, NapiStays
    <3>3. BuffersAccounted'
      BY <1>t, <2>1, <3>1, AccountsStay
    <3>4. ASSUME NEW e \in Devs, NEW u \in Threads, Waker(e, u), stopped[e] PROVE Waker(e, u)'
      <4>1. u # t
        BY <2>1, <2>4, <3>4 DEF Waker
      <4> QED BY <2>2, <3>1, <3>4, <4>1 DEF Waker, OthersStay
    <3>5. lockup' = lockup
      BY <2>1 DEF lockup
    <3>6. StoppedQueueHasWaker'
      <4>1. ASSUME NEW e \in Devs, lockup = 0, up'[e], stopped'[e], pool'[e] > 0
            PROVE  \/ pc'[Tx(e)] # "idle" /\ phase'[e] = "to"
                   \/ \E u \in Threads : Waker(e, u)'
        <5>1. up[e] /\ stopped[e] /\ pool[e] > 0
          BY <2>1, <4>1
        <5> QED BY <1>b, <3>1, <3>4, <4>1, <5>1
      <4> QED BY <3>5, <4>1, WakersSuffice
    <3> QED BY <3>1, <3>2, <3>3, <3>6 DEF Rest
  <2> QED BY <1>2, <2>3, <2>4 DEF release_test
<1>3. CASE release_wake(t)
  <2>1. /\ pc[t] = "wake" /\ Resume(t) /\ stopped' = [stopped EXCEPT ![PoolOf(t)] = FALSE]
        /\ UNCHANGED <<conf, up, pool, slot, rx_queue, allocated, rx_int_enabled, napi, disabling, deaf>>
    BY <1>3 DEF release_wake
  <2>2. \A e \in Devs : stopped'[e] => stopped[e] /\ e # PoolOf(t)
    BY <1>t, <2>1 DEF Types
  <2>3. /\ Labels' /\ OthersStay(t) /\ pc'[t] \notin {"enqueue", "push", "test", "wake"}
        /\ \A e \in Devs : phase[e] = "to" => phase'[e] = "to"
        /\ \A e \in Devs : phase[e] = "to" /\ pc[Tx(e)] # "idle" => pc'[Tx(e)] # "idle"
        /\ \A e \in Devs : pc'[Poll(e)] # "idle" => pc[Poll(e)] # "idle"
    BY <1>t, <2>1, <2>2, ResumeStays
  <2>4. NapiOK' /\ InterruptsComeBack'
    BY <1>t, <2>1, <2>3, NapiStays
  <2>5. BuffersAccounted'
    BY <1>t, <2>1, <2>3, AccountsStay
  <2>6. ASSUME NEW e \in Devs, NEW u \in Threads, Waker(e, u), e # PoolOf(t) PROVE Waker(e, u)'
    <3>1. u # t
      BY <2>6 DEF Waker
    <3> QED BY <2>1, <2>3, <2>6, <3>1 DEF Waker, OthersStay
  <2>7. lockup' = lockup
    BY <2>1 DEF lockup
  <2>8. StoppedQueueHasWaker'
    <3>1. ASSUME NEW e \in Devs, lockup = 0, up'[e], stopped'[e], pool'[e] > 0
          PROVE  \/ pc'[Tx(e)] # "idle" /\ phase'[e] = "to"
                 \/ \E u \in Threads : Waker(e, u)'
      <4>1. up[e] /\ stopped[e] /\ pool[e] > 0 /\ e # PoolOf(t)
        BY <2>1, <2>2, <3>1
      <4> QED BY <1>b, <2>3, <2>6, <3>1, <4>1
    <3> QED BY <2>7, <3>1, WakersSuffice
  <2> QED BY <2>3, <2>4, <2>5, <2>8 DEF Rest
<1> QED BY <1>1, <1>2, <1>3 DEF ReleaseStep
-----------------------------------------------------------------------------
(* A step keeps the invariant, one that closes a device too.               *)
LEMMA StepKeeps ==
  ASSUME SnullInv, Next \/ \E d \in Devs : dev_close(d)
  PROVE  SnullInv'
<1>1. Types'
  BY TypesStep
<1>2. Rest'
  BY UpDownStep, SendStep, BufferStep, InterruptStep, ResetStep, PollingStep, GiveBackStep
     DEF Next, TxStep, snull_release
<1> QED BY <1>1, <1>2 DEF Rest, SnullInv

(* So does one of the loader that leaves the interfaces alone.             *)
LEMMA FrameKeeps ==
  ASSUME SnullInv, UNCHANGED vars
  PROVE  SnullInv'
<1> USE DEF vars, devVars, napiVars, bufVars, thrVars
<1>1. Labels' /\ BuffersAccounted' /\ StoppedQueueHasWaker'
  BY NobodyMoves
<1>2. NapiOK' /\ InterruptsComeBack'
  BY NapiStays DEF SnullInv
<1>3. Types'
  BY DEF SnullInv, Types, MaxBuffers
<1> QED BY <1>1, <1>2, <1>3 DEF SnullInv

(* It holds of two fresh interfaces, whatever is in their pools.           *)
LEMMA FreshHolds ==
  ASSUME Fresh, pool \in [Devs -> 0 .. MaxBuffers], allocated = pool
  PROVE  SnullInv
<1>1. /\ use_napi \in BOOLEAN /\ pool_size \in Nat /\ MaxBuffers \in Nat /\ conf.weight \in Nat
  BY Configuration DEF Fresh
<1>2. pool \in [Devs -> Nat]
  BY <1>1
<1>3. Types
  BY <1>1, <1>2 DEF Fresh, Types, Gone, TxLabels, PollLabels
<1>4. Labels /\ NapiOK /\ InterruptsComeBack /\ StoppedQueueHasWaker
  BY <1>1, ThreadNames
  DEF Fresh, Labels, NapiOK, InterruptsComeBack, StoppedQueueHasWaker, TxLabels, PollLabels
<1>5. BuffersAccounted
  <2>1. \A d \in Devs : Held(d) = {}
    BY DEF Fresh, Held
  <2>2. Cardinality({}) = 0
    BY FS_EmptySet
  <2>3. \A d \in Devs : rx_queue[Peer(d)] = 0 /\ allocated[d] = pool[d] /\ pool[d] \in Nat
    BY <1>2, Peers DEF Fresh
  <2> QED BY <2>1, <2>2, <2>3 DEF BuffersAccounted
<1> QED BY <1>3, <1>4, <1>5 DEF SnullInv

(* The inductive invariant of snull holds in every reachable state.        *)
THEOREM SnullCorrect == Spec => []SnullInv
<1>1. Init => SnullInv
  <2> SUFFICES ASSUME Init PROVE SnullInv
    OBVIOUS
  <2>1. pool_size \in Nat /\ MaxBuffers \in Nat
    BY Configuration DEF Init, Fresh
  <2>2. pool \in [Devs -> 0 .. MaxBuffers]
    BY <2>1 DEF Init, snull_setup_pool
  <2> QED BY <2>2, FreshHolds DEF Init
<1>2. SnullInv /\ [Next]_vars => SnullInv'
  BY StepKeeps, FrameKeeps
<1> QED BY <1>1, <1>2, PTL DEF Spec

(* Types, with the bounds: no count of buffers exceeds what was allocated. *)
THEOREM TypeCorrect == Spec => []TypeOK
<1>1. SnullInv => TypeOK
  <2> SUFFICES ASSUME SnullInv PROVE TypeOK
    OBVIOUS
  <2>1. Types /\ BuffersAccounted
    BY DEF SnullInv
  <2>2. \A d \in Devs : pool[d] \in 0 .. MaxBuffers /\ rx_queue[Peer(d)] \in 0 .. MaxBuffers
    BY <2>1, Outside
  <2>3. pool \in [Devs -> 0 .. MaxBuffers] /\ rx_queue \in [Devs -> 0 .. MaxBuffers]
    BY <2>1, <2>2, Peers DEF Types
  <2> QED BY <2>1, <2>3 DEF Types, TypeOK, TxLabels, PollLabels
<1> QED BY <1>1, SnullCorrect, PTL

(* No buffer is lost or given back twice, across resets of the pools.      *)
THEOREM NoBufferLost == Spec => []BuffersAccounted
<1>1. SnullInv => BuffersAccounted
  BY DEF SnullInv
<1> QED BY <1>1, SnullCorrect, PTL

(* Unless interrupts are lost on purpose, a queue stopped with buffers in  *)
(* its pool is about to be woken.                                          *)
THEOREM QueueHasWaker == Spec => []StoppedQueueHasWaker
<1>1. SnullInv => StoppedQueueHasWaker
  BY DEF SnullInv
<1> QED BY <1>1, SnullCorrect, PTL

(* Receive interrupts that were turned off are turned on again by a poll.  *)
THEOREM InterruptsReturn == Spec => []InterruptsComeBack
<1>1. SnullInv => InterruptsComeBack
  BY DEF SnullInv
<1> QED BY <1>1, SnullCorrect, PTL
-----------------------------------------------------------------------------
(***************************************************************************)
(* The life of the module.                                                 *)
(***************************************************************************)
(* Nobody transmits on an interface that is down.                          *)
DownIsQuiet == \A d \in Devs : ~up[d] => pc[Tx(d)] = "idle"

(* An interface that is up is registered; one that goes down is, or is     *)
(* being unregistered.                                                     *)
UpRegistered ==
  \A d \in Devs :
    /\ up[d] => d \in registered
    /\ disabling[d] => d \in registered \/ (lpc = "closing" /\ cur = d)

Removing == {"unregister", "closing", "teardown", "free"}

LoadTypes ==
  /\ first \in Devs /\ cur \in Devs
  /\ present \subseteq Devs /\ registered \subseteq present /\ freed \subseteq Devs
  /\ lpc \in {"alloc", "register", "live", "out"} \cup Removing

(* What is freed, registered and empty at each place of the loader.        *)
Stages ==
  /\ lpc = "alloc" => present = {} /\ cur = first /\ \A d \in Devs : allocated[d] = 0
  /\ lpc = "register" => present = Devs
  /\ lpc \in {"alloc", "register", "live"} => freed = {}
  /\ lpc \in Removing => freed = IF cur = first THEN {} ELSE present \cap {first}
  /\ lpc \in Removing /\ cur = second => first \notin registered
  /\ lpc \in Removing \ {"unregister"} => cur \in present \ registered
  /\ lpc = "out" => freed = present /\ registered = {}
  /\ lpc = "out" \/ (lpc = "free" /\ cur = second) => pool[second] = 0
  /\ \A d \in Devs \ present :
       pool[d] = 0 /\ registered = {} /\ \A e \in Devs : ~up[e] /\ ~disabling[e]

LifeInv == SnullInv /\ DownIsQuiet /\ UpRegistered /\ LoadTypes /\ Stages

(* The two interfaces by their places in snull_devs.                       *)
LEMMA FirstSecond ==
  ASSUME LoadTypes
  PROVE  /\ first \in Devs /\ second \in Devs /\ first # second
         /\ \A d \in Devs : d = first \/ d = second
BY Peers DEF LoadTypes, second

(* The thread that is not idle belongs to an interface that is not down.   *)
LEMMA WhoRuns ==
  ASSUME SnullInv, DownIsQuiet, NEW t \in Threads, pc[t] # "idle"
  PROVE  t[1] \in Devs /\ (up[t[1]] \/ disabling[t[1]])
BY ThreadNames DEF SnullInv, NapiOK, DownIsQuiet

(* A step of a thread moves one label: of a thread that polls, of one that *)
(* is not idle, or of one whose interface is up.                           *)
Moves(t) ==
  /\ \A u \in Threads : u # t => pc'[u] = pc[u]
  /\ t[2] = "poll" \/ pc[t] # "idle" \/ up[t[1]]

(* A step of a thread takes no interface up or down.                       *)
LEMMA ThreadStep ==
  ASSUME SnullInv,
         \/ \E d \in Devs : snull_tx(d) \/ snull_tx_timeout(d) \/ TxStep(d) \/ PollStep(d)
         \/ \E t \in Threads : ReleaseStep(t)
  PROVE  up' = up /\ disabling' = disabling /\ \E t \in Threads : Moves(t)
<1>t. Types
  BY DEF SnullInv
<1>p. pc \in [Threads -> TxLabels \cup PollLabels]
  BY <1>t DEF Types
<1>g. ASSUME NEW t \in Threads, NEW l, Goto(t, l)
      PROVE  \A u \in Threads : u # t => pc'[u] = pc[u]
  BY <1>p, <1>g DEF Goto
<1>i. ASSUME NEW d \in Devs, AfterInterrupt(d)
      PROVE  \A u \in Threads : u # Tx(d) => pc'[u] = pc[u]
  BY <1>p, <1>i DEF AfterInterrupt, Goto
<1> USE ThreadNames DEF devVars, napiVars, bufVars, thrVars
<1>1. ASSUME NEW d \in Devs, snull_tx(d) \/ snull_tx_timeout(d)
      PROVE  up' = up /\ disabling' = disabling /\ Moves(Tx(d))
  BY <1>g, <1>1 DEF snull_tx, snull_tx_timeout, Moves
<1>2. ASSUME NEW d \in Devs, TxStep(d)
      PROVE  up' = up /\ disabling' = disabling /\ Moves(Tx(d))
  <2>1. up' = up /\ disabling' = disabling /\ pc[Tx(d)] # "idle"
    BY <1>2 DEF TxStep, snull_get_tx_buffer, snull_enqueue_buf, hw_tx_check, status_load, status_store,
       hw_tx_lockup, snull_napi_interrupt, snull_regular_interrupt, timeout_reset, timeout_wake
  <2>2. \A u \in Threads : u # Tx(d) => pc'[u] = pc[u]
    <3>1. CASE \/ snull_enqueue_buf(d) \/ hw_tx_check(d) \/ status_load(d)
               \/ timeout_reset(d) \/ timeout_wake(d)
      BY <1>g, <3>1 DEF snull_enqueue_buf, hw_tx_check, status_load, timeout_reset, timeout_wake
    <3>2. CASE snull_get_tx_buffer(d)
      BY <1>g, <3>2 DEF snull_get_tx_buffer
    <3>3. CASE status_store(d)
      BY <1>p, <3>3 DEF status_store, Goto
    <3>4. CASE hw_tx_lockup(d)
      BY <1>p, <3>4 DEF hw_tx_lockup, Goto
    <3>5. CASE snull_napi_interrupt(d)
      BY <1>i, <3>5 DEF snull_napi_interrupt
    <3>6. CASE snull_regular_interrupt(d)
      BY <1>g, <1>i, <3>6 DEF snull_regular_interrupt
    <3> QED BY <1>2, <3>1, <3>2, <3>3, <3>4, <3>5, <3>6 DEF TxStep
  <2> QED BY <2>1, <2>2 DEF Moves
<1>3. ASSUME NEW d \in Devs, PollStep(d)
      PROVE  up' = up /\ disabling' = disabling /\ Moves(Poll(d))
  <2>1. up' = up /\ disabling' = disabling
    BY <1>3 DEF PollStep, napi_poll, snull_poll, poll_complete, poll_exhausted
  <2>2. \A u \in Threads : u # Poll(d) => pc'[u] = pc[u]
    BY <1>p, <1>3 DEF PollStep, napi_poll, snull_poll, poll_complete, poll_exhausted, Goto
  <2> QED BY <2>1, <2>2 DEF Moves
<1>4. ASSUME NEW t \in Threads, ReleaseStep(t)
      PROVE  up' = up /\ disabling' = disabling /\ Moves(t)
  <2>1. up' = up /\ disabling' = disabling /\ pc[t] # "idle"
    BY <1>4 DEF ReleaseStep, release_push, release_test, release_wake
  <2>2. ASSUME Resume(t) PROVE \A u \in Threads : u # t => pc'[u] = pc[u]
    BY <1>g, <1>i, <2>2 DEF Resume
  <2>3. \A u \in Threads : u # t => pc'[u] = pc[u]
    <3>1. CASE release_push(t)
      BY <1>g, <3>1 DEF release_push
    <3>2. CASE release_test(t)
      BY <1>g, <2>2, <3>2 DEF release_test
    <3>3. CASE release_wake(t)
      BY <2>2, <3>3 DEF release_wake
    <3> QED BY <1>4, <3>1, <3>2, <3>3 DEF ReleaseStep
  <2> QED BY <2>1, <2>3 DEF Moves
<1> QED BY <1>1, <1>2, <1>3, <1>4

(* The traffic takes up only what is registered.                           *)
LEMMA TrafficFrame ==
  ASSUME SnullInv, DownIsQuiet, Traffic
  PROVE  /\ DownIsQuiet'
         /\ \A d \in Devs : /\ up'[d] => up[d] \/ d \in registered
                            /\ disabling'[d] => disabling[d] \/ up[d]
<1>t. Types
  BY DEF SnullInv
<1> USE ThreadNames DEF devVars, napiVars, bufVars, thrVars
<1>1. ASSUME NEW d \in Devs, d \in registered, snull_open(d)
      PROVE  /\ DownIsQuiet'
             /\ \A e \in Devs : /\ up'[e] => up[e] \/ e \in registered
                                /\ disabling'[e] => disabling[e] \/ up[e]
  BY <1>t, <1>1 DEF snull_open, Types, DownIsQuiet
<1>2. ASSUME NEW d \in Devs, snull_release(d)
      PROVE  /\ DownIsQuiet'
             /\ \A e \in Devs : /\ up'[e] => up[e] \/ e \in registered
                                /\ disabling'[e] => disabling[e] \/ up[e]
  BY <1>t, <1>2 DEF snull_release, dev_close, Types, DownIsQuiet
<1>3. ASSUME NEW d \in Devs, napi_disabled(d)
      PROVE  /\ DownIsQuiet'
             /\ \A e \in Devs : /\ up'[e] => up[e] \/ e \in registered
                                /\ disabling'[e] => disabling[e] \/ up[e]
  BY <1>t, <1>3 DEF napi_disabled, Types, DownIsQuiet
<1>4. ASSUME \/ \E d \in Devs : snull_tx(d) \/ snull_tx_timeout(d) \/ TxStep(d) \/ PollStep(d)
             \/ \E t \in Threads : ReleaseStep(t)
      PROVE  /\ DownIsQuiet'
             /\ \A e \in Devs : /\ up'[e] => up[e] \/ e \in registered
                                /\ disabling'[e] => disabling[e] \/ up[e]
  <2>1. up' = up /\ disabling' = disabling
    BY <1>4, ThreadStep
  <2>2. PICK t \in Threads : Moves(t)
    BY <1>4, ThreadStep
  <2>3. DownIsQuiet'
    BY <2>1, <2>2 DEF Moves, DownIsQuiet
  <2> QED BY <2>1, <2>3
<1> QED BY <1>1, <1>2, <1>3, <1>4 DEF Traffic

(* With nothing registered and nothing on its way down there is none.      *)
LEMMA NoTraffic ==
  ASSUME SnullInv, DownIsQuiet, registered = {}, \A d \in Devs : ~up[d] /\ ~disabling[d]
  PROVE  ~Traffic
<1>1. \A t \in Threads : pc[t] = "idle"
  BY WhoRuns
<1>2. \A d \in Devs : pc[Tx(d)] = "idle" /\ pc[Poll(d)] = "idle" /\ napi[d] = "off"
  BY <1>1, ThreadNames DEF SnullInv, NapiOK
<1>3. \A d \in Devs : ~napi_disabled(d) /\ ~snull_tx(d) /\ ~snull_tx_timeout(d)
  BY DEF napi_disabled, snull_tx, snull_tx_timeout
<1>4. \A d \in Devs : ~TxStep(d)
  BY <1>2 DEF TxStep, snull_get_tx_buffer, snull_enqueue_buf, hw_tx_check, status_load, status_store,
     hw_tx_lockup, snull_napi_interrupt, snull_regular_interrupt, timeout_reset, timeout_wake
<1>5. \A d \in Devs : ~PollStep(d)
  BY <1>2 DEF PollStep, napi_poll, snull_poll, poll_complete, poll_exhausted
<1>6. \A t \in Threads : ~ReleaseStep(t)
  BY <1>1 DEF ReleaseStep, release_push, release_test, release_wake
<1> QED BY <1>3, <1>4, <1>5, <1>6 DEF Traffic

(* Traffic keeps the invariant.                                            *)
LEMMA TrafficKeeps == LifeInv /\ Traffic => LifeInv'
<1> SUFFICES ASSUME LifeInv, Traffic PROVE LifeInv'
  OBVIOUS
<1>1. SnullInv /\ DownIsQuiet /\ UpRegistered /\ LoadTypes /\ Stages /\ UNCHANGED lvars
  BY DEF LifeInv, Traffic
<1>2. Next
  BY DEF Traffic, Next
<1>3. SnullInv'
  BY <1>1, <1>2, StepKeeps
<1>4. /\ DownIsQuiet'
      /\ \A d \in Devs : /\ up'[d] => up[d] \/ d \in registered
                         /\ disabling'[d] => disabling[d] \/ up[d]
  BY <1>1, TrafficFrame
<1>5. UpRegistered' /\ LoadTypes'
  BY <1>1, <1>4 DEF UpRegistered, LoadTypes, lvars
<1>6. ~(registered = {} /\ \A d \in Devs : ~up[d] /\ ~disabling[d])
  BY <1>1, NoTraffic
<1>7. registered # {} \/ lpc = "closing"
  BY <1>1, <1>6 DEF UpRegistered
<1>8. lpc # "alloc" /\ lpc # "out"
  BY <1>1, <1>7 DEF Stages, LoadTypes
<1>9. ~(lpc = "free" /\ cur = second)
  <2> SUFFICES ASSUME lpc = "free", cur = second PROVE FALSE
    OBVIOUS
  <2>1. first \notin registered /\ second \notin registered
    BY <1>1 DEF Stages, Removing
  <2>2. registered = {}
    BY <1>1, <2>1, FirstSecond DEF LoadTypes
  <2> QED BY <1>7, <2>2
<1>10. present = Devs
  BY <1>1, <1>6 DEF Stages, LoadTypes
<1>11. Stages'
  BY <1>1, <1>8, <1>9, <1>10 DEF Stages, lvars, second
<1> QED BY <1>1, <1>3, <1>4, <1>5, <1>11 DEF LifeInv

(* snull_teardown_pool keeps the accounts.                                 *)
LEMMA TeardownKeeps ==
  ASSUME SnullInv, LoadTypes, snull_teardown_pool
  PROVE  SnullInv'
<1>t. /\ Types /\ Labels /\ BuffersAccounted /\ NapiOK /\ InterruptsComeBack
      /\ StoppedQueueHasWaker /\ cur \in Devs
  BY DEF SnullInv, LoadTypes
<1>1. /\ pool' = [pool EXCEPT ![cur] = 0]
      /\ allocated' = [allocated EXCEPT ![cur] = allocated[cur] - pool[cur]]
      /\ slot' = [t \in Threads |-> IF PoolOf(t) = cur /\ slot[t] > 0 THEN Gone ELSE slot[t]]
      /\ UNCHANGED <<conf, up, stopped, rx_queue, rx_int_enabled, status, skb, locked, tx_packets,
                     napi, disabling, missed, npackets, deaf, pc, phase, seen>>
  BY DEF snull_teardown_pool, devVars, napiVars, thrVars
<1>2. \A u \in Threads : PoolOf(u)' = PoolOf(u)
  BY <1>1 DEF PoolOf, Target
<1>3. Types'
  <2>1. slot' \in [Threads -> Gone .. MaxBuffers]
    BY <1>t, <1>1, SlotLost
  <2>2. allocated[cur] - pool[cur] \in 0 .. MaxBuffers
    BY <1>t, Outside
  <2>3. pool' \in [Devs -> Nat] /\ allocated' \in [Devs -> 0 .. MaxBuffers]
    BY <1>t, <1>1, <2>2 DEF Types
  <2> QED BY <1>t, <1>1, <2>1, <2>3 DEF Types, MaxBuffers
<1>4. Labels' /\ NapiOK' /\ InterruptsComeBack'
  BY <1>t, <1>1 DEF Labels, NapiOK, InterruptsComeBack, use_napi
<1>5. BuffersAccounted'
  <2>1. ASSUME NEW d \in Devs
        PROVE  allocated'[d] = pool'[d] + rx_queue'[Peer(d)] + Cardinality(Held(d)')
    <3>1. Held(d)' = Held(d)
      BY <1>1, <1>2 DEF Held
    <3>2. CASE d = cur
      <4>1. allocated'[d] = allocated[d] - pool[d] /\ pool'[d] = 0
        BY <1>t, <1>1, <3>2 DEF Types
      <4> QED BY <1>t, <1>1, <3>1, <4>1, Outside
    <3>3. CASE d # cur
      <4>1. allocated'[d] = allocated[d] /\ pool'[d] = pool[d]
        BY <1>t, <1>1, <3>3 DEF Types
      <4> QED BY <1>t, <1>1, <3>1, <4>1 DEF BuffersAccounted
    <3> QED BY <3>2, <3>3
  <2> QED BY <2>1 DEF BuffersAccounted
<1>6. StoppedQueueHasWaker'
  <2>1. lockup' = lockup
    BY <1>1 DEF lockup
  <2>2. ASSUME NEW e \in Devs, lockup = 0, up'[e], stopped'[e], pool'[e] > 0
        PROVE  \/ pc'[Tx(e)] # "idle" /\ phase'[e] = "to"
               \/ \E u \in Threads : Waker(e, u)'
    <3>1. e # cur /\ pool[e] > 0 /\ up[e] /\ stopped[e]
      BY <1>t, <1>1, <2>2 DEF Types
    <3>2. \/ pc[Tx(e)] # "idle" /\ phase[e] = "to"
          \/ \E u \in Threads : Waker(e, u)
      BY <1>t, <2>2, <3>1 DEF StoppedQueueHasWaker, Waker
    <3>3. \A u \in Threads : Waker(e, u) => Waker(e, u)'
      BY <1>t, <1>1, <1>2, <3>1 DEF Waker
    <3> QED BY <1>1, <3>2, <3>3
  <2> QED BY <2>1, <2>2, WakersSuffice
<1> QED BY <1>3, <1>4, <1>5, <1>6 DEF SnullInv

(* Allocating the interfaces gives them pools.                             *)
LEMMA AllocKeeps ==
  ASSUME LifeInv, alloc_netdev
  PROVE  SnullInv'
<1>t. /\ Types /\ Labels /\ BuffersAccounted /\ NapiOK /\ InterruptsComeBack
      /\ DownIsQuiet /\ lpc = "alloc" /\ present = {}
      /\ \A d \in Devs : allocated[d] = 0 /\ ~up[d] /\ ~disabling[d]
  BY Peers DEF LifeInv, SnullInv, Stages, LoadTypes, alloc_netdev
<1>1. /\ pool' \in [Devs -> snull_setup_pool(0) \cup {0}] /\ allocated' = pool'
      /\ UNCHANGED <<conf, up, stopped, rx_queue, rx_int_enabled, status, skb, locked, tx_packets,
                     napi, disabling, missed, npackets, deaf, pc, phase, seen, slot>>
  BY DEF alloc_netdev, devVars, napiVars, thrVars
<1>2. pool' \in [Devs -> 0 .. MaxBuffers] /\ MaxBuffers \in Nat
  BY <1>t, <1>1, Configuration DEF Types, snull_setup_pool
<1>3. Types'
  BY <1>t, <1>1, <1>2 DEF Types, MaxBuffers
<1>4. Labels' /\ NapiOK' /\ InterruptsComeBack'
  BY <1>t, <1>1 DEF Labels, NapiOK, InterruptsComeBack, use_napi
<1>5. BuffersAccounted'
  <2>1. ASSUME NEW d \in Devs
        PROVE  allocated'[d] = pool'[d] + rx_queue'[Peer(d)] + Cardinality(Held(d)')
    <3>1. Held(d)' = Held(d)
      BY <1>1 DEF Held, PoolOf, Target
    <3>2. rx_queue[Peer(d)] = 0 /\ Cardinality(Held(d)) = 0
      BY <1>t, Outside
    <3>3. allocated'[d] = pool'[d] /\ pool'[d] \in Nat
      BY <1>1, <1>2
    <3> QED BY <1>1, <3>1, <3>2, <3>3
  <2> QED BY <2>1 DEF BuffersAccounted
<1>6. StoppedQueueHasWaker'
  BY <1>t, <1>1 DEF StoppedQueueHasWaker
<1> QED BY <1>3, <1>4, <1>5, <1>6 DEF SnullInv

(* The loader keeps the invariant.                                         *)
LEMMA LoaderKeeps == LifeInv /\ Loading => LifeInv'
<1> SUFFICES ASSUME LifeInv, Loading PROVE LifeInv'
  OBVIOUS
<1>t. SnullInv /\ DownIsQuiet /\ UpRegistered /\ LoadTypes /\ Stages
  BY DEF LifeInv
<1>d. /\ first \in Devs /\ second \in Devs /\ first # second
      /\ \A d \in Devs : d = first \/ d = second
  BY <1>t, FirstSecond
<1>f. ASSUME UNCHANGED vars
      PROVE  /\ SnullInv' /\ DownIsQuiet'
             /\ UNCHANGED <<up, disabling, pool, allocated>>
  BY <1>t, <1>f, FrameKeeps DEF DownIsQuiet, vars, devVars, napiVars, bufVars, thrVars
<1> USE DEF LoadTypes, Removing
<1>1. CASE alloc_netdev
  <2>1. SnullInv'
    BY <1>1, AllocKeeps
  <2>2. /\ lpc = "alloc" /\ lpc' \in {"register", "unregister"}
        /\ present' \subseteq Devs /\ (lpc' = "register" => present' = Devs)
        /\ pool' \in [Devs -> snull_setup_pool(0) \cup {0}]
        /\ \A d \in Devs : d \notin present' => pool'[d] = 0
        /\ UNCHANGED <<up, disabling, pc, first, registered, freed, cur>>
    BY <1>1 DEF alloc_netdev, devVars, napiVars, thrVars
  <2>3. present = {} /\ registered = {} /\ freed = {} /\ cur = first
    BY <1>t, <2>2 DEF Stages
  <2>4. \A d \in Devs : ~up[d] /\ ~disabling[d]
    BY <1>t, <2>2, <2>3 DEF UpRegistered
  <2>5. DownIsQuiet' /\ UpRegistered' /\ LoadTypes'
    BY <1>t, <2>2, <2>3, <2>4 DEF DownIsQuiet, UpRegistered
  <2>6. Stages'
    BY <1>d, <2>2, <2>3, <2>4 DEF Stages, second
  <2> QED BY <2>1, <2>5, <2>6 DEF LifeInv
<1>2. CASE register_netdev
  <2>1. /\ lpc = "register" /\ UNCHANGED <<vars, first, present, freed>>
        /\ registered' = registered \cup {cur} \/ registered' = registered
        /\ \/ lpc' = "register" /\ cur' = second
           \/ lpc' = "unregister" /\ registered' = {} /\ cur' = first
           \/ lpc' = "live" /\ cur' = second
    BY <1>d, <1>t, <1>2 DEF register_netdev
  <2>2. SnullInv' /\ DownIsQuiet' /\ UNCHANGED <<up, disabling, pool, allocated>>
    BY <1>f, <2>1
  <2>3. present = Devs /\ freed = {}
    BY <1>t, <2>1 DEF Stages
  <2>4. UpRegistered' /\ LoadTypes'
    BY <1>t, <1>d, <2>1, <2>2, <2>3 DEF UpRegistered
  <2>5. Stages'
    BY <1>t, <1>d, <2>1, <2>2, <2>3 DEF Stages, second
  <2> QED BY <2>2, <2>4, <2>5 DEF LifeInv
<1>3. CASE rmmod
  <2>1. /\ lpc = "live" /\ lpc' = "unregister" /\ cur' = first
        /\ UNCHANGED <<vars, first, present, registered, freed>>
    BY <1>3 DEF rmmod
  <2>2. SnullInv' /\ DownIsQuiet' /\ UNCHANGED <<up, disabling, pool, allocated>>
    BY <1>f, <2>1
  <2>3. UpRegistered' /\ LoadTypes'
    BY <1>t, <2>1, <2>2 DEF UpRegistered
  <2>4. Stages'
    BY <1>t, <1>d, <2>1, <2>2 DEF Stages, second
  <2> QED BY <2>2, <2>3, <2>4 DEF LifeInv
<1>n. ASSUME NextTurn
      PROVE  \/ cur = first /\ lpc' = "unregister" /\ cur' = second
             \/ cur = second /\ lpc' = "out" /\ cur' = cur
  BY <1>t, <1>d, <1>n DEF NextTurn
<1>4. CASE absent
  <2>1. /\ lpc = "unregister" /\ cur \notin present
        /\ \/ cur = first /\ lpc' = "unregister" /\ cur' = second
           \/ cur = second /\ lpc' = "out" /\ cur' = cur
        /\ UNCHANGED <<vars, first, present, registered, freed>>
    BY <1>4, <1>n DEF absent
  <2>2. SnullInv' /\ DownIsQuiet' /\ UNCHANGED <<up, disabling, pool, allocated>>
    BY <1>f, <2>1
  <2>3. UpRegistered' /\ LoadTypes'
    BY <1>t, <1>d, <2>1, <2>2 DEF UpRegistered
  <2>4. registered = {} /\ pool[cur] = 0
    BY <1>t, <2>1 DEF Stages
  <2>5. lpc' = "out" => freed = present
    BY <1>t, <1>d, <2>1 DEF Stages
  <2>6. Stages'
    BY <1>t, <1>d, <2>1, <2>2, <2>4, <2>5 DEF Stages, second
  <2> QED BY <2>2, <2>3, <2>6 DEF LifeInv
<1>5. CASE unregister_down
  <2>1. /\ lpc = "unregister" /\ cur \in present /\ ~up[cur] /\ ~disabling[cur]
        /\ registered' = registered \ {cur} /\ lpc' = "teardown"
        /\ UNCHANGED <<vars, first, present, freed, cur>>
    BY <1>5 DEF unregister_down
  <2>2. SnullInv' /\ DownIsQuiet' /\ UNCHANGED <<up, disabling, pool, allocated>>
    BY <1>f, <2>1
  <2>3. UpRegistered' /\ LoadTypes'
    BY <1>t, <2>1, <2>2 DEF UpRegistered
  <2>4. Stages'
    BY <1>t, <1>d, <2>1, <2>2 DEF Stages, second
  <2> QED BY <2>2, <2>3, <2>4 DEF LifeInv
<1>6. CASE unregister_up
  <2>1. /\ lpc = "unregister" /\ cur \in present /\ dev_close(cur)
        /\ registered' = registered \ {cur} /\ lpc' = "closing"
        /\ UNCHANGED <<first, present, freed, cur>>
    BY <1>6 DEF unregister_up
  <2>2. /\ up[cur] /\ pc[Tx(cur)] = "idle" /\ up' = [up EXCEPT ![cur] = FALSE]
        /\ disabling' = [disabling EXCEPT ![cur] = use_napi] /\ UNCHANGED <<pc, pool, allocated>>
    BY <2>1 DEF dev_close, bufVars, thrVars
  <2>3. SnullInv'
    BY <1>t, <2>1, StepKeeps
  <2>4. /\ ~up'[cur] /\ \A d \in Devs : d # cur => up'[d] = up[d] /\ disabling'[d] = disabling[d]
    BY <1>t, <2>2 DEF SnullInv, Types
  <2>5. DownIsQuiet' /\ UpRegistered' /\ LoadTypes'
    BY <1>t, <2>1, <2>2, <2>4 DEF DownIsQuiet, UpRegistered
  <2>6. present = Devs
    BY <1>t, <2>2 DEF Stages
  <2>7. Stages'
    BY <1>t, <1>d, <2>1, <2>2, <2>6 DEF Stages, second
  <2> QED BY <2>3, <2>5, <2>7 DEF LifeInv
<1>7. CASE unregister_end
  <2>1. /\ lpc = "closing" /\ ~disabling[cur] /\ lpc' = "teardown"
        /\ UNCHANGED <<vars, first, present, registered, freed, cur>>
    BY <1>7 DEF unregister_end
  <2>2. SnullInv' /\ DownIsQuiet' /\ UNCHANGED <<up, disabling, pool, allocated>>
    BY <1>f, <2>1
  <2>3. UpRegistered' /\ LoadTypes'
    BY <1>t, <2>1, <2>2 DEF UpRegistered
  <2>4. Stages'
    BY <1>t, <1>d, <2>1, <2>2 DEF Stages, second
  <2> QED BY <2>2, <2>3, <2>4 DEF LifeInv
<1>8. CASE snull_teardown_pool
  <2>1. /\ lpc = "teardown" /\ lpc' = "free" /\ pool' = [pool EXCEPT ![cur] = 0]
        /\ UNCHANGED <<up, disabling, pc, first, present, registered, freed, cur>>
    BY <1>8 DEF snull_teardown_pool, devVars, napiVars, thrVars
  <2>2. SnullInv'
    BY <1>t, <1>8, TeardownKeeps
  <2>3. DownIsQuiet' /\ UpRegistered' /\ LoadTypes'
    BY <1>t, <2>1 DEF DownIsQuiet, UpRegistered
  <2>4. pool'[cur] = 0 /\ \A d \in Devs : d # cur => pool'[d] = pool[d]
    BY <1>t, <2>1 DEF SnullInv, Types
  <2>5. Stages'
    BY <1>t, <1>d, <2>1, <2>4 DEF Stages, second
  <2> QED BY <2>2, <2>3, <2>5 DEF LifeInv
<1>9. CASE free_netdev
  <2>1. /\ lpc = "free" /\ freed' = freed \cup {cur}
        /\ \/ cur = first /\ lpc' = "unregister" /\ cur' = second
           \/ cur = second /\ lpc' = "out" /\ cur' = cur
        /\ UNCHANGED <<vars, first, present, registered>>
    BY <1>9, <1>n DEF free_netdev
  <2>2. SnullInv' /\ DownIsQuiet' /\ UNCHANGED <<up, disabling, pool, allocated>>
    BY <1>f, <2>1
  <2>3. UpRegistered' /\ LoadTypes'
    BY <1>t, <1>d, <2>1, <2>2 DEF UpRegistered
  <2>4. cur \in present /\ cur \notin registered
    BY <1>t, <2>1 DEF Stages
  <2>5. lpc' = "out" => registered = {} /\ freed' = present
    BY <1>t, <1>d, <2>1, <2>4 DEF Stages
  <2>6. Stages'
    BY <1>t, <1>d, <2>1, <2>2, <2>4, <2>5 DEF Stages, second
  <2> QED BY <2>2, <2>3, <2>6 DEF LifeInv
<1> QED BY <1>1, <1>2, <1>3, <1>4, <1>5, <1>6, <1>7, <1>8, <1>9 DEF Loading

(* The invariant of the traffic and of the loader holds from the load of   *)
(* the module to its removal.                                              *)
THEOREM LifeCorrect == LoadSpec => []LifeInv
<1>1. LoadInit => LifeInv
  <2> SUFFICES ASSUME LoadInit PROVE LifeInv
    OBVIOUS
  <2>1. MaxBuffers \in Nat
    BY Configuration DEF LoadInit, Fresh
  <2>2. SnullInv
    BY <2>1, FreshHolds DEF LoadInit
  <2>3. DownIsQuiet /\ UpRegistered
    BY ThreadNames DEF LoadInit, Fresh, DownIsQuiet, UpRegistered
  <2>4. LoadTypes /\ Stages
    BY DEF LoadInit, Fresh, LoadTypes, Stages, Removing
  <2> QED BY <2>2, <2>3, <2>4 DEF LifeInv
<1>2. LifeInv /\ UNCHANGED allvars => LifeInv'
  <2> SUFFICES ASSUME LifeInv, UNCHANGED allvars PROVE LifeInv'
    OBVIOUS
  <2>1. SnullInv'
    BY FrameKeeps DEF LifeInv, allvars
  <2>2. DownIsQuiet' /\ UpRegistered' /\ LoadTypes' /\ Stages'
    BY DEF LifeInv, allvars, vars, lvars, devVars, napiVars, bufVars, thrVars, DownIsQuiet,
       UpRegistered, LoadTypes, Stages, second
  <2> QED BY <2>1, <2>2 DEF LifeInv
<1>3. LifeInv /\ [LoadNext]_allvars => LifeInv'
  BY <1>2, TrafficKeeps, LoaderKeeps DEF LoadNext
<1> QED BY <1>1, <1>3, PTL DEF LoadSpec

(* What is promised of the traffic holds while the module is loaded and    *)
(* unloaded under it.                                                      *)
THEOREM TrafficThroughLife ==
  LoadSpec => [](BuffersAccounted /\ StoppedQueueHasWaker /\ InterruptsComeBack)
<1>1. LifeInv => BuffersAccounted /\ StoppedQueueHasWaker /\ InterruptsComeBack
  BY DEF LifeInv, SnullInv
<1> QED BY <1>1, LifeCorrect, PTL

(* Only the traffic of the second interface, after snull_remove_device has *)
(* freed the first and before it has unregistered the second, can reach    *)
(* freed memory.                                                           *)
THEOREM OnlySecondReachesFreed == LoadSpec => []FreedUnused
<1>1. LifeInv => FreedUnused
  <2> SUFFICES ASSUME LifeInv, NEW t \in Threads, pc[t] # "idle", Touched(t) \in freed
               PROVE  /\ t[1] = second /\ Touched(t) = first
                      /\ cur = second /\ lpc \in {"unregister", "closing"}
    BY DEF FreedUnused
  <2>1. SnullInv /\ DownIsQuiet /\ UpRegistered /\ LoadTypes /\ Stages
    BY DEF LifeInv
  <2>2. /\ first \in Devs /\ second \in Devs /\ first # second
        /\ \A d \in Devs : d = first \/ d = second
    BY <2>1, FirstSecond
  <2>3. t[1] \in Devs /\ (up[t[1]] \/ disabling[t[1]])
    BY <2>1, WhoRuns
  <2>4. t[1] \in registered \/ (lpc = "closing" /\ cur = t[1])
    BY <2>1, <2>3 DEF UpRegistered
  <2>5. lpc \in Removing /\ cur = second /\ freed \subseteq {first}
    BY <2>1, <2>2, <2>4 DEF Stages, LoadTypes
  <2>6. first \notin registered /\ (lpc # "unregister" => second \notin registered)
    BY <2>1, <2>5 DEF Stages
  <2> QED BY <2>2, <2>3, <2>4, <2>5, <2>6 DEF Removing
<1> QED BY <1>1, LifeCorrect, PTL

(* A module that is out has nothing registered or running and has freed    *)
(* its interfaces; the packet buffers it leaks are those on a receive list *)
(* and those given back to the first interface after its teardown.         *)
THEOREM UnloadLeaves == LoadSpec => []UnloadGivesBack
<1>1. LifeInv => UnloadGivesBack
  <2> SUFFICES ASSUME LifeInv, lpc = "out"
               PROVE  /\ freed = present /\ registered = {} /\ \A t \in Threads : pc[t] = "idle"
                      /\ \A d \in Devs :
                           allocated[d] = rx_queue[Peer(d)] + (IF d = first THEN pool[d] ELSE 0)
    BY DEF UnloadGivesBack
  <2>1. SnullInv /\ DownIsQuiet /\ UpRegistered /\ LoadTypes /\ Stages
    BY DEF LifeInv
  <2>2. freed = present /\ registered = {} /\ pool[second] = 0
    BY <2>1 DEF Stages
  <2>3. \A t \in Threads : pc[t] = "idle"
    BY <2>1, <2>2, WhoRuns DEF UpRegistered
  <2>4. ASSUME NEW d \in Devs
        PROVE  allocated[d] = rx_queue[Peer(d)] + (IF d = first THEN pool[d] ELSE 0)
    <3>1. Held(d) = {}
      BY <2>3 DEF Held
    <3>2. Cardinality(Held(d)) = 0
      BY <3>1, FS_EmptySet
    <3>3. /\ allocated[d] = pool[d] + rx_queue[Peer(d)] + Cardinality(Held(d))
          /\ pool[d] \in Nat /\ rx_queue[Peer(d)] \in Nat
      BY <2>1, Outside DEF SnullInv
    <3>4. d # first => pool[d] = 0
      BY <2>1, <2>2, FirstSecond
    <3> QED BY <3>2, <3>3, <3>4
  <2> QED BY <2>2, <2>3, <2>4
<1> QED BY <1>1, LifeCorrect, PTL
=============================================================================
