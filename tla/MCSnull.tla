------------------------------- MODULE MCSnull -------------------------------
(* Ways to load and use a pair of interfaces, for TLC.  AllConfs is closed *)
(* under exchanging the two devices, so that Symmetric is sound for it.    *)
EXTENDS Snull, TLC

Symmetric == Permutations(Devs)

(* NAPI with traffic in both directions; nothing fails. *)
TwoWay ==
  [use_napi |-> TRUE, lockup |-> 0, pool_size |-> 2, weight |-> 1, max_buffers |-> 2,
   senders |-> Devs, closable |-> {}, kmalloc_fails |-> FALSE]

(* One packet per interrupt; devices go down and allocations fail. *)
Regular ==
  [TwoWay EXCEPT !.use_napi = FALSE, !.max_buffers = 3, !.closable = Devs,
                 !.kmalloc_fails = TRUE]

(* NAPI with traffic from d only; devices go down and allocations fail. *)
OneWay(d) ==
  [TwoWay EXCEPT !.weight = 2, !.max_buffers = 3, !.senders = {d}, !.closable = Devs,
                 !.kmalloc_fails = TRUE]

AllConfs == {TwoWay, Regular} \cup {OneWay(d) : d \in Devs}

(* Every second transmit interrupt is lost, with and without NAPI. *)
LossyConfs ==
  {[OneWay(d) EXCEPT !.lockup = 2, !.use_napi = poll] : d \in Devs, poll \in BOOLEAN}

(* One buffer per device; the sender may go down. *)
SmallConfs ==
  {[TwoWay EXCEPT !.pool_size = 1, !.max_buffers = 1, !.senders = {d}, !.closable = {d}] : d \in Devs}
=============================================================================
