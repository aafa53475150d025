-------------------------- MODULE SmallDevicesProofs --------------------------
(***************************************************************************)
(* Proofs about SmallDevices, for any number of processes, users and       *)
(* terminals.                                                              *)
(***************************************************************************)
EXTENDS SmallDevices, FiniteSetTheorems, SequenceTheorems, TLAPS

-----------------------------------------------------------------------------
(***************************************************************************)
(* Counting.                                                               *)
(***************************************************************************)
(* A subset of the processes is finite and its size is a natural number,   *)
(* zero only for the empty set.                                            *)
LEMMA ProcsCounted ==
  ASSUME NEW S \in SUBSET Procs
  PROVE  /\ IsFiniteSet(S) /\ Cardinality(S) \in Nat
         /\ Cardinality(S) = 0 <=> S = {}
<1>1. IsFiniteSet(S)
  BY FS_Subset, UsersAssumption
<1> QED BY <1>1, FS_CardinalityType, FS_EmptySet

(* A process that is not in a set adds one to its size.                    *)
LEMMA OneMore ==
  ASSUME NEW S \in SUBSET Procs, NEW p \in Procs, p \notin S
  PROVE  Cardinality(S \cup {p}) = Cardinality(S) + 1
BY ProcsCounted, FS_AddElement

(* A process of a set less is one less.                                   *)
LEMMA OneLess ==
  ASSUME NEW S \in SUBSET Procs, NEW p \in S
  PROVE  Cardinality(S \ {p}) = Cardinality(S) - 1
BY ProcsCounted, FS_RemoveElement

(* The counts in the modules of the devices are counts of this module.     *)
LEMMA SameCount ==
  ASSUME NEW S
  PROVE  /\ Single!Cardinality(S) = Cardinality(S)
         /\ Uid!Cardinality(S) = Cardinality(S)
         /\ Wuid!Cardinality(S) = Cardinality(S)
         /\ Comp!Cardinality(S) = Cardinality(S)
BY DEF Single!Cardinality, Uid!Cardinality, Wuid!Cardinality, Comp!Cardinality, Cardinality
-----------------------------------------------------------------------------
(***************************************************************************)
(* scullsingle.                                                            *)
(***************************************************************************)
SinglePC == {"closed", "busy", "opening", "open"}
Busy     == {p \in Procs : pc[p] = "busy"}

(* At most one process is inside, which is what makes NoInterference       *)
(* inductive; the exact count is what makes that inductive.                *)
SingleInv ==
  /\ pc \in [Procs -> SinglePC]
  /\ available \in Int
  /\ wrote \subseteq Procs
  /\ available = 1 - Cardinality(Single!Holders) - Cardinality(Busy)
  /\ \A p, q \in Single!Holders : p = q
  /\ Single!NoInterference

(* scullsingle starts with nobody inside.                                  *)
LEMMA SingleInitially ==
  ASSUME Single!Init
  PROVE  SingleInv
<1>1. Single!Holders = {} /\ Busy = {}
  BY DEF Single!Init, Single!Holders, Busy
<1>2. Cardinality({}) = 0
  BY FS_EmptySet
<1> QED BY <1>1, <1>2 DEF Single!Init, SingleInv, SinglePC, Single!NoInterference

(* Every step of scullsingle keeps its invariant.                          *)
LEMMA SingleStep ==
  ASSUME SingleInv, Single!Next
  PROVE  SingleInv'
<1> DEFINE H == Single!Holders
           B == Busy
<1>0. PICK p \in Procs :
        \/ Single!scull_single_open(p)
        \/ Single!scull_single_open_busy(p)
        \/ \E wronly \in BOOLEAN : Single!scull_single_dev_open(p, wronly)
        \/ Single!scull_single_write(p)
        \/ Single!scull_single_release(p)
  BY DEF Single!Next
<1>t. H \subseteq Procs /\ B \subseteq Procs /\ Cardinality(H) \in Nat /\ Cardinality(B) \in Nat
  BY ProcsCounted DEF Single!Holders, Busy
<1>c. available = 1 - Cardinality(H) - Cardinality(B)
  BY DEF SingleInv
<1>1. CASE Single!scull_single_open(p) /\ available = 1
  <2>1. pc[p] = "closed" /\ pc' = [pc EXCEPT ![p] = "opening"] /\ available' = 0
    BY <1>1 DEF Single!scull_single_open, Single!Goto
  <2>2. H = {}
    BY <1>1, <1>t, <1>c, ProcsCounted
  <2>3. H' = H \cup {p} /\ B' = B
    BY <2>1 DEF SingleInv, Single!Holders, Busy
  <2>4. Cardinality(H') = Cardinality(H) + 1
    BY <2>2, <2>3, OneMore
  <2>5. available' = 1 - Cardinality(H') - Cardinality(B')
    BY <1>1, <1>t, <1>c, <2>1, <2>3, <2>4
  <2> QED BY <1>1, <2>1, <2>2, <2>3, <2>5
          DEF SingleInv, SinglePC, Single!scull_single_open, Single!NoInterference
<1>2. CASE Single!scull_single_open(p) /\ available # 1
  <2>1. pc[p] = "closed" /\ pc' = [pc EXCEPT ![p] = "busy"] /\ available' = available - 1
    BY <1>2 DEF Single!scull_single_open, Single!Goto, SingleInv
  <2>2. H' = H /\ B' = B \cup {p} /\ p \notin B
    BY <2>1 DEF SingleInv, Single!Holders, Busy
  <2>3. Cardinality(B') = Cardinality(B) + 1
    BY <1>t, <2>2, OneMore
  <2>4. available' = 1 - Cardinality(H') - Cardinality(B')
    BY <1>t, <1>c, <2>1, <2>2, <2>3
  <2> QED BY <1>2, <2>1, <2>2, <2>4
          DEF SingleInv, SinglePC, Single!scull_single_open, Single!NoInterference
<1>3. CASE Single!scull_single_open_busy(p)
  <2>1. pc[p] = "busy" /\ pc' = [pc EXCEPT ![p] = "closed"] /\ available' = available + 1
    BY <1>3 DEF Single!scull_single_open_busy, Single!Goto
  <2>2. H' = H /\ B' = B \ {p} /\ p \in B
    BY <2>1 DEF SingleInv, Single!Holders, Busy
  <2>3. Cardinality(B') = Cardinality(B) - 1
    BY <1>t, <2>2, OneLess
  <2>4. available' = 1 - Cardinality(H') - Cardinality(B')
    BY <1>t, <1>c, <2>1, <2>2, <2>3
  <2> QED BY <1>3, <2>1, <2>2, <2>4
          DEF SingleInv, SinglePC, Single!scull_single_open_busy, Single!NoInterference
<1>4. ASSUME NEW wronly \in BOOLEAN, Single!scull_single_dev_open(p, wronly)
      PROVE  SingleInv'
  <2>0. pc[p] = "opening" /\ p \in H /\ wrote = {}
    BY <1>4 DEF Single!scull_single_dev_open, Single!Holders, SingleInv, Single!NoInterference
  <2>1. CASE pc' = [pc EXCEPT ![p] = "open"]
    <3>1. /\ available' = available
          /\ wrote' = {} \/ (wrote' = {p} /\ last' = p)
      BY <1>4, <2>0, <2>1 DEF Single!scull_single_dev_open, Single!Goto, SingleInv, SinglePC
    <3>2. H' = H /\ B' = B
      BY <2>0, <2>1 DEF SingleInv, Single!Holders, Busy
    <3>3. available' = 1 - Cardinality(H') - Cardinality(B')
      BY <1>c, <3>1, <3>2
    <3> QED BY <2>0, <2>1, <3>1, <3>2, <3>3 DEF SingleInv, SinglePC, Single!NoInterference
  <2>2. CASE pc' # [pc EXCEPT ![p] = "open"]
    <3>1. /\ available' = available + 1 /\ wrote' = wrote
          /\ pc' = [pc EXCEPT ![p] = "closed"]
      BY <1>4, <2>2 DEF Single!scull_single_dev_open, Single!Goto
    <3>2. H' = H \ {p} /\ B' = B
      BY <2>0, <3>1 DEF SingleInv, Single!Holders, Busy
    <3>3. Cardinality(H') = Cardinality(H) - 1
      BY <1>t, <2>0, <3>2, OneLess
    <3>4. available' = 1 - Cardinality(H') - Cardinality(B')
      BY <1>t, <1>c, <3>1, <3>2, <3>3
    <3> QED BY <2>0, <3>1, <3>2, <3>4 DEF SingleInv, SinglePC, Single!NoInterference
  <2> QED BY <2>1, <2>2
<1>5. CASE Single!scull_single_write(p)
  <2>1. /\ pc[p] = "open" /\ pc' = pc /\ available' = available
        /\ last' = p /\ wrote' = wrote \cup {p}
    BY <1>5 DEF Single!scull_single_write
  <2>2. H' = H /\ B' = B /\ p \in H
    BY <2>1 DEF Single!Holders, Busy
  <2>3. wrote' = {p}
    BY <2>1, <2>2 DEF SingleInv, Single!NoInterference, Single!Holders
  <2>4. available' = 1 - Cardinality(H') - Cardinality(B')
    BY <1>c, <2>1, <2>2
  <2> QED BY <2>1, <2>2, <2>3, <2>4 DEF SingleInv, Single!NoInterference
<1>6. CASE Single!scull_single_release(p)
  <2>1. /\ pc[p] = "open" /\ pc' = [pc EXCEPT ![p] = "closed"]
        /\ available' = available + 1 /\ last' = last /\ wrote' = wrote \ {p}
    BY <1>6 DEF Single!scull_single_release, Single!Goto
  <2>2. H' = H \ {p} /\ B' = B /\ p \in H
    BY <2>1 DEF SingleInv, Single!Holders, Busy
  <2>3. Cardinality(H') = Cardinality(H) - 1
    BY <1>t, <2>2, OneLess
  <2>4. available' = 1 - Cardinality(H') - Cardinality(B')
    BY <1>t, <1>c, <2>1, <2>2, <2>3
  <2> QED BY <2>1, <2>2, <2>4 DEF SingleInv, SinglePC, Single!NoInterference
<1> QED BY <1>0, <1>1, <1>2, <1>3, <1>4, <1>5, <1>6
-----------------------------------------------------------------------------
(***************************************************************************)
(* sculluid.                                                               *)
(***************************************************************************)
(* Who wrote is inside: the owner does not change under a writer.          *)
UidInv ==
  /\ pc \in [Procs -> {"closed", "opening", "open"}]
  /\ count = Cardinality(Uid!Holders)
  /\ wrote \subseteq {p \in Procs : pc[p] = "open"}
  /\ Uid!OneUserAtATime
  /\ Uid!NoForeignWrite

(* sculluid starts with nobody inside.                                     *)
LEMMA UidInitially ==
  ASSUME Uid!Init
  PROVE  UidInv
<1>1. Uid!Holders = {}
  BY DEF Uid!Init, Uid!Holders
<1>2. Cardinality({}) = 0
  BY FS_EmptySet
<1> QED BY <1>1, <1>2 DEF Uid!Init, UidInv, Uid!OneUserAtATime, Uid!NoForeignWrite

(* Every step of sculluid keeps its invariant.                             *)
LEMMA UidStep ==
  ASSUME UidInv, Uid!Next
  PROVE  UidInv'
<1> DEFINE H == Uid!Holders
<1>0. PICK p \in Procs :
        \/ Uid!scull_uid_open(p)
        \/ \E wronly \in BOOLEAN : Uid!scull_uid_dev_open(p, wronly)
        \/ Uid!scull_uid_write(p)
        \/ Uid!scull_uid_release(p)
  BY DEF Uid!Next
<1>t. H \subseteq Procs /\ Cardinality(H) \in Nat /\ (Cardinality(H) = 0 <=> H = {})
  BY ProcsCounted DEF Uid!Holders
<1>c. count = Cardinality(H)
  BY DEF UidInv
<1>1. CASE Uid!scull_uid_open(p)
  <2>1. /\ pc[p] = "closed" /\ pc' = [pc EXCEPT ![p] = "opening"]
        /\ count' = count + 1 /\ last' = last /\ wrote' = wrote
    BY <1>1 DEF Uid!scull_uid_open, Uid!Goto
  <2>2. H' = H \cup {p} /\ p \notin H
    BY <2>1 DEF UidInv, Uid!Holders
  <2>3. count' = Cardinality(H')
    BY <1>t, <1>c, <2>1, <2>2, OneMore
  <2>4. CASE count = 0
    <3>1. H = {} /\ wrote = {} /\ owner' = uid[p]
      BY <1>1, <1>t, <1>c, <2>4 DEF UidInv, Uid!Holders, Uid!scull_uid_open
    <3> QED BY <2>1, <2>2, <2>3, <3>1
            DEF UidInv, Uid!OneUserAtATime, Uid!NoForeignWrite, Uid!Owns
  <2>5. CASE count # 0
    <3>1. Uid!Owns(p) /\ owner' = owner
      BY <1>1, <2>5 DEF Uid!scull_uid_open
    <3> QED BY <2>1, <2>2, <2>3, <3>1
            DEF UidInv, Uid!OneUserAtATime, Uid!NoForeignWrite, Uid!Owns
  <2> QED BY <2>4, <2>5
<1>2. ASSUME NEW wronly \in BOOLEAN, Uid!scull_uid_dev_open(p, wronly)
      PROVE  UidInv'
  <2>0. pc[p] = "opening" /\ p \in H /\ Uid!Owns(p) /\ owner' = owner /\ p \notin wrote
    BY <1>2 DEF Uid!scull_uid_dev_open, Uid!Holders, UidInv, Uid!OneUserAtATime
  <2>1. CASE pc' = [pc EXCEPT ![p] = "open"]
    <3>1. /\ count' = count
          /\ \/ wrote' = wrote /\ last' = last
             \/ wrote' = wrote \cup {p} /\ last' = p
      BY <1>2, <2>0, <2>1 DEF Uid!scull_uid_dev_open, Uid!Goto, UidInv
    <3>2. H' = H
      BY <2>0, <2>1 DEF UidInv, Uid!Holders
    <3> QED BY <2>0, <2>1, <3>1, <3>2
            DEF UidInv, Uid!OneUserAtATime, Uid!NoForeignWrite, Uid!Owns
  <2>2. CASE pc' # [pc EXCEPT ![p] = "open"]
    <3>1. /\ count' = count - 1 /\ wrote' = wrote /\ last' = last
          /\ pc' = [pc EXCEPT ![p] = "closed"]
      BY <1>2, <2>2 DEF Uid!scull_uid_dev_open, Uid!Goto
    <3>2. H' = H \ {p}
      BY <2>0, <3>1 DEF UidInv, Uid!Holders
    <3>3. count' = Cardinality(H')
      BY <1>t, <1>c, <2>0, <3>1, <3>2, OneLess
    <3> QED BY <2>0, <3>1, <3>2, <3>3
            DEF UidInv, Uid!OneUserAtATime, Uid!NoForeignWrite, Uid!Owns
  <2> QED BY <2>1, <2>2
<1>3. CASE Uid!scull_uid_write(p)
  <2>1. /\ pc[p] = "open" /\ pc' = pc /\ count' = count /\ owner' = owner
        /\ last' = p /\ wrote' = wrote \cup {p}
    BY <1>3 DEF Uid!scull_uid_write
  <2>2. H' = H /\ Uid!Owns(p)
    BY <2>1 DEF Uid!Holders, UidInv, Uid!OneUserAtATime
  <2> QED BY <2>1, <2>2 DEF UidInv, Uid!OneUserAtATime, Uid!NoForeignWrite, Uid!Owns
<1>4. CASE Uid!scull_uid_release(p)
  <2>1. /\ pc[p] = "open" /\ pc' = [pc EXCEPT ![p] = "closed"] /\ count' = count - 1
        /\ owner' = owner /\ last' = last /\ wrote' = wrote \ {p}
    BY <1>4 DEF Uid!scull_uid_release, Uid!Goto
  <2>2. H' = H \ {p} /\ p \in H
    BY <2>1 DEF UidInv, Uid!Holders
  <2>3. count' = Cardinality(H')
    BY <1>t, <1>c, <2>1, <2>2, OneLess
  <2> QED BY <2>1, <2>2, <2>3 DEF UidInv, Uid!OneUserAtATime, Uid!NoForeignWrite, Uid!Owns
<1> QED BY <1>0, <1>1, <1>2, <1>3, <1>4
-----------------------------------------------------------------------------
(***************************************************************************)
(* scullwuid.                                                              *)
(***************************************************************************)
WuidPC == {"closed", "lock", "wait", "load_count", "load_owner", "sched",
           "opening", "open", "wake"}

(* Nobody sleeps who could have the device, and nobody is about to: a      *)
(* process that has found count # 0 and has still to load owner finds the  *)
(* device taken, or will be woken.                                         *)
WaiterOK(p) ==
  p \in wait \ missed =>
    /\ pc[p] = "sched" => ~Wuid!scull_w_available(p) \/ Wuid!WillWake
    /\ pc[p] = "load_owner" => count # 0 \/ Wuid!WillWake

WuidInv ==
  /\ pc \in [Procs -> WuidPC]
  /\ count = Cardinality(Wuid!Holders)
  /\ wait \subseteq Procs
  /\ wrote \subseteq {p \in Procs : pc[p] = "open"}
  /\ Wuid!OneUserAtATime
  /\ Wuid!NoForeignWrite
  /\ \A p \in Procs : WaiterOK(p)

(* scullwuid starts with nobody inside and nobody asleep.                  *)
LEMMA WuidInitially ==
  ASSUME Wuid!Init
  PROVE  WuidInv
<1>1. Wuid!Holders = {}
  BY DEF Wuid!Init, Wuid!Holders
<1>2. Cardinality({}) = 0
  BY FS_EmptySet
<1> QED BY <1>1, <1>2 DEF Wuid!Init, WuidInv, WuidPC, Wuid!OneUserAtATime,
          Wuid!NoForeignWrite, WaiterOK

(* A step inside the wait: nobody enters, leaves or wakes.                 *)
LEMMA WuidWaitStep ==
  ASSUME WuidInv, NEW p \in Procs, NEW l \in WuidPC,
         pc[p] \notin {"opening", "open", "wake"},
         l \notin {"opening", "open", "wake"},
         pc' = [pc EXCEPT ![p] = l],
         UNCHANGED <<count, owner, last, wrote>>,
         \/ wait' = wait /\ missed' = missed
         \/ wait' = wait \ {p} /\ missed' = missed \ {p}
         \/ wait' = wait \cup {p} /\ missed' = missed,
         WaiterOK(p)'
  PROVE  WuidInv'
<1>1. Wuid!Holders' = Wuid!Holders
  BY DEF WuidInv, Wuid!Holders
<1>2. Wuid!WillWake <=> Wuid!WillWake'
  BY DEF WuidInv, Wuid!WillWake
<1>3. ASSUME NEW q \in Procs, q # p PROVE WaiterOK(q)'
  <2>1. WaiterOK(q) /\ pc'[q] = pc[q] /\ (q \in wait' \ missed' => q \in wait \ missed)
    BY <1>3 DEF WuidInv
  <2>2. Wuid!scull_w_available(q) <=> Wuid!scull_w_available(q)'
    BY DEF Wuid!scull_w_available, Wuid!Owns
  <2> QED BY <1>2, <2>1, <2>2 DEF WaiterOK
<1>4. pc' \in [Procs -> WuidPC] /\ wait' \subseteq Procs
  BY DEF WuidInv
<1>5. wrote' \subseteq {q \in Procs : pc'[q] = "open"}
  BY DEF WuidInv
<1>6. Wuid!OneUserAtATime' /\ Wuid!NoForeignWrite'
  BY <1>1 DEF WuidInv, Wuid!OneUserAtATime, Wuid!NoForeignWrite, Wuid!Owns
<1> QED BY <1>1, <1>3, <1>4, <1>5, <1>6 DEF WuidInv

(* A step of a process inside that frees nothing: the sleepers sleep on.   *)
LEMMA WuidSleepersStay ==
  ASSUME WuidInv, NEW p \in Procs,
         pc[p] \notin {"wake", "sched", "load_owner"},
         pc'[p] \notin {"sched", "load_owner"},
         \A q \in Procs \ {p} : pc'[q] = pc[q],
         wait' = wait, missed' = missed,
         count' # 0,
         count = 0 \/ owner' = owner
  PROVE  \A q \in Procs : WaiterOK(q)'
<1>1. Wuid!WillWake => Wuid!WillWake'
  BY DEF Wuid!WillWake
<1>2. ASSUME NEW q \in Procs PROVE WaiterOK(q)'
  <2>1. CASE q = p
    BY <2>1 DEF WaiterOK
  <2>2. CASE q # p
    <3>1. WaiterOK(q) /\ pc'[q] = pc[q]
      BY <2>2 DEF WuidInv
    <3>2. ~Wuid!scull_w_available(q) => ~Wuid!scull_w_available(q)'
      BY DEF Wuid!scull_w_available, Wuid!Owns
    <3> QED BY <1>1, <3>1, <3>2 DEF WaiterOK
  <2> QED BY <2>1, <2>2
<1> QED BY <1>2

(* Every step of scullwuid keeps its invariant.                            *)
LEMMA WuidStep ==
  ASSUME WuidInv, Wuid!Next
  PROVE  WuidInv'
<1> DEFINE H == Wuid!Holders
<1>0. PICK p \in Procs :
        \/ Wuid!Step(p) \/ Wuid!scull_wuid_open(p) \/ Wuid!scull_wuid_open_wait(p)
        \/ Wuid!wuid_wait_signal(p) \/ Wuid!scull_wuid_write(p) \/ Wuid!scull_wuid_release(p)
  BY DEF Wuid!Next
<1>t. H \subseteq Procs /\ Cardinality(H) \in Nat /\ (Cardinality(H) = 0 <=> H = {})
  BY ProcsCounted DEF Wuid!Holders
<1>c. count = Cardinality(H) /\ pc \in [Procs -> WuidPC] /\ WaiterOK(p)
  BY DEF WuidInv
<1>1. CASE Wuid!scull_wuid_open(p)
  <2>1. /\ pc[p] \in {"closed", "lock"} /\ pc' = [pc EXCEPT ![p] = "opening"]
        /\ count' = count + 1 /\ UNCHANGED <<wait, missed, last, wrote>>
        /\ owner' = IF count = 0 THEN uid[p] ELSE owner
    BY <1>1 DEF Wuid!scull_wuid_open, Wuid!Goto
  <2>2. H' = H \cup {p} /\ p \notin H
    BY <1>c, <2>1 DEF Wuid!Holders
  <2>3. count' = Cardinality(H') /\ count' # 0
    BY <1>t, <1>c, <2>1, <2>2, OneMore
  <2>4. \A q \in Procs : WaiterOK(q)'
    BY <1>c, <2>1, <2>3, WuidSleepersStay
  <2>5. CASE count = 0
    <3>1. H = {} /\ wrote = {} /\ owner' = uid[p]
      BY <1>t, <1>c, <2>1, <2>5 DEF WuidInv, Wuid!Holders
    <3> QED BY <2>1, <2>2, <2>3, <2>4, <3>1
            DEF WuidInv, WuidPC, Wuid!OneUserAtATime, Wuid!NoForeignWrite, Wuid!Owns
  <2>6. CASE count # 0
    <3>1. Wuid!Owns(p) /\ owner' = owner
      BY <1>1, <2>6 DEF Wuid!scull_wuid_open, Wuid!scull_w_available
    <3> QED BY <2>1, <2>2, <2>3, <2>4, <3>1
            DEF WuidInv, WuidPC, Wuid!OneUserAtATime, Wuid!NoForeignWrite, Wuid!Owns
  <2> QED BY <2>5, <2>6
<1>2. CASE Wuid!scull_wuid_open_wait(p)
  <2>1. PICK l \in {"closed", "wait"} : pc' = [pc EXCEPT ![p] = l]
    BY <1>2 DEF Wuid!scull_wuid_open_wait, Wuid!Goto
  <2>2. WaiterOK(p)'
    BY <1>c, <2>1 DEF WaiterOK
  <2> QED BY <1>2, <2>1, <2>2, WuidWaitStep DEF Wuid!scull_wuid_open_wait, WuidPC
<1>3. CASE Wuid!wuid_wait_prepare(p)
  <2>1. pc' = [pc EXCEPT ![p] = "load_count"]
    BY <1>3 DEF Wuid!wuid_wait_prepare, Wuid!Goto
  <2>2. WaiterOK(p)'
    BY <1>c, <2>1 DEF WaiterOK
  <2> QED BY <1>3, <2>1, <2>2, WuidWaitStep DEF Wuid!wuid_wait_prepare, WuidPC
<1>4. CASE Wuid!wuid_wait_count(p)
  <2>1. CASE count = 0
    <3>1. pc' = [pc EXCEPT ![p] = "lock"]
      BY <1>4, <2>1 DEF Wuid!wuid_wait_count, Wuid!Goto
    <3>2. WaiterOK(p)'
      BY <1>c, <3>1 DEF WaiterOK
    <3> QED BY <1>4, <2>1, <3>1, <3>2, WuidWaitStep DEF Wuid!wuid_wait_count, Wuid!LeaveWait, WuidPC
  <2>2. CASE count # 0
    <3>1. pc' = [pc EXCEPT ![p] = "load_owner"] /\ count' = count
      BY <1>4, <2>2 DEF Wuid!wuid_wait_count, Wuid!Goto
    <3>2. WaiterOK(p)'
      BY <1>c, <2>2, <3>1 DEF WaiterOK
    <3> QED BY <1>4, <2>2, <3>1, <3>2, WuidWaitStep DEF Wuid!wuid_wait_count, WuidPC
  <2> QED BY <2>1, <2>2
<1>5. CASE Wuid!wuid_wait_owner(p)
  <2>1. CASE Wuid!Owns(p)
    <3>1. pc' = [pc EXCEPT ![p] = "lock"]
      BY <1>5, <2>1 DEF Wuid!wuid_wait_owner, Wuid!Goto
    <3>2. WaiterOK(p)'
      BY <1>c, <3>1 DEF WaiterOK
    <3> QED BY <1>5, <2>1, <3>1, <3>2, WuidWaitStep DEF Wuid!wuid_wait_owner, Wuid!LeaveWait, WuidPC
  <2>2. CASE ~Wuid!Owns(p)
    <3>1. /\ pc[p] = "load_owner" /\ pc' = [pc EXCEPT ![p] = "sched"]
          /\ UNCHANGED <<count, owner, wait, missed>>
      BY <1>5, <2>2 DEF Wuid!wuid_wait_owner, Wuid!Goto
    <3>2. Wuid!WillWake => Wuid!WillWake'
      BY <1>c, <3>1 DEF Wuid!WillWake
    <3>3. ~Wuid!Owns(p)'
      BY <2>2, <3>1 DEF Wuid!Owns
    <3>4. WaiterOK(p)'
      BY <1>c, <3>1, <3>2, <3>3 DEF WaiterOK, Wuid!scull_w_available
    <3> QED BY <1>5, <2>2, <3>1, <3>4, WuidWaitStep DEF Wuid!wuid_wait_owner, WuidPC
  <2> QED BY <2>1, <2>2
<1>6. CASE Wuid!wuid_wait_signal(p)
  <2>1. PICK l \in {"closed", "lock"} : pc' = [pc EXCEPT ![p] = l]
    BY <1>6 DEF Wuid!wuid_wait_signal, Wuid!Goto
  <2>2. WaiterOK(p)'
    BY <1>c, <2>1 DEF WaiterOK
  <2> QED BY <1>6, <2>1, <2>2, WuidWaitStep DEF Wuid!wuid_wait_signal, Wuid!LeaveWait, WuidPC
<1>7. ASSUME NEW wronly \in BOOLEAN, Wuid!scull_wuid_dev_open(p, wronly)
      PROVE  WuidInv'
  <2>0. /\ pc[p] = "opening" /\ p \in H /\ Wuid!Owns(p) /\ p \notin wrote
        /\ UNCHANGED <<owner, wait>>
    BY <1>7 DEF Wuid!scull_wuid_dev_open, Wuid!Holders, WuidInv, Wuid!OneUserAtATime
  <2>1. CASE pc' = [pc EXCEPT ![p] = "open"]
    <3>1. /\ count' = count /\ missed' = missed
          /\ \/ wrote' = wrote /\ last' = last
             \/ wrote' = wrote \cup {p} /\ last' = p
      BY <1>7, <1>c, <2>0, <2>1 DEF Wuid!scull_wuid_dev_open, Wuid!Goto
    <3>2. H' = H
      BY <1>c, <2>0, <2>1 DEF Wuid!Holders
    <3>3. \A q \in Procs : WaiterOK(q)'
      BY <1>t, <1>c, <2>0, <2>1, <3>1, WuidSleepersStay
    <3> QED BY <2>0, <2>1, <3>1, <3>2, <3>3
            DEF WuidInv, WuidPC, Wuid!OneUserAtATime, Wuid!NoForeignWrite, Wuid!Owns
  <2>2. CASE pc' # [pc EXCEPT ![p] = "open"]
    <3>1. /\ count' = count - 1 /\ wrote' = wrote /\ last' = last
          /\ pc' = [pc EXCEPT ![p] = "closed"]
          /\ missed' = IF count' = 0 THEN wait ELSE missed
      BY <1>7, <2>2 DEF Wuid!scull_wuid_dev_open, Wuid!Goto
    <3>2. H' = H \ {p}
      BY <1>c, <2>0, <3>1 DEF Wuid!Holders
    <3>3. count' = Cardinality(H')
      BY <1>t, <1>c, <2>0, <3>1, <3>2, OneLess
    <3>4. \A q \in Procs : WaiterOK(q)'
      <4>1. CASE count' = 0
        BY <2>0, <3>1, <4>1 DEF WaiterOK
      <4>2. CASE count' # 0
        BY <1>c, <2>0, <3>1, <4>2, WuidSleepersStay
      <4> QED BY <4>1, <4>2
    <3> QED BY <2>0, <3>1, <3>2, <3>3, <3>4
            DEF WuidInv, WuidPC, Wuid!OneUserAtATime, Wuid!NoForeignWrite, Wuid!Owns
  <2> QED BY <2>1, <2>2
<1>8. CASE Wuid!scull_wuid_write(p)
  <2>1. /\ pc[p] = "open" /\ last' = p /\ wrote' = wrote \cup {p}
        /\ UNCHANGED <<pc, count, owner, wait, missed>>
    BY <1>8 DEF Wuid!scull_wuid_write
  <2>2. H' = H /\ Wuid!Owns(p) /\ p \in H
    BY <2>1 DEF Wuid!Holders, WuidInv, Wuid!OneUserAtATime
  <2>3. \A q \in Procs : WaiterOK(q)'
    BY <1>t, <1>c, <2>1, <2>2, WuidSleepersStay
  <2> QED BY <2>1, <2>2, <2>3 DEF WuidInv, Wuid!OneUserAtATime, Wuid!NoForeignWrite, Wuid!Owns
<1>9. CASE Wuid!scull_wuid_release(p)
  <2>1. /\ pc[p] = "open" /\ count' = count - 1 /\ wrote' = wrote \ {p}
        /\ pc' = [pc EXCEPT ![p] = IF count' = 0 THEN "wake" ELSE "closed"]
        /\ UNCHANGED <<owner, wait, last, missed>>
    BY <1>9 DEF Wuid!scull_wuid_release, Wuid!Goto
  <2>2. H' = H \ {p} /\ p \in H
    BY <1>c, <2>1 DEF Wuid!Holders
  <2>3. count' = Cardinality(H')
    BY <1>t, <1>c, <2>1, <2>2, OneLess
  <2>4. \A q \in Procs : WaiterOK(q)'
    <3>1. CASE count' = 0
      <4>1. Wuid!WillWake'
        BY <1>c, <2>1, <3>1 DEF Wuid!WillWake
      <4> QED BY <4>1 DEF WaiterOK
    <3>2. CASE count' # 0
      BY <1>c, <2>1, <3>2, WuidSleepersStay
    <3> QED BY <3>1, <3>2
  <2>5. wrote' \subseteq {q \in Procs : pc'[q] = "open"} /\ pc' \in [Procs -> WuidPC]
    BY <1>c, <2>1 DEF WuidInv, WuidPC
  <2> QED BY <2>1, <2>2, <2>3, <2>4, <2>5
          DEF WuidInv, Wuid!OneUserAtATime, Wuid!NoForeignWrite, Wuid!Owns
<1>10. CASE Wuid!scull_wuid_release_wake(p)
  <2>1. /\ pc[p] = "wake" /\ pc' = [pc EXCEPT ![p] = "closed"] /\ wait' = {}
        /\ UNCHANGED <<count, owner, last, wrote>>
    BY <1>10 DEF Wuid!scull_wuid_release_wake, Wuid!Goto
  <2>2. H' = H
    BY <1>c, <2>1 DEF Wuid!Holders
  <2>3. \A q \in Procs : WaiterOK(q)'
    BY <2>1 DEF WaiterOK
  <2>4. wrote' \subseteq {q \in Procs : pc'[q] = "open"} /\ pc' \in [Procs -> WuidPC]
    BY <1>c, <2>1 DEF WuidInv, WuidPC
  <2> QED BY <2>1, <2>2, <2>3, <2>4
          DEF WuidInv, Wuid!OneUserAtATime, Wuid!NoForeignWrite, Wuid!Owns
<1> QED BY <1>0, <1>1, <1>2, <1>3, <1>4, <1>5, <1>6, <1>7, <1>8, <1>9, <1>10 DEF Wuid!Step
-----------------------------------------------------------------------------
(***************************************************************************)
(* scullpriv.                                                              *)
(***************************************************************************)
PrivPC == {"closed", "alloc", "opening", "open"}

PrivTypes ==
  /\ pc \in [Procs -> PrivPC]
  /\ key \in [Procs -> Keys]
  /\ list \in Seq(Keys)
  /\ private_data \in [Procs -> Nat]

(* No terminal has two items.                                              *)
KeysDistinct == \A i, j \in 1 .. Len(list) : list[i] = list[j] => i = j

(* priv->lock is held from a search that failed to the list_add, and the   *)
(* terminal has no item all that time.                                     *)
PrivLocked ==
  \A p \in Procs :
    /\ pc[p] = "alloc" => lock = p
    /\ pc[p] = "alloc" => \A i \in 1 .. Len(list) : list[i] # key[p]

(* An open file's storage is the item of the terminal it was opened from.  *)
RightItem ==
  \A p \in Procs :
    /\ pc[p] \in {"closed", "alloc"} => private_data[p] = 0
    /\ private_data[p] # 0 =>
         private_data[p] \in 1 .. Len(list) /\ list[private_data[p]] = key[p]

PrivInv == PrivTypes /\ KeysDistinct /\ PrivLocked /\ RightItem

(* scullpriv starts with an empty list.                                    *)
LEMMA PrivInitially ==
  ASSUME Priv!Init
  PROVE  PrivInv
BY DEF Priv!Init, PrivInv, PrivTypes, PrivPC, KeysDistinct, PrivLocked, RightItem

(* Every step of scullpriv keeps its invariant.                            *)
LEMMA PrivStep ==
  ASSUME PrivInv, Priv!Next
  PROVE  PrivInv'
<1> USE DEF PrivInv
<1>1. ASSUME NEW p \in Procs, NEW k \in Keys, Priv!scull_priv_open(p, k)
      PROVE  PrivInv'
  <2>0. /\ pc[p] = "closed" /\ lock = Nobody /\ list' = list
        /\ key' = [key EXCEPT ![p] = k] /\ private_data[p] = 0
    BY <1>1 DEF Priv!scull_priv_open, RightItem
  <2>a. \A q \in Procs : pc[q] # "alloc"
    BY <2>0, UsersAssumption DEF PrivLocked
  <2>1. CASE Priv!Found(k) # {}
    <3>1. PICK i \in Priv!Found(k) : private_data' = [private_data EXCEPT ![p] = i]
      BY <1>1, <2>1 DEF Priv!scull_priv_open
    <3>2. pc' = [pc EXCEPT ![p] = "opening"]
      BY <1>1, <2>1 DEF Priv!scull_priv_open, Priv!Goto
    <3>3. i \in 1 .. Len(list) /\ list[i] = k
      BY <3>1 DEF Priv!Found, PrivTypes
    <3>4. PrivTypes' /\ KeysDistinct'
      BY <2>0, <3>1, <3>2, <3>3 DEF PrivTypes, PrivPC, KeysDistinct
    <3>5. PrivLocked'
      BY <2>0, <2>a, <3>2 DEF PrivLocked, PrivTypes
    <3>6. RightItem'
      BY <2>0, <3>1, <3>2, <3>3 DEF RightItem, PrivTypes
    <3> QED BY <3>4, <3>5, <3>6
  <2>2. CASE Priv!Found(k) = {}
    <3>1. lock' = p /\ pc' = [pc EXCEPT ![p] = "alloc"] /\ private_data' = private_data
      BY <1>1, <2>2 DEF Priv!scull_priv_open, Priv!Goto
    <3>2. \A i \in 1 .. Len(list) : list[i] # k
      BY <2>2 DEF Priv!Found, PrivTypes, KeysDistinct
    <3>4. PrivTypes' /\ KeysDistinct'
      BY <2>0, <3>1 DEF PrivTypes, PrivPC, KeysDistinct
    <3>5. PrivLocked'
      BY <2>0, <2>a, <3>1, <3>2 DEF PrivLocked, PrivTypes
    <3>6. RightItem'
      BY <2>0, <3>1 DEF RightItem, PrivTypes
    <3> QED BY <3>4, <3>5, <3>6
  <2> QED BY <2>1, <2>2
<1>2. ASSUME NEW p \in Procs, Priv!scull_priv_lookfor_device(p)
      PROVE  PrivInv'
  <2>0. /\ pc[p] = "alloc" /\ lock = p /\ key' = key /\ private_data[p] = 0
        /\ \A i \in 1 .. Len(list) : list[i] # key[p]
    BY <1>2 DEF Priv!scull_priv_lookfor_device, PrivLocked, RightItem
  <2>a. \A q \in Procs : q # p => pc[q] # "alloc"
    BY <2>0 DEF PrivLocked
  <2>1. CASE pc' = [pc EXCEPT ![p] = "opening"]
    <3>1. /\ list' = Append(list, key[p])
          /\ private_data' = [private_data EXCEPT ![p] = Len(list')]
      BY <1>2, <2>0, <2>1 DEF Priv!scull_priv_lookfor_device, Priv!Goto, PrivTypes, PrivPC
    <3>2. /\ Len(list') = Len(list) + 1 /\ Len(list) \in Nat /\ list' \in Seq(Keys)
          /\ list'[Len(list) + 1] = key[p]
          /\ \A i \in 1 .. Len(list) : list'[i] = list[i]
      BY <3>1 DEF PrivTypes
    <3>3. PrivTypes'
      BY <2>0, <2>1, <3>1, <3>2 DEF PrivTypes, PrivPC
    <3>4. KeysDistinct'
      BY <2>0, <3>2 DEF KeysDistinct
    <3>5. PrivLocked'
      BY <2>1, <2>a DEF PrivLocked, PrivTypes
    <3>6. RightItem'
      <4> SUFFICES ASSUME NEW q \in Procs
                   PROVE  /\ pc'[q] \in {"closed", "alloc"} => private_data'[q] = 0
                          /\ private_data'[q] # 0 =>
                               /\ private_data'[q] \in 1 .. Len(list')
                               /\ list'[private_data'[q]] = key'[q]
        BY DEF RightItem
      <4>1. CASE q = p
        BY <2>0, <2>1, <3>1, <3>2, <4>1 DEF PrivTypes
      <4>2. CASE q # p
        BY <2>0, <2>1, <3>1, <3>2, <4>2 DEF PrivTypes, RightItem
      <4> QED BY <4>1, <4>2
    <3> QED BY <3>3, <3>4, <3>5, <3>6
  <2>2. CASE pc' # [pc EXCEPT ![p] = "opening"]
    <3>1. pc' = [pc EXCEPT ![p] = "closed"] /\ list' = list /\ private_data' = private_data
      BY <1>2, <2>2 DEF Priv!scull_priv_lookfor_device, Priv!Goto
    <3> QED BY <2>0, <2>a, <3>1 DEF PrivTypes, PrivPC, KeysDistinct, PrivLocked, RightItem
  <2> QED BY <2>1, <2>2
<1>3. ASSUME NEW p \in Procs, Priv!scull_priv_dev_open(p) \/ Priv!scull_priv_release(p)
      PROVE  PrivInv'
  <2>1. /\ UNCHANGED <<lock, list, key>> /\ pc[p] \in {"opening", "open"}
        /\ \/ pc' = [pc EXCEPT ![p] = "open"] /\ private_data' = private_data
           \/ /\ pc' = [pc EXCEPT ![p] = "closed"]
              /\ private_data' = [private_data EXCEPT ![p] = 0]
    BY <1>3 DEF Priv!scull_priv_dev_open, Priv!scull_priv_release, Priv!Goto
  <2>2. PrivTypes' /\ KeysDistinct' /\ PrivLocked'
    BY <2>1 DEF PrivTypes, PrivPC, KeysDistinct, PrivLocked
  <2>3. RightItem'
    BY <2>1 DEF PrivTypes, RightItem
  <2> QED BY <2>2, <2>3
<1>4. CASE Priv!clean_scull_priv
  BY <1>4 DEF Priv!clean_scull_priv, PrivTypes, KeysDistinct, PrivLocked, RightItem
<1> QED BY <1>1, <1>2, <1>3, <1>4 DEF Priv!Next
-----------------------------------------------------------------------------
(***************************************************************************)
(* sleepy.                                                                 *)
(***************************************************************************)
SleepyInv ==
  /\ pc \in [Procs -> {"out", "queued", "asleep", "clear", "wake"}]
  /\ Sleep!NoReaderForgotten

(* Every step of sleepy keeps its invariant.                               *)
LEMMA SleepyStep ==
  ASSUME SleepyInv, Sleep!Next
  PROVE  SleepyInv'
<1>1. PICK p \in Procs :
        \/ Sleep!sleepy_read(p) \/ Sleep!sleepy_write(p) \/ Sleep!Signal(p) \/ Sleep!Step(p)
  BY DEF Sleep!Next
<1> USE DEF SleepyInv, Sleep!NoReaderForgotten, Sleep!Goto
<1>2. CASE Sleep!sleepy_read(p)
  BY <1>2 DEF Sleep!sleepy_read
<1>3. CASE Sleep!sleepy_write(p)
  BY <1>3 DEF Sleep!sleepy_write
<1>4. CASE Sleep!Signal(p)
  BY <1>4 DEF Sleep!Signal
<1>5. CASE Sleep!wait_event(p)
  BY <1>5 DEF Sleep!wait_event
<1>6. CASE Sleep!sleepy_read_clear(p)
  BY <1>6 DEF Sleep!sleepy_read_clear
<1>7. CASE Sleep!wake_up_interruptible(p)
  BY <1>7 DEF Sleep!wake_up_interruptible
<1> QED BY <1>1, <1>2, <1>3, <1>4, <1>5, <1>6, <1>7 DEF Sleep!Step

(* sleepy starts with nobody in a call.                                    *)
LEMMA SleepyInitially ==
  ASSUME Sleep!Init
  PROVE  SleepyInv
BY DEF Sleep!Init, SleepyInv, Sleep!NoReaderForgotten
-----------------------------------------------------------------------------
(***************************************************************************)
(* complete.                                                               *)
(***************************************************************************)
Woken == {p \in Procs : pc[p] = "woken"}

(* The queue holds the sleepers, each once, so that the process a write    *)
(* takes from the queue is one more that is on its way.                    *)
CompInv ==
  /\ pc \in [Procs -> {"out", "asleep", "woken"}]
  /\ done \in Nat
  /\ waiters \in Seq(Procs)
  /\ \A i \in 1 .. Len(waiters) : pc[waiters[i]] = "asleep"
  /\ \A i, j \in 1 .. Len(waiters) : waiters[i] = waiters[j] => i = j
  /\ waiters # <<>> => done <= Cardinality(Woken)

(* complete starts with an empty queue.                                    *)
LEMMA CompInitially ==
  ASSUME Comp!Init
  PROVE  CompInv
BY DEF Comp!Init, CompInv

(* Every step of complete keeps its invariant.                             *)
LEMMA CompStep ==
  ASSUME CompInv, Comp!Next
  PROVE  CompInv'
<1> DEFINE W == Woken
<1>t. W \subseteq Procs /\ Cardinality(W) \in Nat
  BY ProcsCounted DEF Woken
<1>s. waiters \in Seq(Procs) /\ Len(waiters) \in Nat /\ done \in Nat
  BY DEF CompInv
<1>1. CASE Comp!complete_write
  <2>1. CASE waiters = <<>>
    BY <1>1, <2>1 DEF Comp!complete_write, CompInv
  <2>2. CASE waiters # <<>>
    <3>1. /\ done' = done + 1 /\ waiters' = Tail(waiters)
          /\ pc' = [pc EXCEPT ![Head(waiters)] = "woken"]
      BY <1>1, <2>2 DEF Comp!complete_write
    <3>2. /\ Head(waiters) = waiters[1] /\ 1 \in 1 .. Len(waiters)
          /\ waiters[1] \in Procs
          /\ Tail(waiters) \in Seq(Procs) /\ Len(Tail(waiters)) = Len(waiters) - 1
          /\ \A i \in 1 .. Len(waiters) - 1 : Tail(waiters)[i] = waiters[i + 1]
      BY <1>s, <2>2
    <3>3. W' = W \cup {waiters[1]} /\ waiters[1] \notin W
      BY <3>1, <3>2 DEF CompInv, Woken
    <3>4. Cardinality(W') = Cardinality(W) + 1
      BY <1>t, <3>2, <3>3, OneMore
    <3>5. done' <= Cardinality(W')
      BY <1>t, <1>s, <2>2, <3>1, <3>4 DEF CompInv
    <3>6. \A i, j \in 1 .. Len(waiters') : waiters'[i] = waiters'[j] => i = j
      BY <1>s, <3>1, <3>2 DEF CompInv
    <3>7. \A i \in 1 .. Len(waiters') : pc'[waiters'[i]] = "asleep"
      <4> SUFFICES ASSUME NEW i \in 1 .. Len(waiters')
                   PROVE  pc'[waiters'[i]] = "asleep"
        OBVIOUS
      <4>1. i + 1 \in 1 .. Len(waiters) /\ waiters'[i] = waiters[i + 1] /\ i + 1 # 1
        BY <1>s, <3>1, <3>2
      <4>2. waiters[i + 1] # waiters[1] /\ pc[waiters[i + 1]] = "asleep"
        BY <3>2, <4>1 DEF CompInv
      <4> QED BY <1>s, <3>1, <3>2, <4>1, <4>2 DEF CompInv
    <3>8. pc' \in [Procs -> {"out", "asleep", "woken"}] /\ done' \in Nat /\ waiters' \in Seq(Procs)
      BY <1>s, <3>1, <3>2 DEF CompInv
    <3> QED BY <3>5, <3>6, <3>7, <3>8 DEF CompInv
  <2> QED BY <2>1, <2>2
<1>2. ASSUME NEW p \in Procs, pc[p] \in {"out", "woken"}, Comp!wait_for_completion(p)
      PROVE  CompInv'
  <2>q. \A i \in 1 .. Len(waiters) : waiters[i] # p
    BY <1>2 DEF CompInv
  <2>1. CASE done > 0
    <3>1. done' = done - 1 /\ waiters' = waiters /\ pc' = [pc EXCEPT ![p] = "out"]
      BY <1>2, <1>s, <2>1 DEF Comp!wait_for_completion
    <3>2. W' = W \ {p}
      BY <3>1 DEF CompInv, Woken
    <3>3. Cardinality(W') \in Nat /\ Cardinality(W') >= Cardinality(W) - 1
      <4>1. CASE p \in W
        BY <1>t, <3>2, <4>1, OneLess, ProcsCounted
      <4>2. CASE p \notin W
        <5>1. W' = W
          BY <3>2, <4>2
        <5> QED BY <1>t, <5>1
      <4> QED BY <4>1, <4>2
    <3>4. waiters' # <<>> => done' <= Cardinality(W')
      BY <1>s, <1>t, <3>1, <3>3 DEF CompInv
    <3>5. \A i \in 1 .. Len(waiters') : pc'[waiters'[i]] = "asleep"
      BY <1>s, <2>q, <3>1 DEF CompInv
    <3> QED BY <1>s, <2>1, <3>1, <3>4, <3>5 DEF CompInv
  <2>2. CASE ~(done > 0)
    <3>1. done = 0 /\ done' = 0 /\ waiters' = Append(waiters, p) /\ pc' = [pc EXCEPT ![p] = "asleep"]
      BY <1>2, <1>s, <2>2 DEF Comp!wait_for_completion
    <3>2. /\ waiters' \in Seq(Procs) /\ Len(waiters') = Len(waiters) + 1
          /\ waiters'[Len(waiters) + 1] = p
          /\ \A i \in 1 .. Len(waiters) : waiters'[i] = waiters[i]
      BY <1>s, <3>1
    <3>3. \A i, j \in 1 .. Len(waiters') : waiters'[i] = waiters'[j] => i = j
      BY <1>s, <2>q, <3>2 DEF CompInv
    <3>4. \A i \in 1 .. Len(waiters') : pc'[waiters'[i]] = "asleep"
      <4> SUFFICES ASSUME NEW i \in 1 .. Len(waiters')
                   PROVE  pc'[waiters'[i]] = "asleep"
        OBVIOUS
      <4>1. CASE i = Len(waiters) + 1
        BY <3>1, <3>2, <4>1 DEF CompInv
      <4>2. CASE i \in 1 .. Len(waiters)
        BY <1>s, <2>q, <3>1, <3>2, <4>2 DEF CompInv
      <4> QED BY <1>s, <3>2, <4>1, <4>2
    <3>5. Cardinality(W') \in Nat
      BY ProcsCounted DEF Woken
    <3> QED BY <3>1, <3>2, <3>3, <3>4, <3>5 DEF CompInv
  <2> QED BY <2>1, <2>2
<1> QED BY <1>1, <1>2 DEF Comp!Next, Comp!complete_read, Comp!woken_read
-----------------------------------------------------------------------------
(***************************************************************************)
(* jit.                                                                    *)
(***************************************************************************)
(* What a read of a delay file knows of the clock: jiffies is ahead of the *)
(* value it waits for by as much as the time since its start exceeds       *)
(* delay, give or take one turn of the counter.                            *)
ClockOf(r) ==
  \/ jiffies - j1[r] = elapsed[r] - delay
  \/ jiffies - j1[r] = elapsed[r] - delay + Wrap
  \/ jiffies - j1[r] = elapsed[r] - delay - Wrap

DelayOK(r) ==
  /\ jpc[r] = "idle" => elapsed[r] = 0
  /\ jpc[r] = "delay" => file[r] \in Jits!DelayFiles /\ elapsed[r] <= MaxLate /\ ClockOf(r)
  /\ jpc[r] = "done" /\ file[r] \in Jits!DelayFiles =>
       elapsed[r] >= delay \/ (r \in sig /\ file[r] \in {"jitqueue", "jitschedto"})

(* A handler is registered exactly while there are lines to print, and its *)
(* read is still there.                                                    *)
HandlerOK(r) ==
  /\ pending[r] # "none" <=> loops[r] > 0
  /\ loops[r] > 0 => jpc[r] \in {"test", "queued", "asleep"}
  /\ jpc[r] = "asleep" /\ loops[r] = 0 => r \in waking
  /\ jpc[r] \in {"test", "queued", "asleep"} => file[r] \notin Jits!DelayFiles

JitTypes ==
  /\ jpc \in [Reads -> {"idle", "delay", "test", "queued", "asleep", "done"}]
  /\ jiffies \in 0 .. Wrap - 1
  /\ file \in [Reads -> Jits!DelayFiles \cup {"none", "jitimer", "jitasklet", "jitasklethi"}]
  /\ j1 \in [Reads -> 0 .. Wrap - 1]
  /\ elapsed \in [Reads -> Nat]
  /\ loops \in [Reads -> Nat]
  /\ pending \in [Reads -> {"none", "timer", "tasklet", "tasklet_hi"}]
  /\ waking \subseteq Reads

JitInv ==
  /\ JitTypes
  /\ \A r \in Reads : DelayOK(r)
  /\ \A r \in Reads : HandlerOK(r)

(* The counter modulo Wrap: what adding and comparing do to a value within *)
(* one turn of it.                                                         *)
LEMMA Turn ==
  ASSUME NEW a \in Int
  PROVE  /\ Wrap \in Nat \ {0} /\ Wrap \div 2 \in Nat /\ 2 * (Wrap \div 2) <= Wrap
         /\ 2 * (Wrap \div 2) >= Wrap - 1
         /\ a \in 0 .. Wrap - 1 => a % Wrap = a
         /\ a \in Wrap .. 2 * Wrap - 1 => a % Wrap = a - Wrap
         /\ a \in -Wrap .. -1 => a % Wrap = a + Wrap
<1>1. /\ Wrap \in Nat /\ delay \in Nat \ {0} /\ delay < Wrap \div 2
  BY JitAssumption DEF Jits!JitConstants
<1>2. /\ Wrap \div 2 \in Nat /\ 2 * (Wrap \div 2) <= Wrap /\ 2 * (Wrap \div 2) >= Wrap - 1
  BY <1>1
<1>3. Wrap \in Nat \ {0}
  BY <1>1, <1>2
<1>4. a \in 0 .. Wrap - 1 => a % Wrap = a
  BY <1>3
<1>5. a \in Wrap .. 2 * Wrap - 1 => a % Wrap = a - Wrap
  BY <1>3
<1>6. a \in -Wrap .. -1 => a % Wrap = a + Wrap
  BY <1>3
<1> QED BY <1>2, <1>3, <1>4, <1>5, <1>6

(* jit starts with no read made.                                           *)
LEMMA JitInitially ==
  ASSUME Jits!Init
  PROVE  JitInv
<1>1. Wrap \in Nat \ {0}
  BY Turn
<1> QED BY <1>1 DEF Jits!Init, JitInv, JitTypes, DelayOK, HandlerOK, Jits!DelayFiles

(* A read of a delay file that the clock lets go has waited long enough.   *)
LEMMA TimeUpMeans ==
  ASSUME JitInv, NEW r \in Reads, jpc[r] = "delay", Jits!TimeUp(r)
  PROVE  elapsed[r] >= delay
<1> DEFINE d == jiffies - j1[r]
<1>1. /\ d \in Int /\ d \in -Wrap .. Wrap - 1 /\ elapsed[r] \in Nat /\ elapsed[r] <= MaxLate
      /\ jiffies \in 0 .. Wrap - 1 /\ j1[r] \in 0 .. Wrap - 1 /\ Wrap \in Nat
      /\ ClockOf(r) /\ ~(d % Wrap >= Wrap \div 2)
  <2>1. /\ elapsed[r] \in Nat /\ elapsed[r] <= MaxLate /\ ClockOf(r)
        /\ jiffies \in 0 .. Wrap - 1 /\ j1[r] \in 0 .. Wrap - 1
    BY DEF JitInv, JitTypes, DelayOK
  <2>2. ~(d % Wrap >= Wrap \div 2)
    BY DEF Jits!TimeUp, Jits!time_before
  <2>3. Wrap \in Nat /\ d \in Int
    BY <2>1, Turn
  <2> QED BY <2>1, <2>2, <2>3
<1>2. /\ delay \in Nat /\ MaxLate \in Nat /\ MaxLate < delay + Wrap \div 2 /\ delay < Wrap \div 2
  BY JitAssumption DEF Jits!JitConstants
<1>3. /\ d \in 0 .. Wrap - 1 => d % Wrap = d
      /\ d \in -Wrap .. -1 => d % Wrap = d + Wrap
      /\ Wrap \div 2 \in Nat /\ 2 * (Wrap \div 2) <= Wrap
  BY <1>1, Turn
<1>4. CASE d \in 0 .. Wrap - 1
  BY <1>1, <1>2, <1>3, <1>4 DEF ClockOf
<1>5. CASE d \in -Wrap .. -1
  BY <1>1, <1>2, <1>3, <1>5 DEF ClockOf
<1> QED BY <1>1, <1>4, <1>5

(* A step of one read: the other reads keep their invariants when their    *)
(* parts of the state and the clock are as before.                         *)
LEMMA OtherReads ==
  ASSUME NEW q \in Reads, DelayOK(q), HandlerOK(q),
         jiffies' = jiffies,
         jpc'[q] = jpc[q], file'[q] = file[q], j1'[q] = j1[q], elapsed'[q] = elapsed[q],
         loops'[q] = loops[q], pending'[q] = pending[q],
         q \in waking <=> q \in waking', q \in sig <=> q \in sig'
  PROVE  DelayOK(q)' /\ HandlerOK(q)'
<1>1. ClockOf(q) <=> ClockOf(q)'
  BY DEF ClockOf
<1> QED BY <1>1 DEF DelayOK, HandlerOK, Jits!DelayFiles

(* One tick, in numbers.                                                   *)
LEMMA OneTick ==
  ASSUME NEW w \in Nat, NEW h \in Nat, NEW e \in Nat, NEW d \in Nat,
         NEW j \in 0 .. w - 1, NEW k \in 0 .. w - 1, NEW x \in 0 .. w - 1,
         2 * h <= w, e < d + h, d < h,
         k = j + 1 \/ k = j + 1 - w,
         j - x = e - d \/ j - x = e - d + w \/ j - x = e - d - w
  PROVE  k - x = e + 1 - d \/ k - x = e + 1 - d + w \/ k - x = e + 1 - d - w
OBVIOUS

(* A step of the clock.                                                    *)
LEMMA JitTick ==
  ASSUME JitInv, Jits!Tick
  PROVE  JitInv'
<1>1. /\ UNCHANGED <<jpc, file, j1, loops, pending, waking, sig>>
      /\ jiffies' = (jiffies + 1) % Wrap
      /\ elapsed' = [r \in Reads |-> IF jpc[r] = "delay" THEN elapsed[r] + 1 ELSE elapsed[r]]
      /\ \A r \in Reads : jpc[r] = "delay" => elapsed[r] < MaxLate
  BY DEF Jits!Tick, Jits!handlers
<1>2. jiffies \in 0 .. Wrap - 1 /\ Wrap \in Nat \ {0}
  BY Turn DEF JitInv, JitTypes
<1>3. jiffies' \in 0 .. Wrap - 1 /\ (jiffies' = jiffies + 1 \/ jiffies' = jiffies + 1 - Wrap)
  <2>1. /\ jiffies + 1 \in 0 .. Wrap - 1 => jiffies' = jiffies + 1
        /\ jiffies + 1 \in Wrap .. 2 * Wrap - 1 => jiffies' = jiffies + 1 - Wrap
    BY <1>1, <1>2, Turn
  <2> QED BY <1>2, <2>1
<1>4. JitTypes'
  BY <1>1, <1>3 DEF JitInv, JitTypes
<1>5. ASSUME NEW r \in Reads PROVE DelayOK(r)' /\ HandlerOK(r)'
  <2>1. DelayOK(r) /\ HandlerOK(r) /\ elapsed[r] \in Nat /\ j1[r] \in 0 .. Wrap - 1
    BY DEF JitInv, JitTypes
  <2>2. HandlerOK(r)'
    BY <1>1, <2>1 DEF HandlerOK
  <2>3. CASE jpc[r] = "delay"
    <3>1. elapsed'[r] = elapsed[r] + 1 /\ jpc'[r] = "delay" /\ elapsed[r] < MaxLate
      BY <1>1, <2>3
    <3>2. delay \in Nat /\ MaxLate \in Nat
      BY JitAssumption DEF Jits!JitConstants
    <3>3. ClockOf(r)
      BY <2>1, <2>3 DEF DelayOK
    <3>4. j1'[r] = j1[r] /\ file'[r] = file[r]
      BY <1>1
    <3>5. ClockOf(r)'
      <4>1. /\ MaxLate < delay + Wrap \div 2 /\ delay < Wrap \div 2
            /\ 2 * (Wrap \div 2) <= Wrap /\ Wrap \div 2 \in Nat
        BY <1>2, Turn, JitAssumption DEF Jits!JitConstants
      <4>2. elapsed[r] < delay + Wrap \div 2
        BY <2>1, <3>1, <3>2, <4>1
      <4>3. \/ jiffies' - j1[r] = elapsed[r] + 1 - delay
            \/ jiffies' - j1[r] = elapsed[r] + 1 - delay + Wrap
            \/ jiffies' - j1[r] = elapsed[r] + 1 - delay - Wrap
        BY <1>2, <1>3, <2>1, <3>2, <3>3, <4>1, <4>2, OneTick DEF ClockOf
      <4> QED BY <1>2, <1>3, <2>1, <3>1, <3>2, <3>4, <4>3 DEF ClockOf
    <3> QED BY <2>1, <2>2, <2>3, <3>1, <3>2, <3>4, <3>5 DEF DelayOK, Jits!DelayFiles
  <2>4. CASE jpc[r] # "delay"
    <3>1. elapsed'[r] = elapsed[r] /\ jpc'[r] = jpc[r] /\ file'[r] = file[r] /\ sig' = sig
      BY <1>1, <2>4
    <3> QED BY <2>1, <2>2, <2>4, <3>1 DEF DelayOK, Jits!DelayFiles
  <2> QED BY <2>3, <2>4
<1> QED BY <1>4, <1>5 DEF JitInv

(* Every step of jit keeps its invariant.                                  *)
LEMMA JitStep ==
  ASSUME JitInv, Jits!Next
  PROVE  JitInv'
<1>t. /\ JitTypes
      /\ \A q \in Reads : DelayOK(q) /\ HandlerOK(q)
  BY DEF JitInv
<1>c. /\ Wrap \in Nat \ {0} /\ delay \in Nat \ {0} /\ MaxLate \in Nat
      /\ delay < Wrap \div 2 /\ Wrap \div 2 \in Nat /\ 2 * (Wrap \div 2) <= Wrap
      /\ JIT_ASYNC_LOOPS \in Nat \ {0}
  BY Turn, JitAssumption DEF Jits!JitConstants
<1> USE DEF Jits!delays, Jits!handlers
<1>1. CASE Jits!Tick
  BY <1>1, JitTick
<1>2. ASSUME NEW r \in Reads, NEW f \in Jits!DelayFiles, Jits!StartDelay(r, f)
      PROVE  JitInv'
  <2>1. /\ jpc[r] = "idle" /\ jpc' = [jpc EXCEPT ![r] = "delay"]
        /\ file' = [file EXCEPT ![r] = f]
        /\ j1' = [j1 EXCEPT ![r] = (jiffies + delay) % Wrap]
        /\ UNCHANGED <<jiffies, elapsed, loops, pending, waking, sig>>
    BY <1>2 DEF Jits!StartDelay, Jits!Goto
  <2>2. jiffies \in 0 .. Wrap - 1 /\ j1 \in [Reads -> 0 .. Wrap - 1]
    BY <1>t DEF JitTypes
  <2>3. /\ j1'[r] \in 0 .. Wrap - 1
        /\ j1'[r] = jiffies + delay \/ j1'[r] = jiffies + delay - Wrap
    <3>1. /\ jiffies + delay \in 0 .. Wrap - 1 => j1'[r] = jiffies + delay
          /\ jiffies + delay \in Wrap .. 2 * Wrap - 1 => j1'[r] = jiffies + delay - Wrap
      BY <1>c, <2>1, <2>2, Turn
    <3> QED BY <1>c, <2>2, <3>1
  <2>4. JitTypes'
    BY <1>t, <2>1, <2>2, <2>3 DEF JitTypes
  <2>5. elapsed[r] = 0 /\ loops[r] = 0 /\ pending[r] = "none"
    BY <1>t, <2>1 DEF DelayOK, HandlerOK, JitTypes
  <2>6. jpc'[r] = "delay" /\ file'[r] = f /\ elapsed'[r] = 0
    BY <1>t, <2>1, <2>5 DEF JitTypes
  <2>7. ClockOf(r)'
    BY <1>c, <2>1, <2>2, <2>3, <2>6 DEF ClockOf
  <2>8. DelayOK(r)' /\ HandlerOK(r)'
    BY <1>c, <2>1, <2>5, <2>6, <2>7 DEF DelayOK, HandlerOK, Jits!DelayFiles
  <2>9. ASSUME NEW q \in Reads, q # r PROVE DelayOK(q)' /\ HandlerOK(q)'
    BY <1>t, <2>1, <2>9, OtherReads DEF JitTypes
  <2> QED BY <2>4, <2>8, <2>9 DEF JitInv
<1>3. ASSUME NEW r \in Reads, NEW f \in {"jitimer", "jitasklet", "jitasklethi"},
             NEW what \in {"timer", "tasklet", "tasklet_hi"}, Jits!Start(r, f, what)
      PROVE  JitInv'
  <2>1. /\ jpc[r] = "idle" /\ jpc' = [jpc EXCEPT ![r] = "test"]
        /\ file' = [file EXCEPT ![r] = f]
        /\ loops' = [loops EXCEPT ![r] = JIT_ASYNC_LOOPS]
        /\ pending' = [pending EXCEPT ![r] = what]
        /\ UNCHANGED <<jiffies, j1, elapsed, waking, sig>>
    BY <1>3 DEF Jits!Start, Jits!Goto
  <2>4. JitTypes'
    BY <1>t, <1>c, <2>1 DEF JitTypes
  <2>8. DelayOK(r)' /\ HandlerOK(r)'
    BY <1>t, <1>c, <2>1 DEF JitTypes, DelayOK, HandlerOK, Jits!DelayFiles
  <2>9. ASSUME NEW q \in Reads, q # r PROVE DelayOK(q)' /\ HandlerOK(q)'
    BY <1>t, <2>1, <2>9, OtherReads DEF JitTypes
  <2> QED BY <2>4, <2>8, <2>9 DEF JitInv
<1>4. ASSUME NEW r \in Reads, Jits!Signal(r)
      PROVE  JitInv'
  <2>1. sig' = sig \cup {r} /\ UNCHANGED <<jiffies, jpc, file, j1, elapsed, loops, pending, waking>>
    BY <1>4 DEF Jits!Signal
  <2>2. JitTypes'
    BY <1>t, <2>1 DEF JitTypes
  <2>3. ASSUME NEW q \in Reads PROVE DelayOK(q)' /\ HandlerOK(q)'
    BY <1>t, <2>1 DEF DelayOK, HandlerOK, ClockOf, Jits!DelayFiles
  <2> QED BY <2>2, <2>3 DEF JitInv
<1>5. ASSUME NEW r \in Reads, NEW f \in Jits!DelayFiles, Jits!DelayEnds(r, f),
             \/ Jits!TimeUp(r)
             \/ r \in sig /\ f \in {"jitqueue", "jitschedto"}
      PROVE  JitInv'
  <2>1. /\ jpc[r] = "delay" /\ jpc' = [jpc EXCEPT ![r] = "done"] /\ file[r] = f
        /\ j1' = [j1 EXCEPT ![r] = 0]
        /\ UNCHANGED <<jiffies, file, elapsed, loops, pending, waking, sig>>
    BY <1>5 DEF Jits!DelayEnds, Jits!Goto
  <2>2. elapsed[r] >= delay \/ (r \in sig /\ f \in {"jitqueue", "jitschedto"})
    BY <1>5, <2>1, TimeUpMeans
  <2>4. JitTypes'
    BY <1>t, <1>c, <2>1 DEF JitTypes
  <2>8. DelayOK(r)' /\ HandlerOK(r)'
    BY <1>t, <2>1, <2>2 DEF JitTypes, DelayOK, HandlerOK, Jits!DelayFiles
  <2>9. ASSUME NEW q \in Reads, q # r PROVE DelayOK(q)' /\ HandlerOK(q)'
    BY <1>t, <2>1, <2>9, OtherReads DEF JitTypes
  <2> QED BY <2>4, <2>8, <2>9 DEF JitInv
<1>6. ASSUME NEW r \in Reads, Jits!wait_event(r)
      PROVE  JitInv'
  <2>1. /\ jpc[r] \in {"test", "queued"}
        /\ jpc' = [jpc EXCEPT ![r] = IF loops[r] = 0 THEN "done"
                                     ELSE IF jpc[r] = "test" THEN "queued" ELSE "asleep"]
        /\ UNCHANGED <<jiffies, file, j1, elapsed, loops, pending, waking, sig>>
    BY <1>6 DEF Jits!wait_event, Jits!Goto
  <2>4. JitTypes'
    BY <1>t, <1>c, <2>1 DEF JitTypes
  <2>8. DelayOK(r)' /\ HandlerOK(r)'
    BY <1>t, <2>1 DEF JitTypes, DelayOK, HandlerOK, Jits!DelayFiles
  <2>9. ASSUME NEW q \in Reads, q # r PROVE DelayOK(q)' /\ HandlerOK(q)'
    BY <1>t, <2>1, <2>9, OtherReads DEF JitTypes
  <2> QED BY <2>4, <2>8, <2>9 DEF JitInv
<1>7. ASSUME NEW r \in Reads, NEW again \in {"timer", "tasklet"}, pending[r] # "none",
             Jits!LinePrinted(r, again)
      PROVE  JitInv'
  <2>1. /\ loops' = [loops EXCEPT ![r] = loops[r] - 1]
        /\ pending' = [pending EXCEPT ![r] = IF loops[r] > 1 THEN again ELSE "none"]
        /\ waking' = IF loops[r] > 1 THEN waking ELSE waking \cup {r}
        /\ UNCHANGED <<jiffies, jpc, file, j1, elapsed, sig>>
    BY <1>7 DEF Jits!LinePrinted
  <2>2. loops[r] \in Nat /\ loops[r] > 0 /\ jpc[r] \in {"test", "queued", "asleep"}
    BY <1>t, <1>7 DEF JitTypes, HandlerOK
  <2>4. JitTypes'
    BY <1>t, <2>1, <2>2 DEF JitTypes
  <2>8. DelayOK(r)' /\ HandlerOK(r)'
    BY <1>t, <2>1, <2>2 DEF JitTypes, DelayOK, HandlerOK, Jits!DelayFiles
  <2>9. ASSUME NEW q \in Reads, q # r PROVE DelayOK(q)' /\ HandlerOK(q)'
    BY <1>t, <2>1, <2>9, OtherReads DEF JitTypes
  <2> QED BY <2>4, <2>8, <2>9 DEF JitInv
<1>8. ASSUME NEW r \in Reads, Jits!wake_up(r)
      PROVE  JitInv'
  <2>1. /\ waking' = waking \ {r}
        /\ jpc' = IF jpc[r] = "asleep" THEN [jpc EXCEPT ![r] = "queued"] ELSE jpc
        /\ UNCHANGED <<jiffies, file, j1, elapsed, loops, pending, sig>>
    BY <1>8 DEF Jits!wake_up
  <2>2. JitTypes'
    BY <1>t, <2>1 DEF JitTypes
  <2>8. DelayOK(r)' /\ HandlerOK(r)'
    BY <1>t, <2>1 DEF JitTypes, DelayOK, HandlerOK, ClockOf, Jits!DelayFiles
  <2>9. ASSUME NEW q \in Reads, q # r PROVE DelayOK(q)' /\ HandlerOK(q)'
    BY <1>t, <2>1, <2>9, OtherReads DEF JitTypes
  <2> QED BY <2>2, <2>8, <2>9 DEF JitInv
<1>9. ASSUME NEW r \in Reads, Jits!ReadStep(r) \/ Jits!HandlerStep(r)
      PROVE  JitInv'
  <2>1. CASE Jits!jit_busy(r)
    BY <1>5, <2>1 DEF Jits!jit_busy, Jits!DelayFiles
  <2>2. CASE Jits!jit_sched(r)
    BY <1>5, <2>2 DEF Jits!jit_sched, Jits!DelayFiles
  <2>3. CASE Jits!jit_queue(r)
    BY <1>5, <2>3 DEF Jits!jit_queue, Jits!DelayFiles
  <2>4. CASE Jits!jit_schedto(r)
    BY <1>5, <2>4 DEF Jits!jit_schedto, Jits!DelayFiles
  <2>5. CASE Jits!jit_timer_fn(r)
    BY <1>7, <2>5 DEF Jits!jit_timer_fn
  <2>6. CASE Jits!jit_tasklet_fn(r)
    BY <1>7, <2>6 DEF Jits!jit_tasklet_fn
  <2> QED BY <1>6, <1>8, <1>9, <2>1, <2>2, <2>3, <2>4, <2>5, <2>6
          DEF Jits!ReadStep, Jits!HandlerStep
<1> QED BY <1>1, <1>2, <1>3, <1>4, <1>9
        DEF Jits!Next, Jits!jit_timer, Jits!jit_tasklet, Jits!jit_tasklethi
-----------------------------------------------------------------------------
(***************************************************************************)
(* All devices.                                                            *)
(***************************************************************************)
DevicesInv ==
  /\ kind = "single" => SingleInv
  /\ kind = "uid" => UidInv
  /\ kind = "wuid" => WuidInv
  /\ kind = "priv" => PrivInv
  /\ kind = "sleepy" => SleepyInv
  /\ kind = "complete" => CompInv
  /\ kind = "jit" => JitInv

(* A stuttering step changes nothing.                                      *)
LEMMA Stutter ==
  ASSUME DevicesInv, UNCHANGED vars
  PROVE  DevicesInv'
<1> USE DEF vars, scull, demos, single, uids, waits, priv, compl, jits
<1>1. kind' = kind
  OBVIOUS
<1>2. SingleInv => SingleInv'
  BY DEF SingleInv, Single!Holders, Busy, Single!NoInterference
<1>3. UidInv => UidInv'
  BY DEF UidInv, Uid!Holders, Uid!OneUserAtATime, Uid!NoForeignWrite, Uid!Owns
<1>4. WuidInv => WuidInv'
  BY DEF WuidInv, Wuid!Holders, Wuid!OneUserAtATime, Wuid!NoForeignWrite, Wuid!Owns,
         WaiterOK, Wuid!scull_w_available, Wuid!WillWake
<1>5. PrivInv => PrivInv'
  BY DEF PrivInv, PrivTypes, KeysDistinct, PrivLocked, RightItem
<1>6. SleepyInv => SleepyInv'
  BY DEF SleepyInv, Sleep!NoReaderForgotten
<1>7. CompInv => CompInv'
  BY DEF CompInv, Woken
<1>8. JitInv => JitInv'
  BY DEF JitInv, JitTypes, DelayOK, HandlerOK, ClockOf
<1> QED BY <1>1, <1>2, <1>3, <1>4, <1>5, <1>6, <1>7, <1>8 DEF DevicesInv

(* Every device keeps its invariant: the inductive invariant of the small  *)
(* devices.                                                                *)
THEOREM DevicesCorrect == Spec => []DevicesInv
<1>1. Init => DevicesInv
  BY SingleInitially, UidInitially, WuidInitially, PrivInitially, SleepyInitially,
     CompInitially, JitInitially DEF Init, DevicesInv
<1>2. DevicesInv /\ [Next]_vars => DevicesInv'
  <2> SUFFICES ASSUME DevicesInv, [Next]_vars PROVE DevicesInv'
    OBVIOUS
  <2>1. CASE kind = "single" /\ Single!Next /\ kind' = kind
    BY <2>1, SingleStep DEF DevicesInv
  <2>2. CASE kind = "uid" /\ Uid!Next /\ kind' = kind
    BY <2>2, UidStep DEF DevicesInv
  <2>3. CASE kind = "wuid" /\ Wuid!Next /\ kind' = kind
    BY <2>3, WuidStep DEF DevicesInv
  <2>4. CASE kind = "priv" /\ Priv!Next /\ kind' = kind
    BY <2>4, PrivStep DEF DevicesInv
  <2>5. CASE kind = "sleepy" /\ Sleep!Next /\ kind' = kind
    BY <2>5, SleepyStep DEF DevicesInv
  <2>6. CASE kind = "complete" /\ Comp!Next /\ kind' = kind
    BY <2>6, CompStep DEF DevicesInv
  <2>7. CASE kind = "jit" /\ Jits!Next /\ kind' = kind
    BY <2>7, JitStep DEF DevicesInv
  <2>8. CASE UNCHANGED vars
    BY <2>8, Stutter
  <2> QED BY <2>1, <2>2, <2>3, <2>4, <2>5, <2>6, <2>7, <2>8
          DEF Next, OfWuid, OfSleepy, OfJit
<1> QED BY <1>1, <1>2, PTL DEF Spec

(* scullsingle: nobody changes what a process wrote while it has the       *)
(* device open.                                                            *)
THEOREM OwnDataOnly == Spec => []NoInterference
<1>1. DevicesInv => NoInterference
  BY DEF DevicesInv, NoInterference, SingleInv
<1> QED BY <1>1, DevicesCorrect, PTL

(* scullsingle: the count is the number of processes that took part of it. *)
THEOREM SingleCountConserved == Spec => []CountConserved
<1>1. DevicesInv => CountConserved
  BY SameCount DEF DevicesInv, CountConserved, SingleInv, Single!CountConserved, Busy
<1> QED BY <1>1, DevicesCorrect, PTL

(* sculluid and scullwuid: count is the number of processes inside.        *)
THEOREM HoldersCounted == Spec => []CountExact
<1>1. DevicesInv => CountExact
  BY SameCount DEF DevicesInv, CountExact, UidInv, WuidInv, Uid!CountExact, Wuid!CountExact
<1> QED BY <1>1, DevicesCorrect, PTL

(* sculluid and scullwuid: only the owner's processes are inside, however  *)
(* many opens race.                                                        *)
THEOREM OwnerOnly == Spec => []OneUserAtATime
<1>1. DevicesInv => OneUserAtATime
  BY DEF DevicesInv, OneUserAtATime, UidInv, WuidInv
<1> QED BY <1>1, DevicesCorrect, PTL

(* sculluid and scullwuid: only the owner's processes write.               *)
THEOREM OwnerWrites == Spec => []NoForeignWrite
<1>1. DevicesInv => NoForeignWrite
  BY DEF DevicesInv, NoForeignWrite, UidInv, WuidInv
<1> QED BY <1>1, DevicesCorrect, PTL

(* scullwuid: no wake-up by a release is lost.                             *)
THEOREM ReleaseWakes == Spec => []WaiterWokenByRelease
<1>1. WuidInv => Wuid!WaiterWokenByRelease
  BY DEF WuidInv, WaiterOK, Wuid!WaiterWokenByRelease
<1>2. DevicesInv => WaiterWokenByRelease
  BY <1>1 DEF DevicesInv, WaiterWokenByRelease
<1> QED BY <1>2, DevicesCorrect, PTL

(* scullpriv: one device per terminal.                                     *)
THEOREM TerminalsApart == Spec => []OneDevicePerTerminal
<1>1. ASSUME PrivInv PROVE Priv!OneDevicePerTerminal
  <2> SUFFICES ASSUME NEW p \in Procs, NEW q \in Procs, private_data[p] # 0, private_data[q] # 0
               PROVE  /\ private_data[p] \in DOMAIN list
                      /\ key[p] = key[q] <=> private_data[p] = private_data[q]
    BY DEF Priv!OneDevicePerTerminal
  <2>1. /\ private_data[p] \in 1 .. Len(list) /\ list[private_data[p]] = key[p]
        /\ private_data[q] \in 1 .. Len(list) /\ list[private_data[q]] = key[q]
    BY <1>1 DEF PrivInv, RightItem
  <2>2. DOMAIN list = 1 .. Len(list)
    BY <1>1 DEF PrivInv, PrivTypes
  <2> QED BY <1>1, <2>1, <2>2 DEF PrivInv, KeysDistinct
<1>2. DevicesInv => OneDevicePerTerminal
  BY <1>1 DEF DevicesInv, OneDevicePerTerminal
<1> QED BY <1>2, DevicesCorrect, PTL

(* sleepy, complete and jit: no reader is forgotten asleep.                *)
THEOREM SleepersRemembered == Spec => []NoReaderForgotten
<1>1. CompInv => Comp!NoReaderForgotten
  BY SameCount DEF CompInv, Comp!NoReaderForgotten, Woken
<1>2. JitInv => Jits!NoReaderForgotten
  BY DEF JitInv, HandlerOK, Jits!NoReaderForgotten
<1>3. DevicesInv => NoReaderForgotten
  BY <1>1, <1>2 DEF DevicesInv, NoReaderForgotten, SleepyInv
<1> QED BY <1>3, DevicesCorrect, PTL

(* jit: a handler prints only into the frame of a read that is still       *)
(* there.                                                                  *)
THEOREM FrameOutlivesHandler == Spec => []HandlerHasFrame
<1>1. JitInv => Jits!HandlerHasFrame
  BY DEF JitInv, HandlerOK, Jits!HandlerHasFrame
<1>2. DevicesInv => HandlerHasFrame
  BY <1>1 DEF DevicesInv, HandlerHasFrame
<1> QED BY <1>2, DevicesCorrect, PTL

(* jit: no read of a delay file returns early, whatever jiffies does.      *)
THEOREM DelaysHonoured == Spec => []DelayHonoured
<1>1. JitInv => Jits!DelayHonoured
  BY DEF JitInv, DelayOK, Jits!DelayHonoured
<1>2. DevicesInv => DelayHonoured
  BY <1>1 DEF DevicesInv, DelayHonoured
<1> QED BY <1>2, DevicesCorrect, PTL
=============================================================================
