--------------------------------- MODULE Load ---------------------------------
(***************************************************************************)
(* How the character-device and /proc modules are loaded and unloaded; the *)
(* loading of the network module is in SnullLoad and that of the RAM disk  *)
(* in Sbull.  Each init function acquires resources in a fixed order and   *)
(* each cleanup function releases them in another; a module's script is    *)
(* those two orders.  The kernel runs one of init and cleanup at a time,   *)
(* and unloads a module only when none of its devices is open.             *)
(*                                                                         *)
(* A loop that does two things to each device is two entries of a script,  *)
(* one for all the devices: nothing can fail between the two, and what is  *)
(* done to one device is of no use to another.  The results of             *)
(* class_create and device_create, which no init function looks at, are    *)
(* taken to be good.                                                       *)
(***************************************************************************)
EXTENDS Naturals, Sequences

VARIABLES
  driver,  \* the module
  mpc,     \* "out", "init", "live", "cleanup"
  script,  \* what is left of the script of init or of cleanup
  have,    \* per resource: how many the module holds
  failed,  \* steps that failed since the module was last out
  bad      \* something was released that had never been set up

vars == <<driver, mpc, script, have, failed, bad>>

Resources ==
  {"region", "chrdev", "class", "device", "memory", "cache", "ready", "cdev", "proc"}

(* "ready" is no resource: it says that cdev_init, INIT_WORK and the       *)
(* constructor of the device have run.                                     *)
Released == Resources \ {"ready"}

(***************************************************************************)
(* A step of init: acquire n of r.  else says what follows a failure:      *)
(*   "return"    nothing was acquired yet, init returns the error;         *)
(*   "cleanup"   the cleanup function runs;                                *)
(*   "continue"  it is reported and init goes on with what there is;       *)
(*   "never"     it cannot fail, or is taken not to.                       *)
(***************************************************************************)
Take(r, n, else) == [res |-> r, n |-> n, else |-> else]

(* A step of cleanup, skipped when the module does not hold if. *)
Drop(r, n, if) == [res |-> r, n |-> n, if |-> if]
-----------------------------------------------------------------------------
(* 4 scull, 4 scullpipe, scullsingle, sculluid, scullwuid and scullpriv.   *)
(* cleanup gives back DEVICE_FILE_COUNT device numbers.                    *)
scull_init ==
  <<Take("region", 12, "return"), Take("class", 1, "never"), Take("device", 12, "never"),
    Take("ready", 12, "never"), Take("cdev", 12, "continue")>>
scull_cleanup ==
  <<Drop("cdev", 12, "any"), Drop("device", 12, "any"), Drop("class", 1, "any"),
    Drop("region", 4, "any")>>

scullc_init ==
  <<Take("region", 4, "return"), Take("class", 1, "never"), Take("cache", 1, "cleanup"),
    Take("device", 4, "never"), Take("ready", 4, "never"), Take("cdev", 4, "continue")>>
scullc_cleanup ==
  <<Drop("cdev", 4, "any"), Drop("device", 4, "any"), Drop("cache", 1, "cache"),
    Drop("class", 1, "any"), Drop("region", 4, "any")>>

scullp_init ==
  <<Take("region", 4, "return"), Take("class", 1, "never"), Take("device", 4, "never"),
    Take("ready", 4, "never"), Take("cdev", 4, "continue")>>
scullp_cleanup ==
  <<Drop("cdev", 4, "any"), Drop("device", 4, "any"), Drop("class", 1, "any"),
    Drop("region", 4, "any")>>

scullv_init    == scullp_init
scullv_cleanup == scullp_cleanup

sleepy_init ==
  <<Take("region", 1, "return"), Take("class", 1, "never"), Take("device", 1, "never"),
    Take("ready", 1, "never"), Take("cdev", 1, "continue")>>
sleepy_cleanup ==
  <<Drop("cdev", 1, "any"), Drop("device", 1, "any"), Drop("class", 1, "any"),
    Drop("region", 1, "any")>>

complete_init    == sleepy_init
complete_cleanup == sleepy_cleanup

scull_device_init ==
  <<Take("region", 1, "return"), Take("class", 1, "never"), Take("device", 1, "never"),
    Take("memory", 1, "cleanup"), Take("ready", 1, "never"), Take("cdev", 1, "continue")>>

(* Mutants: the device structure is not freed; it goes before its cdev. *)
scull_device_cleanup_leak ==
  <<Drop("cdev", 1, "memory"), Drop("device", 1, "any"), Drop("class", 1, "any"),
    Drop("region", 1, "any")>>
scull_device_cleanup_early ==
  <<Drop("memory", 1, "memory"), Drop("cdev", 1, "any"), Drop("device", 1, "any"),
    Drop("class", 1, "any"), Drop("region", 1, "any")>>

scull_device_cleanup ==
  <<Drop("cdev", 1, "memory"), Drop("memory", 1, "memory"), Drop("device", 1, "any"),
    Drop("class", 1, "any"), Drop("region", 1, "any")>>

(* register_chrdev makes every minor number of the major reachable. *)
scull_p_init ==
  <<Take("chrdev", 1, "return"), Take("class", 1, "never"), Take("device", 1, "never"),
    Take("memory", 1, "cleanup"), Take("ready", 1, "never"), Take("cdev", 1, "continue")>>
scull_p_cleanup ==
  <<Drop("cdev", 1, "memory"), Drop("memory", 1, "memory"), Drop("device", 1, "any"),
    Drop("class", 1, "any"), Drop("chrdev", 1, "any")>>

(* The failing init removes what it created itself, as cleanup does. *)
jit_init    == <<Take("proc", 8, "cleanup")>>
jit_cleanup == <<Drop("proc", 8, "any")>>

(* jiq_cleanup neither flushes the work items nor kills the tasklet: what  *)
(* is still due of Jiq when the last reader has left runs after the unload. *)
jiq_init    == <<Take("ready", 1, "never"), Take("proc", 4, "cleanup")>>
jiq_cleanup == <<Drop("proc", 4, "any")>>

Modules ==
  [scull        |-> [init |-> scull_init, cleanup |-> scull_cleanup],
   scullc       |-> [init |-> scullc_init, cleanup |-> scullc_cleanup],
   scullp       |-> [init |-> scullp_init, cleanup |-> scullp_cleanup],
   scullv       |-> [init |-> scullv_init, cleanup |-> scullv_cleanup],
   sleepy       |-> [init |-> sleepy_init, cleanup |-> sleepy_cleanup],
   complete     |-> [init |-> complete_init, cleanup |-> complete_cleanup],
   scull_device |-> [init |-> scull_device_init, cleanup |-> scull_device_cleanup],
   scull_p      |-> [init |-> scull_p_init, cleanup |-> scull_p_cleanup],
   jit          |-> [init |-> jit_init, cleanup |-> jit_cleanup],
   jiq          |-> [init |-> jiq_init, cleanup |-> jiq_cleanup]]
-----------------------------------------------------------------------------
Init ==
  /\ driver \in DOMAIN Modules
  /\ mpc = "out"
  /\ script = <<>>
  /\ have = [r \in Resources |-> 0]
  /\ failed = {}
  /\ bad = FALSE

insmod ==
  /\ mpc = "out"
  /\ mpc' = "init"
  /\ script' = Modules[driver].init
  /\ have' = [r \in Resources |-> 0]
  /\ failed' = {}
  /\ bad' = FALSE
  /\ UNCHANGED driver

(* The next step of init succeeds. *)
take ==
  /\ mpc = "init"
  /\ have' = [have EXCEPT ![Head(script).res] = Head(script).n]
  /\ script' = Tail(script)
  /\ mpc' = IF Tail(script) = <<>> THEN "live" ELSE "init"
  /\ UNCHANGED <<driver, failed, bad>>

(* It fails, with only k of the n acquired. *)
take_fails(k) ==
  LET s == Head(script)
  IN  /\ mpc = "init" /\ s.else # "never" /\ k < s.n
      /\ have' = [have EXCEPT ![s.res] = k]
      /\ failed' = failed \cup {s.res}
      /\ \/ /\ s.else = "return" /\ k = 0
            /\ mpc' = "out" /\ script' = <<>>
         \/ /\ s.else = "cleanup"
            /\ mpc' = "cleanup" /\ script' = Modules[driver].cleanup
         \/ /\ s.else = "continue"
            /\ script' = Tail(script)
            /\ mpc' = IF Tail(script) = <<>> THEN "live" ELSE "init"
      /\ UNCHANGED <<driver, bad>>

rmmod ==
  /\ mpc = "live"
  /\ mpc' = "cleanup"
  /\ script' = Modules[driver].cleanup
  /\ UNCHANGED <<driver, have, failed, bad>>

(* What the kernel does with a release: unregister_chrdev_region finds     *)
(* nothing to release when the count is not the one that was allocated,    *)
(* and cdev_del is for a cdev that cdev_init made ready; other releases of *)
(* nothing are harmless.                                                   *)
Left(s) == IF s.res = "region" /\ have["region"] # s.n THEN have["region"] ELSE 0
NeverSetUp(s) == s.res = "cdev" /\ have["ready"] < s.n

(* One step of cleanup.  A cdev that is gone is no longer ready. *)
drop ==
  LET s    == Head(script)
      done == s.if = "any" \/ have[s.if] > 0
  IN  /\ mpc = "cleanup"
      /\ have' = IF ~done THEN have
                 ELSE [have EXCEPT ![s.res] = Left(s),
                                   !["ready"] = IF s.res = "cdev" THEN 0 ELSE @]
      /\ bad' = (bad \/ (done /\ NeverSetUp(s)))
      /\ script' = Tail(script)
      /\ mpc' = IF Tail(script) = <<>> THEN "out" ELSE "cleanup"
      /\ UNCHANGED <<driver, failed>>

Next ==
  \/ insmod \/ take \/ rmmod \/ drop
  \/ \E k \in 0 .. 11 : take_fails(k)

Spec == Init /\ [][Next]_vars
-----------------------------------------------------------------------------
(* Whatever step of the loading fails, a module that is out holds nothing, *)
(* but for the device numbers of scull; and it releases nothing that was   *)
(* never set up, but for scullc without its cache.                         *)
NothingLeaked ==
  /\ mpc = "out" =>
       \A r \in Released : have[r] = 0 \/ (driver = "scull" /\ r = "region")
  /\ bad => driver = "scullc" /\ "cache" \in failed

(* What a user can reach is set up, all through loading and unloading: a   *)
(* cdev has its device numbers and an initialised device in memory that is *)
(* there, and the files jiq has in /proc have their work items.            *)
(* The driver scull_p, which is reachable at once, is excepted.            *)
ReachableIsReady ==
  /\ have["cdev"] > 0 =>
       /\ have["ready"] >= have["cdev"]
       /\ have["region"] > 0 \/ have["chrdev"] > 0
       /\ driver \in {"scull_device", "scull_p"} => have["memory"] > 0
  /\ driver = "jiq" /\ have["proc"] > 0 => have["ready"] > 0

(* "Char device unregistered": nothing is left when a module is out. *)
UnloadsClean == mpc = "out" => \A r \in Released : have[r] = 0

(* Cleaning up after a failed load releases only what was set up. *)
UnwindsClean == ~bad

(* A major number that is registered leads to a device that is ready. *)
ChrdevIsReady == have["chrdev"] > 0 => have["ready"] > 0
=============================================================================
