-------------------------------- MODULE Sbull --------------------------------
(***************************************************************************)
(* The RAM disk of block_device/: the module's load and unload, with the   *)
(* unwinding of sbull_add_device when one of its steps fails, and the      *)
(* requests of several processes, which the block layer issues             *)
(* concurrently and the driver serves without a lock.                      *)
(*                                                                         *)
(* A segment of a request is one sector, and its memcpy is one step.       *)
(***************************************************************************)
EXTENDS Integers, Sequences, FiniteSets

CONSTANTS
  Procs,       \* processes that use the disk
  Builds,      \* of {"request", "bio"}: BIO_BASED_SBULL undefined or defined
  capacity,    \* sectors of the disk
  Values,      \* what a process writes to a sector
  Capacities   \* disk sizes the geometry is computed for

ASSUME SbullAssumption ==
  /\ IsFiniteSet(Procs) /\ Builds \subseteq {"request", "bio"}
  /\ capacity \in Nat \ {0} /\ Capacities \subseteq Nat

VARIABLES
  build,         \* how the module was compiled
  lpc,           \* the loader: out, add (sbull_init), live, release
  todo,          \* resources it has still to acquire or to release
  held,          \* per resource: acquisitions minus releases
  open_counter,
  opened,        \* processes with the disk open
  data,          \* the vmalloc area, sector by sector
  req            \* per process: its request

vars == <<build, lpc, todo, held, open_counter, opened, data, req>>

Sectors == 0 .. capacity - 1
Junk    == "junk"
None    == [op |-> "none"]

(* What sbull_init and sbull_add_device acquire, in their order. *)
Steps ==
  IF build = "bio" THEN <<"blkdev", "dev", "data", "disk", "added">>
  ELSE <<"blkdev", "dev", "data", "tag_set", "disk", "added">>

Resources == {"blkdev", "dev", "data", "tag_set", "disk", "added"}

Init ==
  /\ build \in Builds
  /\ lpc = "out"
  /\ todo = Steps
  /\ held = [r \in Resources |-> 0]
  /\ open_counter = 0
  /\ opened = {}
  /\ data = [s \in Sectors |-> Junk]
  /\ req = [p \in Procs |-> None]
-----------------------------------------------------------------------------
(* Loading and unloading.  The kernel runs one of init and exit at a time. *)

(* One step of sbull_init succeeds: register_blkdev, kzalloc, vmalloc (the *)
(* area is not cleared), the tag set, the disk, add_disk.                  *)
sbull_add_device ==
  LET r == Head(todo)
  IN  /\ lpc \in {"out", "add"}
      /\ held' = [held EXCEPT ![r] = @ + 1]
      /\ open_counter' = IF r = "dev" THEN 0 ELSE open_counter
      /\ data' = IF r = "data" THEN [s \in Sectors |-> Junk] ELSE data
      /\ todo' = Tail(todo)
      /\ lpc' = IF Tail(todo) = <<>> THEN "live" ELSE "add"
      /\ UNCHANGED <<build, opened, req>>

(* Mutant: the tag set is not freed. *)
fail_label_early(r) ==
  IF r = "added" THEN <<"disk", "data", "dev", "blkdev">>
  ELSE IF r = "dev" THEN <<"blkdev">> ELSE <<"data", "dev", "blkdev">>

(* The resources released from the label a failed step jumps to, in the    *)
(* order of the labels: fail_put_disk, fail_free_tag_set, fail_vfree,      *)
(* fail_kfree, and unregister_blkdev back in sbull_init.                   *)
FailLabel(r) ==
  CASE r = "dev" -> <<"blkdev">>
    [] r = "data" -> <<"dev", "blkdev">>
    [] r = "tag_set" \/ (r = "disk" /\ build = "bio") -> <<"data", "dev", "blkdev">>
    [] r = "disk" /\ build = "request" -> <<"tag_set", "data", "dev", "blkdev">>
    [] r = "added" -> IF build = "bio" THEN <<"disk", "data", "dev", "blkdev">>
                      ELSE <<"disk", "tag_set", "data", "dev", "blkdev">>

(* A step of sbull_add_device fails. *)
sbull_add_fails ==
  /\ lpc = "add"
  /\ lpc' = "release" /\ todo' = FailLabel(Head(todo))
  /\ UNCHANGED <<build, held, open_counter, opened, data, req>>

(* Mutant: the data area goes before the disk. *)
remove_data_first ==
  IF build = "bio" THEN <<"added", "data", "disk", "dev", "blkdev">>
  ELSE <<"added", "data", "disk", "tag_set", "dev", "blkdev">>

(* What sbull_remove_device and sbull_exit release: del_gendisk, put_disk, *)
(* the tag set, vfree, kfree, unregister_blkdev.                           *)
RemoveOrder ==
  IF build = "bio" THEN <<"added", "disk", "data", "dev", "blkdev">>
  ELSE <<"added", "disk", "tag_set", "data", "dev", "blkdev">>

(* sbull_exit.  sbull_fops.owner counts every opening as a use of the      *)
(* module, and the kernel unloads it only when there is none.              *)
sbull_exit ==
  /\ lpc = "live" /\ opened = {}
  /\ lpc' = "release" /\ todo' = RemoveOrder
  /\ UNCHANGED <<build, held, open_counter, opened, data, req>>

(* One release of the unwinding or of the removal. *)
release_one ==
  /\ lpc = "release"
  /\ held' = [held EXCEPT ![Head(todo)] = @ - 1]
  /\ IF Tail(todo) = <<>> THEN lpc' = "out" /\ todo' = Steps
     ELSE lpc' = lpc /\ todo' = Tail(todo)
  /\ UNCHANGED <<build, open_counter, opened, data, req>>
-----------------------------------------------------------------------------
(* The disk in use. *)

(* _sbull_open: once add_disk has run; a module that is leaving refuses. *)
sbull_open(p) ==
  /\ held["added"] > 0 /\ lpc = "live" /\ p \notin opened
  /\ open_counter' = open_counter + 1
  /\ opened' = opened \cup {p}
  /\ UNCHANGED <<build, lpc, todo, held, data, req>>

(* _sbull_release: the block layer has flushed the process's requests. *)
sbull_release(p) ==
  /\ p \in opened /\ req[p] = None
  /\ open_counter' = open_counter - 1
  /\ opened' = opened \ {p}
  /\ UNCHANGED <<build, lpc, todo, held, data, req>>

(* Mutant: one sector too many. *)
set_capacity_over == capacity + 1

(* set_capacity: what the block layer believes the disk's size to be. *)
set_capacity == capacity

Span(r)    == r.pos .. r.pos + r.n - 1
InFlight   == {p \in Procs : req[p].op # "none"}
Writing(p) == p \in InFlight /\ req[p].op = "write"

(* The block layer issues a request that lies within the disk's size.      *)
(* Ghost field clash: its sectors that an overlapping write touches too.   *)
submit(p, op, pos, n, v) ==
  LET r == [op |-> op, pos |-> pos, n |-> n, val |-> v, cur |-> pos, left |-> n,
            got |-> [s \in pos .. pos + n - 1 |-> "unread"], err |-> FALSE,
            clash |-> {s \in pos .. pos + n - 1 :
                         \E q \in Procs : Writing(q) /\ s \in Span(req[q])}]
  IN  /\ p \in opened /\ req[p] = None /\ pos + n <= set_capacity
      /\ req' = [q \in Procs |->
                   IF q = p THEN r
                   ELSE IF q \in InFlight /\ op = "write"
                     THEN [req[q] EXCEPT !.clash = @ \cup (Span(req[q]) \cap Span(r))]
                     ELSE req[q]]
      /\ UNCHANGED <<build, lpc, todo, held, open_counter, opened, data>>

(* One memcpy of a segment and the move to the next: len is 1 or 0. *)
copy_segment(p, len) ==
  LET r == req[p]
  IN  /\ data' = IF r.op = "write" /\ len = 1 THEN [data EXCEPT ![r.cur] = r.val] ELSE data
      /\ req' = [req EXCEPT ![p].cur = @ + len, ![p].left = @ - 1,
                            ![p].got = IF r.op = "read" /\ len = 1
                                       THEN [@ EXCEPT ![r.cur] = data[r.cur]] ELSE @]

(* The loop of process_request: a segment past the end is cut short. *)
process_request(p) ==
  /\ build = "request" /\ p \in InFlight /\ req[p].left > 0
  /\ copy_segment(p, IF req[p].cur + 1 > capacity THEN capacity - req[p].cur ELSE 1)
  /\ UNCHANGED <<build, lpc, todo, held, open_counter, opened>>

(* The loop of process_bio: a segment past the end fails the bio. *)
process_bio(p) ==
  /\ build = "bio" /\ p \in InFlight /\ req[p].left > 0
  /\ IF req[p].cur + 1 > capacity
     THEN /\ req' = [req EXCEPT ![p].err = TRUE, ![p].left = 0]
          /\ data' = data
     ELSE copy_segment(p, 1)
  /\ UNCHANGED <<build, lpc, todo, held, open_counter, opened>>

(* blk_mq_end_request or bio_endio. *)
end_request(p) ==
  /\ p \in InFlight /\ req[p].left = 0
  /\ req' = [req EXCEPT ![p] = None]
  /\ UNCHANGED <<build, lpc, todo, held, open_counter, opened, data>>

(* Mutant: the divisions round down. *)
getgeo_floor(cap) ==
  LET quotient == cap \div 63
  IN  IF cap <= 63 THEN [sectors |-> cap % 256, heads |-> 1, cylinders |-> 1]
      ELSE IF quotient > 255
        THEN [sectors |-> 63, heads |-> 255, cylinders |-> (quotient \div 255) % 65536]
        ELSE [sectors |-> 63, heads |-> quotient % 256, cylinders |-> 1]

(* ioctl_hdio_getgeo, with the widths of the fields of hd_geometry. *)
ioctl_hdio_getgeo(cap) ==
  LET quotient == (cap + 62) \div 63
  IN  IF cap <= 63 THEN [sectors |-> cap % 256, heads |-> 1, cylinders |-> 1]
      ELSE IF quotient > 255
        THEN [sectors |-> 63, heads |-> 255, cylinders |-> ((quotient + 254) \div 255) % 65536]
        ELSE [sectors |-> 63, heads |-> quotient % 256, cylinders |-> 1]

Next ==
  \/ sbull_add_device \/ sbull_add_fails \/ sbull_exit \/ release_one
  \/ \E p \in Procs :
       \/ sbull_open(p) \/ sbull_release(p)
       \/ \E op \in {"read", "write"}, pos \in 0 .. capacity, n \in 1 .. capacity, v \in Values :
            submit(p, op, pos, n, v)
       \/ process_request(p) \/ process_bio(p) \/ end_request(p)

Spec == Init /\ [][Next]_vars
-----------------------------------------------------------------------------
(* Whatever step of the loading fails, the unwinding of sbull_add_device   *)
(* and sbull_init gives back each resource exactly once, as does the       *)
(* removal: nothing is held, and nothing was freed twice, once the module  *)
(* is out.                                                                 *)
NothingLeaked == lpc = "out" => \A r \in Resources : held[r] = 0

(* The order of the unwinding and of sbull_remove_device: the disk goes    *)
(* before its tag set, and both before the sbull_dev_t that contains or    *)
(* points to them; nothing is released under what still uses it.           *)
ReleasedInOrder ==
  /\ held["added"] > 0 => held["disk"] > 0
  /\ held["disk"] > 0 => held["data"] > 0 /\ (build = "request" => held["tag_set"] > 0)
  /\ held["tag_set"] > 0 => held["dev"] > 0
  /\ held["data"] > 0 => held["dev"] > 0
  /\ held["dev"] > 0 => held["blkdev"] > 0

(* The data area is there for as long as a process has the disk open or a  *)
(* request is being served: vfree and kfree come after the last user.      *)
DataLive ==
  (open_counter # 0 \/ InFlight # {}) =>
    \A r \in {"data", "dev", "disk"} : held[r] > 0

(* A request that has been served, with no error, has moved each of its    *)
(* sectors, to and from the right place: a written sector holds the value  *)
(* written, a read one was read as it is.  Sectors that another write      *)
(* touched meanwhile are excepted.                                         *)
RequestIntact ==
  \A p \in InFlight :
    LET r == req[p]
    IN  r.left = 0 /\ ~r.err =>
          \A s \in Span(r) \ r.clash :
            IF r.op = "write" THEN s \in Sectors /\ data[s] = r.val
            ELSE s \in Sectors /\ r.got[s] = data[s]

(* The geometry that HDIO_GETGEO reports of a disk in use has room for all *)
(* its sectors, and less than one track, or one cylinder, to spare.        *)
GeometryCovers ==
  lpc = "live" => \A cap \in Capacities :
    LET g == ioctl_hdio_getgeo(cap)
        size == g.cylinders * g.heads * g.sectors
    IN  size >= cap /\ size - cap < IF g.cylinders = 1 THEN 63 ELSE 63 * 255
=============================================================================
