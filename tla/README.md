# TLA+ models of the ldd3-kernel6 drivers

The repository holds the drivers of *Linux Device Drivers, 3rd edition*, brought
to a 6.x kernel: small kernel modules, each with its own state, its own locks
and its own mistakes to make. This directory models all of them that keep state,
checks them with TLC on small instances, and proves the safety properties and the refinements
with TLAPS for every instance.

## 1. Inventory

| Component | State it keeps | Operations | What is hard | What makes it correct |
|---|---|---|---|---|
| **scullpipe** `scull_full/impl/scull_pipe.c` | circular buffer, `rp`, `wp`, reader and writer counts, mutex, wait queues `inq`/`outq`, async queue | open, release, read, write, poll, fasync | wait conditions are evaluated without the mutex, by two loads, while pointers are advanced and wrapped by two stores; every open rewinds the pipe; signals and `O_NONBLOCK` at each turn of the loop | bytes come out once and in order; no lost wake-up; buffer lives as long as its users |
| **scull** `scull_full/impl/scull_dev_common.c` | list of quantum sets, size, current and future geometry, mutex | open (trims), read, write, ioctl, llseek | geometry changes by ioctl without a lock; allocations and copies fail half way; zero divisor | the list is a sparse file; the data always have the geometry the fields state |
| **scullsingle** `scull_single.c` | atomic `available` | open, release around scull | the decrement and the increment that undoes it are two steps; the inner open can fail | one process at a time; the count is never lost |
| **sculluid** `scull_uid.c` | `count`, `owner`, spinlock | the same | the inner open runs after the unlock and can fail | one user at a time |
| **scullwuid** `scull_wuid.c` | the same and a wait queue | the same, blocking | the wait condition is read without the lock; a failed open also lowers the count | and no waiter is forgotten |
| **scullpriv** `scull_priv.c` | list of per-terminal devices, spinlock | open, release, unload | two first opens of one terminal race | one device per terminal |
| **snull** `network_device/snull_device.c` | two interfaces: packet pool, receive list, status word, skb, interrupt flag, napi state | load, unload, open, stop, transmit, two interrupt handlers, poll, transmit timeout | removal frees one interface while the other sends; a transmitting thread runs the other interface's interrupt; `status` and `pkt->next` are used outside the lock; lost interrupts are simulated; the pool is bounded | buffers are conserved; a stopped queue is restarted; interrupts come back |
| **jiq** `jiq/main.c` | `jiq_data`, `cond`, `jiq_wait`, two work items, a tasklet, a timer | four /proc reads, four handlers | all of it shared without a lock; `buf` points into a reader's stack; the order of wake-up and condition | every reader is woken; nothing runs on after its reader |
| **sbull** `block_device/` | data area, disk, tag set, open counter | load, unload, open, release, requests (two builds), geometry | unwinding after each of six failing steps; concurrent requests without a lock; 8- and 16-bit fields | nothing leaks or is freed early; sectors move to where they belong |
| **scull_pipe_device** `fops.c` | as scullpipe, with a semaphore | as scullpipe | as scullpipe | as scullpipe |
| **scull_device** `fops.c` | as scull; the future geometry is in two globals | as scull | read and write load the geometry *before* they take the semaphore | no copy leaves its quantum |
| **scullc**, **scullp**, **scullv** `*_dev_common.c` | as scull, with a fixed geometry | as scull, without ioctl | copies go through a buffer on the stack: in pieces (scullc), or at once through one that is smaller than a quantum (scullp, scullv) | as scull |
| **sleepy** | a flag and a wait queue | read, write | no lock; every woken reader clears the flag | no reader sleeps on when the flag is up |
| **complete** | one completion | read, write | late readers take completions from woken ones | no completion is left over beside a sleeper |
| **jit** | per read: a counter, a wait queue, a timer or tasklet, all on its stack | seven /proc reads, two handlers | handlers write to the stack of a read that signals reach; the clock wraps | handlers find their frame; delays hold; reads return |
| module load and unload (`main.c` of each) | device numbers, classes, nodes, cdevs, memory, /proc files, interfaces | init, exit | a failure half way; the order of unwinding | everything is given back, and nothing before what uses it |

The components meet in three ways. scullsingle, sculluid, scullwuid and scullpriv
call `scull_dev_open` and use the storage of scull. The two snull interfaces call
each other's interrupt handlers. A `main.c` makes the devices of its driver reachable and takes
them away. Everything else is used by processes through
system calls, by the kernel's softirq, timer and work queue threads, and by signals.

## 2. Modules

| Module | Models |
|---|---|
| `ByteFifo` | abstract: a bounded queue of bytes with openings |
| `ScullPipe` | scullpipe; `ImplementsFifo` maps its ring to `ByteFifo` |
| `ScullPipeDevice` | the pipe of scull_pipe_device: the actions of `ScullPipe` grouped by its functions |
| `ScullPipeProofs`, `ScullPipeFifoProofs` | theorems about both pipes: the sleepers; the openings, the buffer and the bytes in it |
| `SparseFile` | abstract: a file of bytes with positions nobody wrote |
| `ScullStorage` | the list of quantum sets all scull memory drivers share, as operators: where a position lives, following and preparing the list, copying |
| `ScullDev` | scull (and the device scullpriv makes) |
| `ScullMem` | scullc, scullp and scullv |
| `ScullDevice` | scull_device |
| `ScullStores` | the five under one specification; `ImplementsSparseFile` maps their lists to `SparseFile` |
| `ScullStoresProofs`, `ScullFileProofs` | theorems about the five: the shape of their lists; that four of them are sparse files |
| `ScullUsers` | processes, user ids, capabilities, terminals: the constants of the access devices |
| `ScullSingle`, `ScullUid`, `ScullWuid`, `ScullPriv` | the four access policies; the storage behind them is abstracted to who changed it last |
| `Sleepy`, `Complete`, `Jit` | the three drivers whose reads wait |
| `SmallDevices` | the last seven under one specification |
| `SmallDevicesProofs` | theorems about the seven |
| `Snull` | the two network interfaces and the kernel's napi states |
| `SnullLoad` | the interfaces allocated, registered, unregistered, emptied and freed, with the traffic of `Snull` going on |
| `SnullProofs` | theorems about both |
| `Jiq` | the four /proc files and the four handlers |
| `JiqProofs` | theorems about them |
| `Sbull` | the RAM disk, its loader and its requests |
| `Load` | how ten other modules are loaded and unloaded: all but snull, sbull and hello_world |
| `KernelModules` | `Sbull` and `Load` under one specification |
| `KernelModulesProofs` | theorems about `Sbull` and `Load` |
| `MC*` | constants and symmetry for TLC |

`ScullStores`, `SmallDevices` and `KernelModules` are sums: their parts share no state in the code, so a behaviour
is one of one part, chosen in the initial state (`driver`, `kind`), while the variables of the others keep one value. The parts are
instances of their modules, and a property of the sum is that of the part the behaviour is one of.

### How state and actions correspond to the code

A variable has the name of the field it models. `pc[p]` is the place of a process
(or handler thread) inside a call; an action is a stretch of code between two
places where another thread can see or change something. A section under a mutex
or a spinlock is one action, *unless* something it writes is read without the lock;
then its stores are separate actions. Where the code reads shared data without a lock, each
load is an action of its own. The outcomes the environment decides (a signal,
`O_NONBLOCK`, a failing `kmalloc`, a fault in `copy_from_user`) are disjuncts.
Refusals that change nothing are stuttering steps. `PROJECT.json` gives the lines
of every definition. Operators that a comment calls *mutants* are deliberately
wrong variants of the definition after them, kept to show that a property can fail.

* **ScullPipe.** Pointers are offsets, `dev->end` is `scull_p_buffer`. The advance
  and the wrap of `rp` and `wp` (and the two stores of `rp = wp = buffer`) are separate
  actions, because `scull_pipe_read` and `scull_getwritespace` look at the pointers
  without the mutex. A wait is: prepare (join the queue), first load, second load and decision,
  schedule, finish. `caught` is a history variable: the writers on `outq` when an open
  rewound the pipe.
* **ScullPipeDevice.** The two sources differ in the lock only (a semaphore of 1, taken and given by the same process),
  so one step of one is one step of the other.
* **ScullStorage and its drivers.** `data` is the list itself: sequences of arrays of quanta, each possibly
  NULL. Index arithmetic is that of the code, for the geometry a call works with. In `ScullDev` `Private` selects how the device
  was made, and a write with an item size of zero ends the process inside the critical section (`oops`). In `ScullDevice`
  a call is the load of the geometry and, later, the rest under the semaphore; a quantum is the size it was allocated with, and
  `outdated` remembers that some call went on with a geometry that was no longer the device's. In `ScullMem` a fault leaves what was stored before it: whole
  pieces in scullc, nothing in scullp and scullv. After a copy past the end of a buffer nothing is modelled (`Smashed`).
* **ScullSingle / Uid / Wuid / Priv.** `scull_dev_open` is a step of its own after the
  counting and may fail. In `ScullWuid` the unlocked condition is a load of
  `count`, then of `owner`.
* **Sleepy, Complete, Jit.** A wait is: test, join the queue, test again, sleep. The completion is the kernel's: a count of
  unused completions and a queue of sleepers. In `Jit` a process is one read with a stack frame of its own; `pending` is what will print for it next, `waking`
  are the reads whose handler printed the last line and has not called `wake_up` yet. `jiffies` counts modulo `Wrap`.
* **Snull.** Buffers are counted, not named: both lists are stacks and every buffer on the
  list of one interface comes from the pool of the other. `slot` remembers where a released buffer lies in
  the pool, because the code reads `pkt->next` after the unlock. `priv->status |= bit`
  is a load and a store. `conf` is how the module was loaded and is used; it is chosen once.
* **SnullLoad.** `lpc` and `cur` are the place and the loop variable of `snull_add_device` and `snull_remove_device`. Each interface goes through
  `unregister_netdev`, `snull_teardown_pool` and `free_netdev`, steps between which threads run, before the second is begun with. `Touched(t)` is the interface whose private data
  the next step of a thread uses; a thread that would touch a freed one stops there, since what it then does has no meaning.
  `snull_teardown_pool` is one step, although it takes no lock, and `unregister_netdev` of an interface that is up is two: it is taken down, and its poll is waited for.
* **Jiq.** Text is counted in lines. `jiq_data.buf` is the process whose `tmp` it points into, without the offset: whether the lines fit is not modelled.
  Each `+=` is a load and a store, and `jiq_print` loads `len` and `buf` one after the other. `files` are the files read together. `spoilt` is a history variable: the readers that wait for a `cond`
  which was set and which another read then set back to 0.
* **Sbull.** The loader acquires the resources in order, jumps to the label of the code when a
  step fails, and releases one resource per step. The memcpy of a sector is one step.
* **Load.** The order in which an init function acquires and a cleanup function releases is data, one script for each; what the init function does
  when a step fails (return, run the cleanup, report it and go on) is part of the step. A failing step of several devices may have acquired some.

## 3. Runs

| Run | Instance | Shows |
|---|---|---|
| `pipe_safety` | 3 interchangeable processes, ring of 3, transfers of up to 2, openings for reading, writing or neither | `TypeOK`, no lost wake-up (`ReaderNotStranded`, `WriterWokenByReads`) and the inductive invariant `SleepInv` behind it; `QueuesLeft`, `CountsExact`, `BufferLifetime`, `AsyncQueueLive`, `NoUninitialisedRead` |
| `pipe_fifo` | `ScullPipeDevice`, whose steps are those of `ScullPipe`; 2 processes, two byte values, ring of 3, openings for reading and writing | `ImplementsFifo`; `SleepingReaderServed` (liveness) |
| `pipe_rewind` | 3 processes, ring of 2 | **violated:** `WriterNotStranded` |
| `dev_file` | the five storage drivers; 2 processes, two byte values, quanta of 1 or 2 bytes (or 0), 2 per set (scullc, scullp, scullv: 2 bytes, 1 per set, buffers of 1), positions up to 3 | `GeometryMatchesData`, `ListCoversSize`, `OverrunsNeedOutdated`; `ImplementsSparseFile` for all but scull_device |
| `dev_private` | a device made by scullpriv | **violated:** `WritesSurvive` |
| `small_devices` | access devices: 4 processes of 2 users, one that did su, one with CAP_DAC_OVERRIDE; 2 terminals. sleepy, complete: the same 4 processes. jit: 2 reads, a clock of 4 values, a delay of 1, 2 lines | `NoInterference`, `CountConserved`, `CountExact`, `OneUserAtATime`, `WaiterWokenByRelease`, `OneDevicePerTerminal`; `NoReaderForgotten`, `HandlerHasFrame`, `DelayHonoured`; `WaiterServed`, `ReadsReturn` (liveness) |
| `snull_safety` | `SnullLoad`, from loading to unloading; pools of 2, three configurations: no NAPI; NAPI in both directions with a budget of 1; NAPI in one direction with interfaces going down and failing allocations | `BuffersAccounted`, `StoppedQueueHasWaker`, `InterruptsComeBack`; `FreedUnused`, `UnloadGivesBack` |
| `snull_live` | every second transmit interrupt lost | `StoppedQueueRestarts` (liveness) |
| `snull_lock` | pools of 1 | **violated:** `LockGivenBack` |
| `jiq_safety` | 2 readers, of `jiqwqdelay` and `jiqtimer` or of `jiqtasklet` and `jiqtimer`; 1 signal, a limit of 1 line | `WorkReaderWoken`, `TimerReaderWoken`, `TimerQuiet`, `ReaderReturns` (liveness) |
| `jiq_tasklet` | 1 reader of `jiqtasklet` | **violated:** `TaskletReaderWoken` |
| `modules` | sbull: both builds, 2 processes, 2 sectors, 570 disk sizes; Load: its ten modules, every failing step, with any part of it done | `NothingLeftBehind`, `SetUpInOrder`, `RequestIntact`, `GeometryCovers` |

**Why the bounds are enough to be interesting.** A ring of 3 holds 2 bytes: it is
full, empty, wrapped and half full with transfers of up to 2, and a transfer is cut
both by the end of the ring and by the space. Three processes give one sleeper, one that wakes it, and a third
that gets in between. In `dev_file` three positions cross a quantum and a quantum set, and the geometry changes
through 1, 2 and 0; a buffer of 1 for a quantum of 2 gives scullc two pieces and scullp an overrun. Two users with four processes give each user two, so that a count
can be above one when the other user arrives. A pool of 2 buffers has a first, a last and an empty
state, and the third buffer that `max_buffers` admits is the one a pool reset makes
while another is still with the peer. With a limit of 1 line the work prints, is requeued and
finds the limit reached. Two lines of a jit timer are one that is followed by another and one that is followed by the wake-up; a clock
of 4 values wraps within a delay, from every start (`MaxLate` keeps a delayed read within half a turn of the clock, as 2^31 jiffies do). `Load` is not bounded: its counts are the ones of the code. 570 disk sizes lie around every step of the geometry's rounding and at the width of its fields.
Where a bound disables an action (`MaxPos`, `MaxItems`, `max_buffers`, `Signals`, `MaxDone`, `MaxLate`) it is a conjunct of its guard.

**Deadlock** is checked in all runs except snull's, where a transmission on a pool
that is empty never returns the lock (see `snull_lock`) and a thread stops before it touches a freed interface, and `jiq_safety`, where the readers of `jiqtasklet` and
`jiqtimer` can both be stranded (see below).

**Fairness.** Only steps that a thread takes by itself once it is inside a call are fair, weakly:
the scheduler runs every runnable process, softirqs, queued work and timers are served, and the
transmit watchdog fires for a queue that stays stopped, and in jit the clock runs. One step is strongly fair: a process in poll, once it is woken, calls
`scull_pipe_poll` again, which takes the mutex with `mutex_lock` (scull_pipe.c:243); the mutex is taken and given again and again by others, and the waiters of
a kernel mutex (and of a semaphore) queue, so none of them waits for ever. System calls, signals, openings and packets to
send are never assumed to happen. `ReaderReturns` needs that only finitely many readers
are interrupted (`Signals`): an unending series of interrupted reads resets the line count for ever.

### Where the code does not do what its comments say

Four runs exhibit such a place.

* `pipe_rewind`: `scull_pipe_open` sets `rp = wp = buffer`, which makes room, and wakes nobody on
  `outq`. A writer that was waiting for space sleeps on beside an empty pipe, until a read, which has nothing
  to read before somebody writes. `WriterWokenByReads` is the part that holds: it leaves out the writers in `caught`.
* `dev_private`: a device made by `scull_priv_lookfor_device` is cleared and then "initialised" by `scull_trim`, which
  copies a zero geometry into place; the first write divides by zero with the mutex held.
* `snull_lock`: `snull_get_tx_buffer` returns from inside its critical section when the pool is empty.
  The queue is stopped when the last buffer goes, but taking the interface down and up starts it again.
* `jiq_tasklet`: `jiq_print` wakes the reader, and only then does `jiq_print_tasklet` set `cond`; a reader that looks in
  between sleeps again for good.

One more exception is stated inside properties that hold. `jiqtimer` and `jiqtasklet` share `cond`. A read of either sets it to 0 (jiq/main.c:197, 236) and may do so
after a handler set it (218, 182) and before another reader that waits for it has tested it; when it was the timer that had set it, nothing wakes that reader again. `TimerReaderWoken` and
`ReaderReturns` leave out exactly the readers this happened to (`spoilt`).

The modules state more of them, as definitions that are in no run; adding one as an INVARIANT to the configuration named here
shows a counterexample.

| Definition | Configuration | What the code does |
|---|---|---|
| `Full!QuantumPositive` | `dev_file` | an ioctl sets any quantum, and a Set that faults clears it; the query's comment says "it's positive" (scull_dev_common.c:309) |
| `Full!ExchangeAtomic` | `dev_file` | "switch G and S atomically" (scull_dev_common.c:16), without a lock |
| `Single!BusyMeansOpen` | `small_devices` | `-EBUSY`, "already open" (scull_single.c:17), between another's refusal and its increment, when nobody has the device |
| `Wuid!WaiterNotStranded` | `small_devices` | a failed open lowers the count to zero and wakes nobody (scull_wuid.c:42) |
| `NoPacketLeft` (Snull) | `snull_safety` | a packet that arrives as the poll ends stays in the list with nobody to announce it (snull_device.c:257) |
| `ReceivesWhenUp` (Snull) | `snull_safety` | a packet sent to an interface that is down turns its interrupts off, and nothing turns them on (snull_device.c:342) |
| `SkbHeldWhileSending`, `FreedOnce` (Snull) | `snull_safety` | a transmit bit written back by the unlocked `status \|=` frees the skb too early, or twice (snull_device.c:308, 346) |
| `PrintsInPlace` (Jiq) | `jiq_safety` | work outlives an interrupted reader and prints to its stack (jiq/main.c:134); `jiq_cleanup` flushes nothing either (299) |
| `NoUseOfFreed` (SnullLoad) | `snull_safety` | sn0 is freed while sn1 is registered; what sn1 sends or gives back then reaches for sn0 (snull_device.c:639) |
| `NoBufferLeaks` (SnullLoad) | `snull_safety` | `snull_teardown_pool` frees only what is in `ppool`; packets on the peer's receive list leak (snull_device.c:66) |
| `Mem!BufferHolds` | `dev_file` | a copy of more than 968 bytes runs past `tmpBuf` (scullp_dev_common.c:136, 202) |
| `Old!CopiesStayInside`, `Old!QuantaAreCurrent` | `dev_file` | a call that loaded the geometry before a trim allocates, indexes and copies with it afterwards (scull_device/fops.c:61, 110) |
| `Sleep!WriteNotTaken` | `small_devices` | a reader that a signal woke clears the flag a writer raised for the others (sleepy/main.c:20) |
| `Jits!WakesLiveQueue` | `small_devices` | the reader sees `loops` at zero and returns; `wake_up` is then called on a queue in a stack frame that is gone (jit/main.c:205, 279) |
| `Jits!HiStaysHi` | `small_devices` | jitasklethi sets `hi` to 0 (jit/main.c:363), so only its first round has high priority |
| `Loading!UnloadsClean` | `modules` | scull's cleanup unregisters 4 device numbers of the 12 it allocated, which unregisters none (scull_full/impl/main.c:69) |
| `Loading!UnwindsClean` | `modules` | without its cache scullc's init deletes cdevs that `cdev_init` has not seen (scullc/impl/main.c:73) |
| `Loading!ChrdevIsReady` | `modules` | `register_chrdev` makes the driver reachable before its device is allocated, and until after it is freed (scull_pipe_device/main.c:48) |

(For a name with `!` define one in the MC module, guarded by `kind` or `driver`, as the sums do for their properties.)

## 4. Proofs

The theorems are about every value of the constants: any number of processes, users,
terminals and readers, any buffer, geometry, pool and disk. They use only the assumptions the modules state beside their
constants (`PipeAssumption`, `StoresAssumption`, `SnullAssumption`, ...): the sets are finite where they are counted,
sizes are natural numbers, `NULL` and the other marks differ from the values they stand beside.
Each module has one inductive invariant, stated there as a conjunction of named parts; the safety
properties of the runs follow from it.

**The pipe's sleepers** (`ScullPipeProofs`): `TypeCorrect`, `SleepInvariant`, `ReadersAreWoken`, `WritersAreWoken`.
Absence of lost wake-ups is not inductive by itself. A reader that has made its first load and is about to decide
is not asleep yet, but one step makes it so; what it has loaded must already justify the decision, or somebody
must still be due to wake it. `SleepInv` adds this for readers and writers (`ReaderDecision`, `WriterDecision`), the lock
discipline (`LockOK`: the mutex is held exactly in the critical sections, and a pointer is at `dev->end` only between
advance and wrap), and the types. `pipe_safety` checks `SleepInv` as an invariant too. Lemmas about the operators come first: what `spacefree`
computes (`SpacefreeValue`), that the wrap of a pointer changes neither emptiness nor fullness (`WrapKeepsFull`), that a
transfer fits. Then `BaseStep`: each action keeps the types and the lock discipline; `StepMovesOne`: a step of one process
moves no other process, so a sleeper can only be harmed through `rp`, `wp` and the disappearance
of a process that was due to wake it; `ReaderStep` and `WriterStep`: action by action, a step that makes a sleeper's
condition true is taken by a process that is now due to wake it, and a process that stops being due has just done so.
The lemma `DeviceIsPipe` (`DeviceSpec => Spec`) carries the theorems over to `ScullPipeDevice`. It holds by the way that module is written, as a grouping of the
actions of `ScullPipe`; that the grouping is faithful to the older source is for a reader of the two files to judge.

**The pipe's buffer** (`ScullPipeFifoProofs`): `OpeningsCounted`, `BufferLives`, `QueuesAreLeft`, `NotifiesOpenFiles`
from `LifeInv` (the counts are the cardinalities of sets of processes, and a place inside a call implies an opening); and the
refinement: `PipeIsFifo`, `Spec => ImplementsFifo`, in which the contents of the ring from `rp` to `wp`, with or without a wrap between, are
the queue of `ByteFifo`. A read or write maps to one step of the queue where it moves the pointer, all other
steps to stuttering; the lemmas say how `Contents` changes when a pointer moves and that it does not when a pointer wraps.
`OnlyWrittenBytesRead` then needs only the abstract queue.

**The storage drivers** (`ScullStoresProofs`): `StorageKeepsShape`, `ReadsFindTheirItem`, `OverrunsAreOutdated` from
`StoresInv`. For scull and the three of `ScullMem` it is `StoreOK`: the list is one of arrays of `qset` pointers to quanta of `quantum` bytes, *for the
geometry in force, not the one ioctl has set*, and is long enough for `size`. scull_device keeps less: a call that
loaded the geometry before a trim may put in a quantum of the old size, so its quanta may have any size once `outdated` is true.
`StoresAssumption` says that `NULL` is neither an array nor a quantum.

**The storage drivers as files** (`ScullFileProofs`): `StoresAreFiles`, `Spec => ImplementsSparseFile`. Three lemmas carry it: a list that
was followed, extended or prepared for a write, completely or until an allocation failed, holds the same bytes
(`KeptContent`); a copy changes the byte at exactly the positions it says (`CopyInBytes`: two positions whose item, quantum and offset agree are
the same position, by `PositionSum` and `SameQuantum`); a read finds the bytes of the file (`CopyOutBytes`). Then every way out of every call is a
step of `SparseFile`: an open for writing truncates, other opens, releases and seeks move a position, a write that runs out of memory or overruns its
buffer is an empty read, one that faults is a `FailedWrite` of what was copied. `FileInv` adds to `StoresInv` that the geometry in force
is one that `StoresAssumption` speaks of, or is empty like that of a device of scullpriv, in which case the file is empty as well.

**The access devices and the sleeping readers** (`SmallDevicesProofs`): `OwnDataOnly`, `SingleCountConserved`, `HoldersCounted`,
`OwnerOnly`, `OwnerWrites` (what is written to a held device comes from its owner or an overriding process; in no run), `ReleaseWakes`, `TerminalsApart`, `SleepersRemembered`, `FrameOutlivesHandler`, `DelaysHonoured`.
Counting is by cardinality: each step adds or removes one process (`FiniteSetTheorems`). `DelayOK` relates the wrapped clock to the real time that
passed; `HandlerOK` says who may wake whom in jit.

**snull** (`SnullProofs`): `TypeCorrect`, `NoBufferLost`, `QueueHasWaker`, `InterruptsReturn` from `SnullInv`, which adds the places each thread can be in (`Labels`) and the
states of napi (`NapiOK`). `QueueHasWaker` is about the window of `snull_release_buffer` between its unlock and its test of the queue. For the life of the module,
`TrafficThroughLife`, `OnlySecondReachesFreed` and `UnloadLeaves` follow from `LifeInv`, which is `SnullInv` with three parts: an interface that is down transmits nothing (`DownIsQuiet`), one that
is up is registered and one that goes down is or is being unregistered (`UpRegistered`), and `Stages` says for each place of the loop which interface is present, registered, empty and freed.

**jiq** (`JiqProofs`): `WorkReadersWoken`, `TimerStaysQuiet`, `TimerReaderIsWoken` from `JiqInv`, for all four files read at once. The last has the exception of `spoilt`.

**sbull** (`KernelModulesProofs`): `DiskReleased`, `DataStaysLive` (the data area outlives the openings and the requests; in no run), `RequestsIntact`, `GeometryHasRoom` from `DiskInv`, whose part
`Loader` gives for each place of the loader the exact set of resources held. `GeometryHasRoom` assumes that the capacity fits 65535 cylinders
of 255 heads and 63 sectors: `cylinders` has 16 bits, and above that no geometry covers the disk. `DiskReleased` is the part of `NothingLeftBehind` and
`SetUpInOrder` that is about sbull.

**Loading and unloading** (`KernelModulesProofs`): `EverythingReleased` and `EverythingSetUp`, the whole of `NothingLeftBehind` and `SetUpInOrder`, from
`LoadingInOrder`. `Load` has no constants and TLC's run visits all its states; what the proof adds is the reason, one for all ten modules.
There is one order of the resources (`Rank`: device numbers, class, cache, nodes, memory, initialisation, cdev or /proc file) in which *every* init
acquires and against which *every* cleanup releases. So while init runs, whatever is held has below it all that its init takes first (`Stacked`), which is
what a user who reaches it needs (`StackedReady`). A cleanup is entered with that, from a complete init or at the step that failed (`UndoStarts`).
While it runs, what is still held is in the rest of its script, below what went already (`CleanupMoves`). `ScriptsOK` checks the scripts module by module:
they are ordered, each resource acquired is released with its count (but for scull's device numbers), and a cdev is released under the condition that its memory is there.
`Expected` says what cleanup takes for granted and names where the code is wrong to: scullc without its cache.

Only model-checked:

* liveness under fairness (`SleepingReaderServed`, `WaiterServed`, `ReadsReturn`, `StoppedQueueRestarts`, `ReaderReturns`), which the prover does not reach.

## 5. Limits of the models

* Memory is sequentially consistent: a store is visible to the next load. The order of the loads in an
  unlocked condition is free in `ScullPipe`.
* A quantum is a natural number. A negative one makes the C arithmetic undefined. The 32-bit product `quantum * qset` does not overflow here, and the truncation of `new_quantum = arg` is not modelled.
* A copy past the end of a buffer (scullp, scullv) ends the model of the device, so `ImplementsSparseFile` is about copies that fit; `BufferHolds` says that all do, and fails.
* One reader of `jiqtimer` at a time: a second one would set up a timer that is pending. What work or a tasklet of jiq does after the module is unloaded is not modelled.
* What an access to a freed interface of snull does is not modelled; that it is reached is.
* Requests that overlap one in progress are excepted from `RequestIntact`; `GeometryCovers` is about any size of disk, the code's being 4096 sectors.
* `kmalloc(GFP_KERNEL)` under a spinlock (scull_priv.c:27, snull_device.c:490) is taken as one step; that it may sleep is not modelled.
* The end of the disk is checked by the block layer in the bio build and by the driver in the request build.
* The results of `class_create` and `device_create`, which no module looks at, are taken to be good.
* In `scull_device` the two loads of the geometry are one step; its qset never changes value, so they cannot disagree.
* A read of jit with a position other than 0 returns at once and is left out, as is `currentime`, which only reads clocks.
* Each process has a file open at most once, and does not share it.
* Not modelled: log messages, the text of the /proc files, packet headers and statistics other than `tx_packets`.

## 6. Not modelled

* `hello_world` prints two lines and keeps no state.
* `scull_test_python` are clients of the scull devices, not part of the system.
* Of snull: `__snull_config`, `__snull_change_mtu`, `__snull_ioctl`, `__snull_stats` and the header functions, which read or set fields that
  no modelled code uses.

## 7. Plan

Every driver is modelled; every safety invariant and every refinement the passing runs check is a theorem. What is left is liveness, which stays
with TLC, and the headers and configuration of snull, which no property here needs.
