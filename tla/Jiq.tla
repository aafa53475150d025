--------------------------------- MODULE Jiq ---------------------------------
(***************************************************************************)
(* The deferred-work module (jiq/main.c): reading one of four /proc files  *)
(* makes a work item, a delayed work item, a tasklet or a timer print      *)
(* lines into a buffer on the reader's stack while the reader sleeps on    *)
(* jiq_wait.  All of them share jiq_data and cond, without a lock.         *)
(*                                                                         *)
(* A context is a reading process or one of the four handlers; a handler   *)
(* does not run twice at a time.  Text is counted in lines.  jiq_data.buf  *)
(* is the process whose tmp[] it points into, without the offset; tmp[]    *)
(* exists while the process is inside the read.  Loads and stores of       *)
(* jiq_data are separate steps.  A second read of a file at end of file    *)
(* does nothing.  spoilt is a history variable: the code has nothing like  *)
(* it, no guard looks at it, and only properties do.                       *)
(***************************************************************************)
EXTENDS Integers

CONSTANTS
  Procs,    \* reading processes
  FileSets, \* which files are read together, one of these for a whole run
  LIMIT,    \* lines after which printing stops (512 bytes)
  Signals,  \* bound on the signals that interrupt sleeping readers
  NoProc    \* jiq_data.buf before the first read

Work     == {"wq", "wqdelay"}
Handlers == Work \cup {"tasklet", "timer"}

ASSUME JiqAssumption ==
  /\ FileSets \subseteq SUBSET Handlers /\ Procs \cap Handlers = {} /\ NoProc \notin Procs
  /\ LIMIT \in Nat \ {0} /\ Signals \in Nat

VARIABLES
  files,     \* the files that are read, chosen at the start
  len,       \* jiq_data.len
  buf,       \* jiq_data.buf: the process whose tmp[] it points into
  cond,
  jiq_wait,  \* processes queued on it
  pending,   \* handlers that are scheduled to run
  file,      \* per process: the file it reads, or none
  pc,        \* per context
  n,         \* per context: lines the jiq_print in progress prints
  place,     \* per context: where it prints them
  val,       \* per context: a value loaded by a += in progress
  spoilt,    \* history: readers that wait for a cond which was set and then
             \* reset by another read
  signals    \* signals that have come

data == <<len, buf, cond>>
locals == <<n, place, val>>
vars == <<files, len, buf, cond, jiq_wait, pending, file, pc, n, place, val, spoilt, signals>>

Ctx == Procs \cup Handlers
Goto(c, l) == pc' = [pc EXCEPT ![c] = l]
min(a, b) == IF a < b THEN a ELSE b

(* jiq_init, before the first read. *)
Init ==
  /\ files \in FileSets
  /\ len = 0 /\ buf = NoProc /\ cond = FALSE
  /\ jiq_wait = {} /\ pending = {}
  /\ file = [p \in Procs |-> "none"]
  /\ pc = [c \in Ctx |-> "idle"]
  /\ n = [c \in Ctx |-> 0]
  /\ place = [c \in Ctx |-> buf]
  /\ val = [c \in Ctx |-> 0]
  /\ spoilt = {} /\ signals = 0
-----------------------------------------------------------------------------
(* jiq_print, by any context. *)

(* What a context does when jiq_print has returned. *)
Printed(c, more) ==
  CASE c \in Procs ->
         Goto(c, "arm") /\ UNCHANGED pending
    [] c \in Work ->
         Goto(c, "idle") /\ pending' = IF more THEN pending \cup {c} ELSE pending
    [] c = "tasklet" ->
         /\ Goto(c, IF more THEN "idle" ELSE "cond")
         /\ pending' = IF more THEN pending \cup {c} ELSE pending
    [] c = "timer" ->
         Goto(c, "cond") /\ UNCHANGED pending

(* The load of data->len; the heading is printed with the first line. *)
jiq_print(c) ==
  /\ pc[c] = "load"
  /\ n' = [n EXCEPT ![c] = IF len > LIMIT THEN 0 ELSE IF len = 0 THEN 2 ELSE 1]
  /\ Goto(c, IF len > LIMIT THEN "full" ELSE "load_buf")
  /\ UNCHANGED <<files, data, jiq_wait, pending, file, place, val, spoilt, signals>>

(* The load of data->buf. *)
print_load_buf(c) ==
  /\ pc[c] = "load_buf"
  /\ place' = [place EXCEPT ![c] = buf]
  /\ Goto(c, "print")
  /\ UNCHANGED <<files, data, jiq_wait, pending, file, n, val, spoilt, signals>>

(* Mutant: nobody is woken at the limit. *)
print_full_silent(c) ==
  /\ pc[c] = "full"
  /\ Printed(c, FALSE)
  /\ UNCHANGED <<files, data, jiq_wait, file, locals, spoilt, signals>>

(* Mutant: jiq_print asks to be called again. *)
print_full_again(c) ==
  /\ pc[c] = "full"
  /\ Printed(c, TRUE)
  /\ UNCHANGED <<files, data, jiq_wait, file, locals, spoilt, signals>>

(* The limit is reached: wake the reader. *)
print_full(c) ==
  /\ pc[c] = "full"
  /\ jiq_wait' = {}
  /\ Printed(c, FALSE)
  /\ UNCHANGED <<files, data, file, locals, spoilt, signals>>

(* sprintf; then the load of data->len += len. *)
print_write(c) ==
  /\ pc[c] = "print"
  /\ val' = [val EXCEPT ![c] = len]
  /\ place' = [place EXCEPT ![c] = NoProc]
  /\ Goto(c, "set_len")
  /\ UNCHANGED <<files, data, jiq_wait, pending, file, n, spoilt, signals>>

(* The store; above LIMIT all lengths are the same. *)
print_set_len(c) ==
  /\ pc[c] = "set_len"
  /\ len' = min(val[c] + n[c], LIMIT + 1)
  /\ val' = [val EXCEPT ![c] = 0] /\ n' = [n EXCEPT ![c] = 0]
  /\ Goto(c, "add_buf")
  /\ UNCHANGED <<files, buf, cond, jiq_wait, pending, file, place, spoilt, signals>>

(* data->buf += len: load and store. *)
print_add_buf(c) ==
  /\ pc[c] = "add_buf"
  /\ place' = [place EXCEPT ![c] = buf]
  /\ Goto(c, "set_buf")
  /\ UNCHANGED <<files, data, jiq_wait, pending, file, n, val, spoilt, signals>>

print_set_buf(c) ==
  /\ pc[c] = "set_buf"
  /\ buf' = place[c]
  /\ place' = [place EXCEPT ![c] = NoProc]
  /\ Printed(c, TRUE)
  /\ UNCHANGED <<files, len, cond, jiq_wait, file, n, val, spoilt, signals>>
-----------------------------------------------------------------------------
(* jiq_print_wq, jiq_print_wq_delayed, jiq_print_tasklet, jiq_timedout. *)
handler_run(h) ==
  /\ h \in pending /\ pc[h] = "idle"
  /\ pending' = pending \ {h}
  /\ Goto(h, "load")
  /\ UNCHANGED <<files, data, jiq_wait, file, locals, spoilt, signals>>

(* Mutant: the timer wakes the reader before it sets cond. *)
timer_wakes_first(h) ==
  /\ pc[h] = "cond"
  /\ \/ h = "timer" /\ jiq_wait # {} /\ jiq_wait' = {} /\ UNCHANGED <<cond, pc>>
     \/ cond' = TRUE /\ Goto(h, "idle") /\ UNCHANGED jiq_wait
  /\ UNCHANGED <<files, len, buf, pending, file, locals, spoilt, signals>>

(* The tasklet sets cond after jiq_print woke the reader; the timer sets   *)
(* it and then wakes the reader.                                           *)
handler_cond(h) ==
  /\ pc[h] = "cond"
  /\ cond' = TRUE
  /\ Goto(h, IF h = "timer" THEN "wake" ELSE "idle")
  /\ UNCHANGED <<files, len, buf, jiq_wait, pending, file, locals, spoilt, signals>>

handler_wake(h) ==
  /\ pc[h] = "wake"
  /\ jiq_wait' = {}
  /\ Goto(h, "idle")
  /\ UNCHANGED <<files, data, pending, file, locals, spoilt, signals>>
-----------------------------------------------------------------------------
(* The four reads.  Two concurrent reads of jiqtimer would set up a timer  *)
(* that is pending, which is undefined: only one is modelled.              *)
jiq_read(p, f) ==
  /\ pc[p] = "idle"
  /\ f = "timer" => \A q \in Procs : file[q] # "timer"
  /\ file' = [file EXCEPT ![p] = f]
  /\ Goto(p, "init_len")
  /\ UNCHANGED <<files, data, jiq_wait, pending, locals, spoilt, signals>>

(* q is inside wait_event_interruptible(jiq_wait, cond). *)
WaitsForCond(q) == file[q] \in {"tasklet", "timer"} /\ pc[q] \in {"wait", "test", "sched"}

read_init_len(p) ==
  /\ pc[p] = "init_len"
  /\ len' = 0
  /\ Goto(p, "init_buf")
  /\ UNCHANGED <<files, buf, cond, jiq_wait, pending, file, locals, spoilt, signals>>

read_init_buf(p) ==
  /\ pc[p] = "init_buf"
  /\ buf' = p
  /\ Goto(p, IF file[p] \in Work THEN "prepare" ELSE "init_cond")
  /\ UNCHANGED <<files, len, cond, jiq_wait, pending, file, locals, spoilt, signals>>

(* cond = 0; the timer's reader prints a line itself. *)
read_init_cond(p) ==
  /\ pc[p] = "init_cond"
  /\ cond' = FALSE
  /\ spoilt' = IF cond THEN (spoilt \ {p}) \cup {q \in Procs \ {p} : WaitsForCond(q)}
                        ELSE spoilt \ {p}
  /\ Goto(p, IF file[p] = "timer" THEN "load" ELSE "arm")
  /\ UNCHANGED <<files, len, buf, jiq_wait, pending, file, locals, signals>>

read_prepare(p) ==
  /\ pc[p] = "prepare"
  /\ jiq_wait' = jiq_wait \cup {p}
  /\ Goto(p, "arm")
  /\ UNCHANGED <<files, data, pending, file, locals, spoilt, signals>>

(* schedule_work, schedule_delayed_work, tasklet_schedule, add_timer. *)
read_arm(p) ==
  /\ pc[p] = "arm"
  /\ pending' = pending \cup {file[p]}
  /\ Goto(p, IF file[p] \in Work THEN "sched" ELSE "wait")
  /\ UNCHANGED <<files, data, jiq_wait, file, locals, spoilt, signals>>

(* wait_event_interruptible(jiq_wait, cond), of the tasklet and the timer. *)
read_wait_nosleep(p) ==
  /\ pc[p] = "wait" /\ cond
  /\ Goto(p, "done")
  /\ UNCHANGED <<files, data, jiq_wait, pending, file, locals, spoilt, signals>>

read_wait_prepare(p) ==
  /\ file[p] \notin Work
  /\ pc[p] = "wait" \/ (pc[p] = "sched" /\ p \notin jiq_wait)
  /\ jiq_wait' = jiq_wait \cup {p}
  /\ Goto(p, "test")
  /\ UNCHANGED <<files, data, pending, file, locals, spoilt, signals>>

read_wait_test(p) ==
  /\ pc[p] = "test"
  /\ Goto(p, IF cond THEN "done" ELSE "sched")
  /\ jiq_wait' = IF cond THEN jiq_wait \ {p} ELSE jiq_wait
  /\ UNCHANGED <<files, data, pending, file, locals, spoilt, signals>>

(* schedule() returns to a reader of a work item, once it was woken. *)
read_woken(p) ==
  /\ file[p] \in Work /\ pc[p] = "sched" /\ p \notin jiq_wait
  /\ Goto(p, "done")
  /\ UNCHANGED <<files, data, jiq_wait, pending, file, locals, spoilt, signals>>

(* A signal ends either sleep; nobody looks at the result. *)
read_signal(p) ==
  /\ pc[p] = "sched" /\ signals < Signals
  /\ signals' = signals + 1
  /\ jiq_wait' = jiq_wait \ {p}
  /\ Goto(p, "done")
  /\ UNCHANGED <<files, data, pending, file, locals, spoilt>>

(* Mutant: the timer is not deleted. *)
return_keep_timer(p) ==
  /\ pc[p] = "done"
  /\ file' = [file EXCEPT ![p] = "none"] /\ spoilt' = spoilt \ {p}
  /\ Goto(p, "idle")
  /\ UNCHANGED <<files, data, jiq_wait, pending, locals, signals>>

(* del_timer_sync; copy and return. *)
read_return(p) ==
  /\ pc[p] = "done"
  /\ \/ file[p] # "timer" /\ UNCHANGED pending
     \/ file[p] = "timer" /\ pc["timer"] = "idle" /\ pending' = pending \ {"timer"}
  /\ file' = [file EXCEPT ![p] = "none"] /\ spoilt' = spoilt \ {p}
  /\ Goto(p, "idle")
  /\ UNCHANGED <<files, data, jiq_wait, locals, signals>>
-----------------------------------------------------------------------------
PrintStep(c) ==
  \/ jiq_print(c) \/ print_load_buf(c) \/ print_full(c) \/ print_write(c)
  \/ print_set_len(c) \/ print_add_buf(c) \/ print_set_buf(c)

HandlerStep(h) == handler_run(h) \/ PrintStep(h) \/ handler_cond(h) \/ handler_wake(h)

ReadStep(p) ==
  \/ read_init_len(p) \/ read_init_buf(p) \/ read_init_cond(p) \/ PrintStep(p)
  \/ read_prepare(p) \/ read_arm(p) \/ read_wait_nosleep(p) \/ read_wait_prepare(p)
  \/ read_wait_test(p) \/ read_woken(p) \/ read_return(p)

Next ==
  \/ \E p \in Procs : (\E f \in files : jiq_read(p, f)) \/ ReadStep(p) \/ read_signal(p)
  \/ \E h \in Handlers : HandlerStep(h)

Spec == Init /\ [][Next]_vars

(* Scheduled handlers run and a reader inside its read goes on; nobody has *)
(* to read and no signal has to come.                                      *)
FairSpec ==
  /\ Spec
  /\ \A p \in Procs : WF_vars(ReadStep(p))
  /\ \A h \in Handlers : WF_vars(HandlerStep(h))
-----------------------------------------------------------------------------
Asleep(p) == pc[p] = "sched" /\ p \in jiq_wait
Due(h)    == h \in pending \/ pc[h] # "idle"

(* A reader asleep on a work item has one that is going to run and that    *)
(* will wake it, however many readers reset jiq_data.len meanwhile: the    *)
(* reader queues itself before it schedules the work.                      *)
WorkReaderWoken == \A p \in Procs : Asleep(p) /\ file[p] \in Work => Due(file[p])

(* "wait_event_interruptible(jiq_wait, cond); /* RACE */": the timer sets  *)
(* cond before it wakes, so its reader does not fall asleep for good, also *)
(* while jiqtasklet, which shares cond, is read: unless such a read resets *)
(* cond (line 197) after it was set (218 or 182) and before the reader has *)
(* tested it, which strands the reader.                                    *)
TimerReaderWoken ==
  \A p \in Procs : Asleep(p) /\ file[p] = "timer" => Due("timer") \/ p \in spoilt

(* The timer prints only while its reader waits: del_timer_sync sees to it *)
(* that a reader woken by a signal does not leave it running.              *)
TimerQuiet == Due("timer") => \E p \in Procs : file[p] = "timer"

(* Every reader that sleeps for a work item or the timer wakes up: the     *)
(* lines add up to the limit, although other readers reset the count, as   *)
(* long as only finitely many of those are cut short by a signal.  The     *)
(* exception is the timer's reader whose cond, set already, a read of      *)
(* jiqtasklet resets before the reader has tested it.                      *)
ReaderReturns ==
  \A p \in Procs : pc[p] = "sched" /\ file[p] # "tasklet" ~> pc[p] # "sched" \/ p \in spoilt

(* "If the limit is reched, awake the reading process": the reader of the  *)
(* tasklet's lines is woken too.                                           *)
TaskletReaderWoken == \A p \in Procs : Asleep(p) /\ file[p] = "tasklet" => Due("tasklet")

(* "jiq_data.buf = tmp; /* print in this place */": the place is the stack *)
(* of a read in progress.                                                  *)
PrintsInPlace ==
  \A c \in Ctx : pc[c] = "print" => place[c] \in Procs /\ pc[place[c]] # "idle"
=============================================================================
