------------------------------- MODULE JiqProofs -------------------------------
(***************************************************************************)
(* Proofs about Jiq, for any number of readers, any limit and any number   *)
(* of signals.                                                             *)
(***************************************************************************)
EXTENDS Jiq, TLAPS

Printing   == {"load", "load_buf", "full", "print", "set_len", "add_buf", "set_buf"}
ReadLabels == Printing \cup {"idle", "init_len", "init_buf", "init_cond", "prepare", "arm",
                             "wait", "test", "sched", "done"}
Labels     == ReadLabels \cup {"cond", "wake"}

Types ==
  /\ pc \in [Ctx -> Labels]
  /\ file \in [Procs -> Handlers \cup {"none"}]
  /\ jiq_wait \subseteq Procs
  /\ cond \in BOOLEAN

(* Where each kind of context can be; only the readers of the tasklet and  *)
(* the timer use cond.                                                     *)
WhoIsWhere ==
  /\ \A h \in Work : pc[h] \in Printing \cup {"idle"}
  /\ pc["tasklet"] \in Printing \cup {"idle", "cond"}
  /\ pc["timer"] \in Printing \cup {"idle", "cond", "wake"}
  /\ \A p \in Procs : /\ pc[p] \in ReadLabels
                      /\ pc[p] \in {"init_cond", "wait", "test"} => file[p] \notin Work
                      /\ pc[p] # "idle" => file[p] # "none"

OneTimerRead == \A p, q \in Procs : file[p] = "timer" /\ file[q] = "timer" => p = q

(* The timer is set only between the add_timer and the del_timer_sync of   *)
(* its reader.                                                             *)
TimerArmed ==
  Due("timer") => \E p \in Procs : /\ file[p] = "timer"
                                   /\ pc[p] \in {"wait", "test", "sched", "done"}

(* The timer's reader, inside wait_event_interruptible, finds the timer due *)
(* or cond set, and cond is set before the wake-up; if it is asleep, the    *)
(* timer is due.  It is otherwise only with a reader whose cond was reset.  *)
TimerSeen ==
  \A p \in Procs :
    file[p] = "timer" /\ pc[p] \in {"wait", "test", "sched"} /\ p \notin spoilt =>
      /\ Due("timer") \/ cond
      /\ pc["timer"] = "wake" => cond
      /\ Asleep(p) => Due("timer")

JiqInv == Types /\ WhoIsWhere /\ WorkReaderWoken /\ OneTimerRead /\ TimerArmed /\ TimerSeen

(* Readers are not handlers, and the handlers are four.                    *)
LEMMA Contexts ==
  /\ Handlers \subseteq Ctx /\ Procs \subseteq Ctx
  /\ Handlers = {"wq", "wqdelay", "tasklet", "timer"} /\ Work = {"wq", "wqdelay"}
  /\ \A p \in Procs : p \notin Handlers
BY JiqAssumption DEF Ctx, Handlers, Work

(* A context that prints takes an inner step of jiq_print.                 *)
LEMMA InnerStep ==
  ASSUME JiqInv, NEW c \in Ctx, NEW l \in Printing,
         pc[c] \in Printing, pc' = [pc EXCEPT ![c] = l],
         UNCHANGED <<file, jiq_wait, pending, cond, spoilt>>
  PROVE  JiqInv'
<1> USE DEF JiqInv
<1>1. pc'[c] = l /\ \A d \in Ctx : d # c => pc'[d] = pc[d]
  BY DEF Types
<1>2. Types'
  BY DEF Types, Labels, ReadLabels
<1>3. WhoIsWhere'
  BY <1>1, Contexts DEF WhoIsWhere, ReadLabels, Printing
<1>4. \A h \in Handlers : Due(h)' <=> Due(h)
  BY <1>1, Contexts DEF Due, Printing
<1>5. \A p \in Procs : /\ pc'[p] \in {"wait", "test", "sched", "done"} <=>
                            pc[p] \in {"wait", "test", "sched", "done"}
                       /\ pc'[p] \in {"wait", "test", "sched", "done"} => pc'[p] = pc[p]
  BY <1>1, Contexts DEF Printing
<1>6. \A p \in Procs : Asleep(p)' <=> Asleep(p)
  BY <1>5 DEF Asleep
<1>7. WorkReaderWoken'
  BY <1>4, <1>6, Contexts DEF WorkReaderWoken
<1>8. OneTimerRead' /\ TimerArmed'
  BY <1>4, <1>5, Contexts DEF OneTimerRead, TimerArmed
<1>9. TimerSeen'
  <2>1. pc'["timer"] = "wake" => pc["timer"] = "wake"
    BY <1>1, Contexts DEF Printing
  <2> QED BY <1>4, <1>5, <1>6, <2>1, Contexts DEF TimerSeen
<1> QED BY <1>2, <1>3, <1>7, <1>8, <1>9

(* jiq_print returns to a handler; at the limit everybody was woken.       *)
LEMMA HandlerPrinted ==
  ASSUME JiqInv, NEW h \in Handlers, NEW more \in BOOLEAN,
         pc[h] \in Printing, Printed(h, more), UNCHANGED <<file, cond, spoilt>>,
         jiq_wait' = (IF more THEN jiq_wait ELSE {})
  PROVE  JiqInv'
<1> USE DEF JiqInv
<1>0. h \in Ctx /\ h \notin Procs
  BY Contexts
<1>1. \/ h \in Work /\ pc' = [pc EXCEPT ![h] = "idle"]
         /\ pending' = IF more THEN pending \cup {h} ELSE pending
      \/ h = "tasklet" /\ pc' = [pc EXCEPT ![h] = IF more THEN "idle" ELSE "cond"]
         /\ pending' = IF more THEN pending \cup {h} ELSE pending
      \/ h = "timer" /\ pc' = [pc EXCEPT ![h] = "cond"] /\ pending' = pending
  <2>1. CASE h \in Work
    BY <1>0, <2>1, Contexts DEF Printed, Goto
  <2>2. CASE h = "tasklet"
    BY <1>0, <2>2, Contexts DEF Printed, Goto
  <2>3. CASE h = "timer"
    BY <1>0, <2>3, Contexts DEF Printed, Goto
  <2> QED BY <2>1, <2>2, <2>3, Contexts
<1>2. PICK l \in {"idle", "cond"} : pc' = [pc EXCEPT ![h] = l]
  BY <1>1
<1>3. pc'[h] = l /\ \A d \in Ctx : d # h => pc'[d] = pc[d]
  BY <1>0, <1>2 DEF Types
<1>4. \A p \in Procs : pc'[p] = pc[p]
  BY <1>0, <1>3, Contexts
<1>5. Types'
  BY <1>0, <1>2 DEF Types, Labels, ReadLabels
<1>6. WhoIsWhere'
  BY <1>0, <1>1, <1>3, <1>4, Contexts DEF WhoIsWhere, Types
<1>7. \A k \in Handlers : k # h => (Due(k)' <=> Due(k))
  BY <1>0, <1>1, <1>3, Contexts DEF Due
<1>8. Due(h) /\ (more => Due(h)') /\ (h = "timer" => Due(h)')
  BY <1>0, <1>1, <1>3, Contexts DEF Due, Printing, Types
<1>9. \A p \in Procs : Asleep(p)' => Asleep(p) /\ more
  BY <1>4 DEF Asleep
<1>10. WorkReaderWoken'
  BY <1>7, <1>8, <1>9, Contexts DEF WorkReaderWoken
<1>11. OneTimerRead' /\ TimerArmed'
  BY <1>4, <1>7, <1>8, Contexts DEF OneTimerRead, TimerArmed
<1>12. TimerSeen'
  <2>1. pc'["timer"] = "wake" => pc["timer"] = "wake"
    BY <1>2, <1>3, Contexts
  <2>2. Due("timer") => Due("timer")'
    BY <1>7, <1>8, Contexts
  <2> QED BY <1>4, <1>9, <2>1, <2>2, Contexts DEF TimerSeen
<1> QED BY <1>5, <1>6, <1>10, <1>11, <1>12

(* A step of a reader that leaves file, pending and cond alone.            *)
LEMMA ReaderStep ==
  ASSUME JiqInv, NEW p \in Procs, NEW l \in ReadLabels,
         pc' = [pc EXCEPT ![p] = l], UNCHANGED <<file, cond, pending, spoilt>>,
         \/ jiq_wait' = jiq_wait \/ jiq_wait' = {}
         \/ jiq_wait' = jiq_wait \cup {p} \/ jiq_wait' = jiq_wait \ {p},
         l \in {"init_cond", "wait", "test"} => file[p] \notin Work,
         l = "sched" => pc[p] = "test" /\ ~cond,
         l \in {"wait", "test", "sched"} => pc[p] \in {"wait", "test", "sched"},
         pc[p] \in {"wait", "test", "sched"} => l \in {"wait", "test", "sched", "done"},
         pc[p] # "done", pc[p] # "idle"
  PROVE  JiqInv'
<1> USE DEF JiqInv
<1>0. p \in Ctx /\ p \notin Handlers
  BY Contexts
<1>1. pc'[p] = l /\ \A d \in Ctx : d # p => pc'[d] = pc[d]
  BY <1>0 DEF Types
<1>2. \A h \in Handlers : pc'[h] = pc[h] /\ (Due(h)' <=> Due(h))
  BY <1>0, <1>1, Contexts DEF Due
<1>3. Types'
  BY <1>0 DEF Types, Labels
<1>4. WhoIsWhere'
  BY <1>1, <1>2, Contexts DEF WhoIsWhere
<1>5. \A q \in Procs : q # p => (Asleep(q)' => Asleep(q))
  BY <1>1, Contexts DEF Asleep
<1>6. WorkReaderWoken'
  <2>1. Asleep(p)' => file[p] \notin Work
    BY <1>1 DEF Asleep, WhoIsWhere
  <2> QED BY <1>2, <1>5, <2>1, Contexts DEF WorkReaderWoken
<1>7. OneTimerRead'
  BY DEF OneTimerRead
<1>8. TimerArmed'
  <2> SUFFICES ASSUME Due("timer")'
               PROVE  \E q \in Procs : file[q] = "timer" /\ pc'[q] \in {"wait", "test", "sched", "done"}
    BY DEF TimerArmed
  <2>1. PICK q \in Procs : file[q] = "timer" /\ pc[q] \in {"wait", "test", "sched", "done"}
    BY <1>2, Contexts DEF TimerArmed
  <2>2. pc'[q] \in {"wait", "test", "sched", "done"}
    BY <1>1, <2>1, Contexts
  <2> QED BY <2>1, <2>2
<1>9. TimerSeen'
  <2> SUFFICES ASSUME NEW q \in Procs, file[q] = "timer", pc'[q] \in {"wait", "test", "sched"},
                      q \notin spoilt
               PROVE  /\ Due("timer")' \/ cond
                      /\ pc'["timer"] = "wake" => cond
                      /\ Asleep(q)' => Due("timer")'
    BY DEF TimerSeen
  <2>1. pc[q] \in {"wait", "test", "sched"}
    BY <1>1, Contexts
  <2>2. (Due("timer")' \/ cond) /\ (pc'["timer"] = "wake" => cond)
    BY <1>2, <2>1, Contexts DEF TimerSeen
  <2>3. CASE q = p
    BY <1>1, <1>2, <2>2, <2>3 DEF Asleep
  <2>4. CASE q # p
    BY <1>2, <1>5, <2>1, <2>2, <2>4, Contexts DEF TimerSeen
  <2> QED BY <2>3, <2>4
<1> QED BY <1>3, <1>4, <1>6, <1>7, <1>8, <1>9

(* A handler starts, sets cond or wakes the readers.                       *)
LEMMA HandlerKeeps ==
  ASSUME JiqInv, NEW h \in Handlers, handler_run(h) \/ handler_cond(h) \/ handler_wake(h)
  PROVE  JiqInv'
<1> USE DEF JiqInv
<1>0. h \in Ctx /\ h \notin Procs
  BY Contexts
<1>1. PICK l \in {"load", "idle", "wake"} :
         /\ pc' = [pc EXCEPT ![h] = l]
         /\ l = "wake" => h = "timer" /\ cond'
         /\ l = "idle" /\ h = "timer" => pc[h] = "wake" /\ jiq_wait' = {}
  BY DEF handler_run, handler_cond, handler_wake, Goto
<1>2. pc'[h] = l /\ \A d \in Ctx : d # h => pc'[d] = pc[d]
  BY <1>0, <1>1 DEF Types
<1>3. \A p \in Procs : pc'[p] = pc[p] /\ file'[p] = file[p]
  BY <1>0, <1>2, Contexts DEF handler_run, handler_cond, handler_wake
<1>4. file' = file /\ (jiq_wait' = jiq_wait \/ jiq_wait' = {}) /\ (cond' = cond \/ cond' = TRUE)
  BY DEF handler_run, handler_cond, handler_wake, data
<1>5. Types'
  BY <1>0, <1>1, <1>4 DEF Types, Labels, ReadLabels, Printing
<1>6. h \in Work => handler_run(h)
  BY Contexts DEF WhoIsWhere, Printing, handler_cond, handler_wake
<1>7. h \in Work => l = "load"
  BY <1>0, <1>2, <1>6, Contexts DEF handler_run, Goto, Types
<1>8. WhoIsWhere'
  BY <1>0, <1>1, <1>2, <1>3, <1>7, Contexts DEF WhoIsWhere, Printing
<1>9. \A k \in Handlers : k # h => (Due(k)' <=> Due(k))
  BY <1>0, <1>2, Contexts DEF Due, handler_run, handler_cond, handler_wake
<1>10. Due(h) /\ (l # "idle" => Due(h)')
  BY <1>0, <1>2, Contexts DEF Due, handler_run, handler_cond, handler_wake
<1>11. \A p \in Procs : Asleep(p)' => Asleep(p)
  BY <1>3, <1>4 DEF Asleep
<1>12. WorkReaderWoken'
  BY <1>3, <1>7, <1>9, <1>10, <1>11, Contexts DEF WorkReaderWoken
<1>13. OneTimerRead' /\ TimerArmed'
  BY <1>3, <1>9, <1>10, Contexts DEF OneTimerRead, TimerArmed
<1>14. TimerSeen'
  <2>0. spoilt' = spoilt
    BY DEF handler_run, handler_cond, handler_wake
  <2>1. Due("timer") => Due("timer")' \/ (pc["timer"] = "wake" /\ jiq_wait' = {})
    BY <1>1, <1>9, <1>10, Contexts
  <2> SUFFICES ASSUME NEW p \in Procs, file[p] = "timer", pc[p] \in {"wait", "test", "sched"},
                      p \notin spoilt
               PROVE  /\ Due("timer")' \/ cond'
                      /\ pc'["timer"] = "wake" => cond'
                      /\ Asleep(p)' => Due("timer")'
    BY <1>3, <2>0 DEF TimerSeen
  <2>2. pc'["timer"] = "wake" => cond'
    BY <1>1, <1>2, <1>4, Contexts DEF TimerSeen
  <2>3. Due("timer")' \/ cond'
    BY <1>4, <2>1 DEF TimerSeen
  <2>4. Asleep(p)' => Due("timer")'
    BY <1>11, <2>1 DEF TimerSeen, Asleep
  <2> QED BY <2>2, <2>3, <2>4
<1> QED BY <1>5, <1>8, <1>12, <1>13, <1>14

(* A process begins a read.                                                *)
LEMMA ReadKeeps ==
  ASSUME JiqInv, NEW p \in Procs, NEW f \in Handlers, jiq_read(p, f)
  PROVE  JiqInv'
<1> USE DEF JiqInv
<1>0. p \in Ctx /\ p \notin Handlers /\ f \in Handlers
  BY Contexts, JiqAssumption
<1>1. /\ pc' = [pc EXCEPT ![p] = "init_len"] /\ file' = [file EXCEPT ![p] = f]
      /\ pc[p] = "idle" /\ UNCHANGED <<cond, jiq_wait, pending, spoilt>>
      /\ f = "timer" => \A q \in Procs : file[q] # "timer"
  BY DEF jiq_read, Goto, data
<1>2. pc'[p] = "init_len" /\ \A d \in Ctx : d # p => pc'[d] = pc[d]
  BY <1>0, <1>1 DEF Types
<1>3. file'[p] = f /\ \A q \in Procs : q # p => file'[q] = file[q] /\ pc'[q] = pc[q]
  BY <1>1, <1>2, Contexts DEF Types
<1>4. \A h \in Handlers : pc'[h] = pc[h] /\ (Due(h)' <=> Due(h))
  BY <1>0, <1>1, <1>2, Contexts DEF Due
<1>5. Types'
  BY <1>0, <1>1 DEF Types, Labels, ReadLabels
<1>6. WhoIsWhere'
  <2>1. f # "none"
    BY <1>0, Contexts
  <2>2. \A q \in Procs : /\ pc'[q] \in ReadLabels
                         /\ pc'[q] \in {"init_cond", "wait", "test"} => file'[q] \notin Work
                         /\ pc'[q] # "idle" => file'[q] # "none"
    BY <1>2, <1>3, <2>1 DEF WhoIsWhere, ReadLabels
  <2> QED BY <1>4, <2>2, Contexts DEF WhoIsWhere
<1>7. \A q \in Procs : Asleep(q)' => q # p /\ Asleep(q)
  BY <1>1, <1>2, <1>3 DEF Asleep
<1>8. WorkReaderWoken'
  BY <1>3, <1>4, <1>7, Contexts DEF WorkReaderWoken
<1>9. OneTimerRead'
  BY <1>1, <1>3 DEF OneTimerRead
<1>10. TimerArmed'
  BY <1>1, <1>3, <1>4, Contexts DEF TimerArmed
<1>11. TimerSeen'
  BY <1>1, <1>2, <1>3, <1>4, <1>7, Contexts DEF TimerSeen
<1> QED BY <1>5, <1>6, <1>8, <1>9, <1>10, <1>11

(* A read resets cond: the waiting readers it was set for are spoilt.      *)
LEMMA InitCondKeeps ==
  ASSUME JiqInv, NEW p \in Procs, read_init_cond(p)
  PROVE  JiqInv'
<1> USE DEF JiqInv
<1>0. p \in Ctx /\ p \notin Handlers
  BY Contexts
<1>1. PICK l \in {"load", "arm"} : pc' = [pc EXCEPT ![p] = l]
  BY DEF read_init_cond, Goto
<1>2. pc[p] = "init_cond" /\ cond' = FALSE /\ UNCHANGED <<file, jiq_wait, pending>>
  BY DEF read_init_cond
<1>3. pc'[p] = l /\ \A d \in Ctx : d # p => pc'[d] = pc[d]
  BY <1>0, <1>1 DEF Types
<1>4. \A h \in Handlers : pc'[h] = pc[h] /\ (Due(h)' <=> Due(h))
  BY <1>0, <1>2, <1>3, Contexts DEF Due
<1>5. Types'
  BY <1>0, <1>1, <1>2 DEF Types, Labels, ReadLabels, Printing
<1>6. WhoIsWhere'
  <2>2. \A q \in Procs : /\ pc'[q] \in ReadLabels
                         /\ pc'[q] \in {"init_cond", "wait", "test"} => file'[q] \notin Work
                         /\ pc'[q] # "idle" => file'[q] # "none"
    BY <1>2, <1>3, Contexts DEF WhoIsWhere, ReadLabels, Printing
  <2> QED BY <1>4, <2>2, Contexts DEF WhoIsWhere
<1>7. \A q \in Procs : Asleep(q)' => q # p /\ Asleep(q)
  BY <1>2, <1>3, Contexts DEF Asleep
<1>8. WorkReaderWoken'
  BY <1>2, <1>4, <1>7, Contexts DEF WorkReaderWoken
<1>9. OneTimerRead'
  BY <1>2 DEF OneTimerRead
<1>10. TimerArmed'
  BY <1>2, <1>3, <1>4, Contexts DEF TimerArmed
<1>11. TimerSeen'
  <2> SUFFICES ASSUME NEW q \in Procs, file[q] = "timer", pc'[q] \in {"wait", "test", "sched"},
                      q \notin spoilt'
               PROVE  /\ Due("timer")'
                      /\ pc'["timer"] # "wake"
    BY <1>2 DEF TimerSeen
  <2>1. q # p /\ pc[q] \in {"wait", "test", "sched"}
    BY <1>3, Contexts
  <2>2. ~cond /\ q \notin spoilt
    BY <2>1 DEF read_init_cond, WaitsForCond
  <2> QED BY <1>4, <2>1, <2>2, Contexts DEF TimerSeen
<1> QED BY <1>5, <1>6, <1>8, <1>9, <1>10, <1>11

(* The reader schedules its handler.                                       *)
LEMMA ArmKeeps ==
  ASSUME JiqInv, NEW p \in Procs, read_arm(p)
  PROVE  JiqInv'
<1> USE DEF JiqInv
<1>0. p \in Ctx /\ p \notin Handlers
  BY Contexts
<1>1. PICK l \in {"sched", "wait"} : /\ pc' = [pc EXCEPT ![p] = l]
                                     /\ l = "wait" => file[p] \notin Work
                                     /\ l = "sched" => file[p] \in Work
  BY DEF read_arm, Goto
<1>2. /\ pc[p] = "arm" /\ pending' = pending \cup {file[p]}
      /\ UNCHANGED <<cond, file, jiq_wait, spoilt>>
  BY DEF read_arm, data
<1>3. pc'[p] = l /\ \A d \in Ctx : d # p => pc'[d] = pc[d]
  BY <1>0, <1>1 DEF Types
<1>4. \A h \in Handlers : pc'[h] = pc[h]
  BY <1>0, <1>3, Contexts
<1>5. \A h \in Handlers : (Due(h) => Due(h)') /\ (Due(h)' => Due(h) \/ h = file[p])
  BY <1>2, <1>4 DEF Due
<1>6. Types'
  BY <1>0, <1>1, <1>2 DEF Types, Labels, ReadLabels
<1>7. WhoIsWhere'
  <2>2. \A q \in Procs : /\ pc'[q] \in ReadLabels
                         /\ pc'[q] \in {"init_cond", "wait", "test"} => file'[q] \notin Work
                         /\ pc'[q] # "idle" => file'[q] # "none"
    BY <1>1, <1>2, <1>3, Contexts DEF WhoIsWhere, ReadLabels
  <2> QED BY <1>4, <2>2, Contexts DEF WhoIsWhere
<1>8. file[p] \in Handlers => Due(file[p])'
  BY <1>2 DEF Due
<1>9. \A q \in Procs : Asleep(q)' => Asleep(q) \/ (q = p /\ l = "sched")
  BY <1>2, <1>3, Contexts DEF Asleep
<1>10. WorkReaderWoken'
  BY <1>2, <1>5, <1>8, <1>9, Contexts DEF WorkReaderWoken
<1>11. OneTimerRead'
  BY <1>2 DEF OneTimerRead
<1>12. TimerArmed'
  BY <1>1, <1>2, <1>3, <1>5, Contexts DEF TimerArmed
<1>13. TimerSeen'
  <2> SUFFICES ASSUME NEW q \in Procs, file[q] = "timer", pc'[q] \in {"wait", "test", "sched"},
                      q \notin spoilt
               PROVE  /\ Due("timer")' \/ cond
                      /\ pc'["timer"] = "wake" => cond
                      /\ Asleep(q)' => Due("timer")'
    BY <1>2 DEF TimerSeen
  <2>1. Due("timer") => Due("timer")'
    BY <1>5, Contexts
  <2>2. CASE q = p
    <3>1. Due("timer")'
      BY <1>2, <2>2 DEF Due
    <3>2. ~Due("timer")
      BY <1>2, <2>2 DEF TimerArmed, OneTimerRead
    <3> QED BY <1>4, <3>1, <3>2, Contexts DEF Due
  <2>3. CASE q # p
    BY <1>3, <1>4, <1>9, <2>1, <2>3, Contexts DEF TimerSeen
  <2> QED BY <2>2, <2>3
<1> QED BY <1>6, <1>7, <1>10, <1>11, <1>12, <1>13

(* The read ends; the timer's reader leaves no timer behind.               *)
LEMMA ReturnKeeps ==
  ASSUME JiqInv, NEW p \in Procs, read_return(p)
  PROVE  JiqInv'
<1> USE DEF JiqInv
<1>0. p \in Ctx /\ p \notin Handlers
  BY Contexts
<1>1. /\ pc[p] = "done" /\ pc' = [pc EXCEPT ![p] = "idle"]
      /\ file' = [file EXCEPT ![p] = "none"] /\ UNCHANGED <<cond, jiq_wait>>
      /\ \/ file[p] # "timer" /\ pending' = pending
         \/ file[p] = "timer" /\ pc["timer"] = "idle" /\ pending' = pending \ {"timer"}
  BY DEF read_return, Goto, data
<1>2. pc'[p] = "idle" /\ \A d \in Ctx : d # p => pc'[d] = pc[d]
  BY <1>0, <1>1 DEF Types
<1>3. file'[p] = "none" /\ \A q \in Procs : q # p => file'[q] = file[q] /\ pc'[q] = pc[q]
  BY <1>1, <1>2, Contexts DEF Types
<1>4. \A h \in Handlers : pc'[h] = pc[h]
  BY <1>0, <1>2, Contexts
<1>5. /\ \A h \in Handlers : (Due(h)' => Due(h)) /\ (h # "timer" => (Due(h)' <=> Due(h)))
      /\ file[p] = "timer" => ~Due("timer")'
      /\ file[p] # "timer" => (Due("timer")' <=> Due("timer"))
  BY <1>1, <1>4, Contexts DEF Due
<1>6. Types'
  BY <1>0, <1>1 DEF Types, Labels, ReadLabels
<1>7. WhoIsWhere'
  <2>2. \A q \in Procs : /\ pc'[q] \in ReadLabels
                         /\ pc'[q] \in {"init_cond", "wait", "test"} => file'[q] \notin Work
                         /\ pc'[q] # "idle" => file'[q] # "none"
    BY <1>2, <1>3 DEF WhoIsWhere, ReadLabels
  <2> QED BY <1>4, <2>2, Contexts DEF WhoIsWhere
<1>8. \A q \in Procs : Asleep(q)' => q # p /\ Asleep(q)
  BY <1>1, <1>2, <1>3 DEF Asleep
<1>9. WorkReaderWoken'
  BY <1>3, <1>5, <1>8, Contexts DEF WorkReaderWoken
<1>10. OneTimerRead'
  BY <1>3 DEF OneTimerRead
<1>11. TimerArmed'
  BY <1>1, <1>3, <1>5, Contexts DEF TimerArmed
<1>12. TimerSeen'
  <2> SUFFICES ASSUME NEW q \in Procs, file'[q] = "timer", pc'[q] \in {"wait", "test", "sched"},
                      q \notin spoilt'
               PROVE  /\ Due("timer")' \/ cond
                      /\ pc'["timer"] = "wake" => cond
                      /\ Asleep(q)' => Due("timer")'
    BY <1>1 DEF TimerSeen
  <2>1. q # p /\ q \notin spoilt
    BY <1>2 DEF read_return
  <2>2. file[q] = "timer" /\ file[p] # "timer"
    BY <1>3, <2>1 DEF OneTimerRead, TimerSeen
  <2> QED BY <1>3, <1>4, <1>5, <1>8, <2>1, <2>2, Contexts DEF TimerSeen
<1> QED BY <1>6, <1>7, <1>9, <1>10, <1>11, <1>12

(* Any step of jiq_print.                                                  *)
LEMMA PrintKeeps ==
  ASSUME JiqInv, NEW c \in Ctx, PrintStep(c)
  PROVE  JiqInv'
<1>1. CASE jiq_print(c) \/ print_load_buf(c) \/ print_write(c) \/ print_set_len(c) \/ print_add_buf(c)
  <2>1. PICK l \in Printing : pc' = [pc EXCEPT ![c] = l]
    BY <1>1 DEF jiq_print, print_load_buf, print_write, print_set_len, print_add_buf, Goto, Printing
  <2>2. pc[c] \in Printing /\ UNCHANGED <<file, jiq_wait, pending, cond, spoilt>>
    BY <1>1 DEF jiq_print, print_load_buf, print_write, print_set_len, print_add_buf, Printing, data
  <2> QED BY <2>1, <2>2, InnerStep
<1>2. CASE print_full(c) \/ print_set_buf(c)
  <2>1. pc[c] \in {"full", "set_buf"} /\ UNCHANGED <<file, cond, spoilt>>
    BY <1>2 DEF print_full, print_set_buf, data
  <2>2. \/ Printed(c, FALSE) /\ jiq_wait' = {}
        \/ Printed(c, TRUE) /\ jiq_wait' = jiq_wait
    BY <1>2 DEF print_full, print_set_buf
  <2>3. CASE c \in Handlers
    <3>1. pc[c] \in Printing
      BY <2>1 DEF Printing
    <3>2. CASE Printed(c, FALSE) /\ jiq_wait' = {}
      <4>1. jiq_wait' = IF FALSE THEN jiq_wait ELSE {}
        BY <3>2
      <4> QED BY <2>1, <2>3, <3>1, <3>2, <4>1, HandlerPrinted
    <3>3. CASE Printed(c, TRUE) /\ jiq_wait' = jiq_wait
      <4>1. jiq_wait' = IF TRUE THEN jiq_wait ELSE {}
        BY <3>3
      <4> QED BY <2>1, <2>3, <3>1, <3>3, <4>1, HandlerPrinted
    <3> QED BY <2>2, <3>2, <3>3
  <2>4. CASE c \in Procs
    <3>1. pc' = [pc EXCEPT ![c] = "arm"] /\ UNCHANGED pending
      BY <2>2, <2>4, Contexts DEF Printed, Goto
    <3>2. jiq_wait' = jiq_wait \/ jiq_wait' = {}
      BY <2>2
    <3>3. "arm" \in ReadLabels
      BY DEF ReadLabels
    <3> QED BY <2>1, <2>4, <3>1, <3>2, <3>3, ReaderStep
  <2> QED BY <2>3, <2>4 DEF Ctx
<1> QED BY <1>1, <1>2 DEF PrintStep

(* The reader's steps on jiq_wait and on the data it shares.               *)
LEMMA WaitKeeps ==
  ASSUME JiqInv, NEW p \in Procs,
         \/ read_init_len(p) \/ read_init_buf(p) \/ read_prepare(p) \/ read_wait_nosleep(p)
         \/ read_wait_prepare(p) \/ read_wait_test(p) \/ read_woken(p) \/ read_signal(p)
  PROVE  JiqInv'
<1>0. UNCHANGED <<file, cond, pending, spoilt>>
  BY DEF read_init_len, read_init_buf, read_prepare, read_wait_nosleep, read_wait_prepare,
         read_wait_test, read_woken, read_signal, data
<1>1. CASE read_init_len(p) \/ read_init_buf(p) \/ read_prepare(p)
  <2>1. PICK l \in {"init_buf", "init_cond", "prepare", "arm"} :
          pc' = [pc EXCEPT ![p] = l] /\ (l = "init_cond" => file[p] \notin Work)
    BY <1>1 DEF read_init_len, read_init_buf, read_prepare, Goto
  <2>2. /\ pc[p] \in {"init_len", "init_buf", "prepare"}
        /\ jiq_wait' = jiq_wait \/ jiq_wait' = jiq_wait \cup {p}
    BY <1>1 DEF read_init_len, read_init_buf, read_prepare
  <2>3. l \in ReadLabels
    BY DEF ReadLabels
  <2> QED BY <1>0, <2>1, <2>2, <2>3, ReaderStep
<1>2. CASE read_wait_nosleep(p) \/ read_wait_prepare(p) \/ read_wait_test(p) \/ read_woken(p)
           \/ read_signal(p)
  <2>1. PICK l \in {"done", "test", "sched"} :
          /\ pc' = [pc EXCEPT ![p] = l]
          /\ l = "test" => file[p] \notin Work
          /\ l = "sched" => pc[p] = "test" /\ ~cond /\ jiq_wait' = jiq_wait
    BY <1>2 DEF read_wait_nosleep, read_wait_prepare, read_wait_test, read_woken, read_signal, Goto
  <2>2. /\ pc[p] \in {"wait", "test", "sched"}
        /\ jiq_wait' = jiq_wait \/ jiq_wait' = jiq_wait \cup {p} \/ jiq_wait' = jiq_wait \ {p}
    BY <1>2 DEF read_wait_nosleep, read_wait_prepare, read_wait_test, read_woken, read_signal
  <2>3. l \in ReadLabels
    BY DEF ReadLabels
  <2> QED BY <1>0, <2>1, <2>2, <2>3, ReaderStep
<1> QED BY <1>1, <1>2

(* Whatever order readers, signals and handlers run in, the files' readers *)
(* and their handlers stay in step.                                        *)
THEOREM JiqCorrect == Spec => []JiqInv
<1> DEFINE Proper == files \subseteq Handlers
<1>0. Spec => []Proper
  <2>1. Init => Proper
    BY JiqAssumption DEF Init
  <2>2. [Next]_vars => files' = files
    BY DEF Next, vars, ReadStep, HandlerStep, PrintStep, jiq_read, read_init_len, read_init_buf,
       read_init_cond, read_prepare, read_arm, read_wait_nosleep, read_wait_prepare,
       read_wait_test, read_woken, read_signal, read_return, jiq_print, print_load_buf, print_full,
       print_write, print_set_len, print_add_buf, print_set_buf, handler_run, handler_cond,
       handler_wake
  <2>3. Proper /\ [Next]_vars => Proper'
    BY <2>2
  <2> QED BY <2>1, <2>3, PTL DEF Spec
<1>1. Init => JiqInv
  BY JiqAssumption DEF Init, JiqInv, Types, WhoIsWhere, WorkReaderWoken, OneTimerRead, TimerArmed,
     TimerSeen, Due, Asleep, Labels, ReadLabels, Printing, Ctx, Handlers, Work
<1>2. JiqInv /\ Proper /\ [Next]_vars => JiqInv'
  <2> SUFFICES ASSUME JiqInv, Proper, [Next]_vars PROVE JiqInv'
    OBVIOUS
  <2>1. ASSUME NEW p \in Procs, NEW f \in files, jiq_read(p, f) PROVE JiqInv'
    BY <2>1, ReadKeeps
  <2>2. ASSUME NEW p \in Procs, ReadStep(p) \/ read_signal(p) PROVE JiqInv'
    <3>1. p \in Ctx
      BY DEF Ctx
    <3> QED BY <2>2, <3>1, PrintKeeps, WaitKeeps, InitCondKeeps, ArmKeeps, ReturnKeeps DEF ReadStep
  <2>3. ASSUME NEW h \in Handlers, HandlerStep(h) PROVE JiqInv'
    <3>1. h \in Ctx
      BY DEF Ctx
    <3> QED BY <2>3, <3>1, PrintKeeps, HandlerKeeps DEF HandlerStep
  <2>4. CASE UNCHANGED vars
    BY <2>4 DEF vars, JiqInv, Types, WhoIsWhere, WorkReaderWoken, OneTimerRead, TimerArmed,
       TimerSeen, Due, Asleep
  <2> QED BY <2>1, <2>2, <2>3, <2>4 DEF Next
<1> QED BY <1>0, <1>1, <1>2, PTL DEF Spec

(* A reader that sleeps for a work item has one that is going to run.      *)
THEOREM WorkReadersWoken == Spec => []WorkReaderWoken
<1>1. JiqInv => WorkReaderWoken
  BY DEF JiqInv
<1> QED BY <1>1, JiqCorrect, PTL

(* The timer is due only while somebody reads its file.                    *)
THEOREM TimerStaysQuiet == Spec => []TimerQuiet
<1>1. JiqInv => TimerQuiet
  BY DEF JiqInv, TimerArmed, TimerQuiet
<1> QED BY <1>1, JiqCorrect, PTL

(* The reader that sleeps for the timer is woken by it, also while the     *)
(* tasklet's file, which shares cond, is read: unless such a read resets   *)
(* cond after it was set and before the reader has tested it.              *)
THEOREM TimerReaderIsWoken == Spec => []TimerReaderWoken
<1>1. JiqInv => TimerReaderWoken
  <2> SUFFICES ASSUME JiqInv, NEW p \in Procs, Asleep(p), file[p] = "timer", p \notin spoilt
               PROVE  Due("timer")
    BY DEF TimerReaderWoken
  <2> QED BY DEF JiqInv, TimerSeen, Asleep
<1> QED BY <1>1, JiqCorrect, PTL
=============================================================================
