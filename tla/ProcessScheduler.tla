--------------------------- MODULE ProcessScheduler ---------------------------
(***************************************************************************)
(* The single-core scheduler of src/src/process.rs together with the       *)
(* PendSV context-switch handler it relies on.                             *)
(*                                                                         *)
(* In this revision `preempt` elects the next task itself: it overwrites   *)
(* `curr_pid`, stores the outgoing and incoming TCBs in the two globals    *)
(* os_curr_task / os_next_task and pends PendSV.  PendSV (assembly, not    *)
(* part of the Rust sources) later saves the live CPU context into         *)
(* *os_curr_task and loads *os_next_task.  PendSV has the lowest exception *)
(* priority: from thread mode it is taken as soon as the critical section  *)
(* that pended it ends; from an interrupt handler only once no handler is  *)
(* active.  An interrupt may also arrive while PendSV is still pending.    *)
(*                                                                         *)
(* Bitmaps are sets of task ids (bit i set <=> i \in set).  A CPU context  *)
(* is a record: whose code it is (`task`) and where that code stands       *)
(* (`pc`): "user" in the task body, "sched" between the critical section   *)
(* of release/task_exit and the schedule() call that follows it.          *)
(***************************************************************************)
EXTENDS Integers, FiniteSetsExt

CONSTANTS
  Tasks,   \* task ids = priorities 0 .. MAX_TASKS-1; 0 is the idle task
  Boot,    \* the context of `main` before the first dispatch
  Empty    \* &empty_task, the initial value of os_curr_task/os_next_task

ASSUME 0 \in Tasks /\ Tasks \subseteq Nat
ASSUME Boot \notin Tasks /\ Empty \notin Tasks

VARIABLES
  ATV, BTV,             \* TaskManager.ATV / .BTV as sets of task ids
  threads,              \* ids whose TCB slot is Some(_)
  curr_pid, started, is_running, is_preemptive,
  os_curr_task, os_next_task,
  pendsv,               \* the PendSV pending bit (SCB ICSR.PENDSVSET)
  in_isr,               \* an interrupt handler is active
  cpu,                  \* the context live in the core's registers
  tcb                   \* tcb[t]: the context saved in task t's TCB/stack

vars == <<ATV, BTV, threads, curr_pid, started, is_running, is_preemptive,
          os_curr_task, os_next_task, pendsv, in_isr, cpu, tcb>>

PCs == {"user", "sched"}
Ctx == [task : Tasks \cup {Boot}, pc : PCs]
NoCtx == [task |-> Empty, pc |-> "user"]   \* slot of a task never created

\* The frame create_task writes: first dispatch starts the task's body.
Fresh(t) == [task |-> t, pc |-> "user"]

TypeOK ==
  /\ ATV \subseteq Tasks /\ BTV \subseteq Tasks /\ threads \subseteq Tasks
  /\ curr_pid \in Tasks
  /\ {started, is_running, is_preemptive, pendsv, in_isr} \subseteq BOOLEAN
  /\ os_curr_task \in Tasks \cup {Empty} /\ os_next_task \in Tasks \cup {Empty}
  /\ cpu \in Ctx
  /\ tcb \in [Tasks -> Ctx \cup {NoCtx}]

\* get_msb: index of the highest set bit of a non-zero bitmap.
Msb(S) == Max(S)

\* TaskManager::get_HT: highest-priority task that is active and not blocked.
HT(atv, btv) == Msb(atv \ btv)

(* The globals of process.rs and the TaskManager they wrap.               *)
Init ==
  /\ ATV = {0} /\ BTV = {}
  /\ threads = {}
  /\ curr_pid = 0
  /\ started = FALSE /\ is_running = FALSE /\ is_preemptive = FALSE
  /\ os_curr_task = Empty /\ os_next_task = Empty
  /\ pendsv = FALSE /\ in_isr = FALSE
  /\ cpu = [task |-> Boot, pc |-> "user"]
  /\ tcb = [t \in Tasks |-> NoCtx]

(***************************************************************************)
(* context_switch(curr, next): remember the outgoing TCB (unless nothing   *)
(* has been dispatched yet), make `next` current and pend PendSV.          *)
(***************************************************************************)
context_switch(next) ==
  /\ os_curr_task' = IF started THEN curr_pid ELSE os_curr_task
  /\ started' = TRUE
  /\ curr_pid' = next
  /\ os_next_task' = next
  /\ pendsv' = TRUE

\* preempt(): elect from the bitmaps `atv`, `btv` (the values the caller's
\* critical section has just written) and switch if the winner changed.
preempt(atv, btv, running) ==
  IF running /\ curr_pid # HT(atv, btv)
    THEN context_switch(HT(atv, btv))
    ELSE UNCHANGED <<os_curr_task, started, curr_pid, os_next_task, pendsv>>

(***************************************************************************)
(* Set-up, in `main`, before the kernel runs.                              *)
(***************************************************************************)
\* init(is_preemptive): creates the idle task and records the mode.
init(p) ==
  /\ threads = {}
  /\ threads' = {0}
  /\ tcb' = [tcb EXCEPT ![0] = Fresh(0)]
  /\ is_preemptive' = p
  /\ UNCHANGED <<ATV, BTV, curr_pid, started, is_running, os_curr_task,
                 os_next_task, pendsv, in_isr, cpu>>

\* create_task(priority, handler_fn, param)
create_task(p) ==
  /\ threads # {} /\ ~is_running
  /\ p \notin threads
  /\ threads' = threads \cup {p}
  /\ tcb' = [tcb EXCEPT ![p] = Fresh(p)]
  /\ UNCHANGED <<ATV, BTV, curr_pid, started, is_running, is_preemptive,
                 os_curr_task, os_next_task, pendsv, in_isr, cpu>>

\* start_kernel(), first critical section: SysTick set up and
\* all_tasks.start_kernel() sets is_running; `main` is then between it and
\* its own preempt() call.
start_kernel ==
  /\ threads # {} /\ ~is_running
  /\ is_running' = TRUE
  /\ cpu' = [cpu EXCEPT !.pc = "sched"]
  /\ UNCHANGED <<ATV, BTV, threads, curr_pid, started, is_preemptive,
                 os_curr_task, os_next_task, pendsv, in_isr, tcb>>

\* start_kernel(), second critical section: main's preempt().  An interrupt
\* may elect and dispatch first; main's context is then never resumed.
start_preempt ==
  /\ is_running /\ ~in_isr /\ ~pendsv
  /\ cpu.task = Boot /\ cpu.pc = "sched"
  /\ cpu' = [cpu EXCEPT !.pc = "user"]
  /\ preempt(ATV, BTV, TRUE)
  /\ UNCHANGED <<ATV, BTV, threads, is_running, is_preemptive, in_isr, tcb>>

(***************************************************************************)
(* Calls made by the running task.  A task runs only in thread mode with   *)
(* no PendSV pending (a pending PendSV preempts thread mode at once).  The *)
(* idle task only executes wfe and `main` makes no call after start.      *)
(***************************************************************************)
TaskRunning ==
  /\ is_running /\ ~in_isr /\ ~pendsv
  /\ cpu.task \in Tasks \ {0}

\* release(mask), first half: the critical section ATV |= mask.
release(mask) ==
  /\ TaskRunning /\ cpu.pc = "user"
  /\ ATV' = ATV \cup mask
  /\ cpu' = [cpu EXCEPT !.pc = "sched"]
  /\ UNCHANGED <<BTV, threads, curr_pid, started, is_running, is_preemptive,
                 os_curr_task, os_next_task, pendsv, in_isr, tcb>>

\* task_exit(), first half: clear the bit of get_pid() = curr_pid.
task_exit ==
  /\ TaskRunning /\ cpu.pc = "user"
  /\ ATV' = ATV \ {curr_pid}
  /\ cpu' = [cpu EXCEPT !.pc = "sched"]
  /\ UNCHANGED <<BTV, threads, curr_pid, started, is_running, is_preemptive,
                 os_curr_task, os_next_task, pendsv, in_isr, tcb>>

\* schedule(), second half of release and task_exit.  From thread mode it
\* reaches preempt() directly or through the SVC handler; either way the
\* election is one critical section.
schedule ==
  /\ TaskRunning /\ cpu.pc = "sched"
  /\ cpu' = [cpu EXCEPT !.pc = "user"]
  /\ preempt(ATV, BTV, is_running)
  /\ UNCHANGED <<ATV, BTV, threads, is_running, is_preemptive, in_isr, tcb>>

(***************************************************************************)
(* Calls that task and interrupt context share.                            *)
(***************************************************************************)
CanCall == in_isr \/ (TaskRunning /\ cpu.pc = "user")

block_tasks(mask) ==
  /\ CanCall
  /\ BTV' = BTV \cup mask
  /\ UNCHANGED <<ATV, threads, curr_pid, started, is_running, is_preemptive,
                 os_curr_task, os_next_task, pendsv, in_isr, cpu, tcb>>

unblock_tasks(mask) ==
  /\ CanCall
  /\ BTV' = BTV \ mask
  /\ UNCHANGED <<ATV, threads, curr_pid, started, is_running, is_preemptive,
                 os_curr_task, os_next_task, pendsv, in_isr, cpu, tcb>>

\* enable_preemption() / disable_preemption()
set_preemption(b) ==
  /\ CanCall
  /\ is_preemptive' = b
  /\ UNCHANGED <<ATV, BTV, threads, curr_pid, started, is_running,
                 os_curr_task, os_next_task, pendsv, in_isr, cpu, tcb>>

(***************************************************************************)
(* Interrupt context.  An interrupt is taken whenever no critical section  *)
(* is open, also while PendSV is pending; inside the handler, release()    *)
(* runs both halves before the handler returns.                            *)
(***************************************************************************)
IsrEnter ==
  /\ is_running /\ ~in_isr
  /\ in_isr' = TRUE
  /\ UNCHANGED <<ATV, BTV, threads, curr_pid, started, is_running,
                 is_preemptive, os_curr_task, os_next_task, pendsv, cpu, tcb>>

IsrExit ==
  /\ in_isr
  /\ in_isr' = FALSE
  /\ UNCHANGED <<ATV, BTV, threads, curr_pid, started, is_running,
                 is_preemptive, os_curr_task, os_next_task, pendsv, cpu, tcb>>

IsrRelease(mask) ==
  /\ in_isr
  /\ ATV' = ATV \cup mask
  /\ preempt(ATV \cup mask, BTV, is_running)
  /\ UNCHANGED <<BTV, threads, is_running, is_preemptive, in_isr, cpu, tcb>>

(***************************************************************************)
(* PendSV: save the live context into *os_curr_task (a write to the static *)
(* empty_task is lost), then load *os_next_task.                           *)
(***************************************************************************)
PendSV ==
  /\ pendsv /\ ~in_isr
  /\ tcb' = IF os_curr_task = Empty THEN tcb
            ELSE [tcb EXCEPT ![os_curr_task] = cpu]
  /\ cpu' = tcb'[os_next_task]
  /\ pendsv' = FALSE
  /\ UNCHANGED <<ATV, BTV, threads, curr_pid, started, is_running,
                 is_preemptive, os_curr_task, os_next_task, in_isr>>

Masks == SUBSET (threads \ {0}) \ {{}}

Next ==
  \/ \E p \in BOOLEAN : init(p)
  \/ \E p \in Tasks \ {0} : create_task(p)
  \/ start_kernel \/ start_preempt
  \/ \E m \in Masks : release(m)
  \/ task_exit
  \/ schedule
  \/ \E t \in threads \ {0} : block_tasks({t}) \/ unblock_tasks({t})
  \/ \E b \in BOOLEAN : set_preemption(b)
  \/ IsrEnter \/ IsrExit
  \/ \E m \in Masks : IsrRelease(m)
  \/ PendSV

Spec == Init /\ [][Next]_vars

(***************************************************************************)
(* Every TCB holds a context of its own task: the register file saved into *)
(* task t's stack, and resumed whenever t is elected, is t's.  Breaking it *)
(* takes a second election (context_switch overwriting os_curr_task)       *)
(* before the PendSV of the first has run.                                 *)
(***************************************************************************)
ContextIntegrity ==
  \A t \in threads : tcb[t].task = t

(***************************************************************************)
(* Spec 4.1 (release, block/unblock) and the meaning of `is_preemptive`: a *)
(* call that readies tasks while the kernel runs leaves the highest ready  *)
(* task elected when the system is preemptive (unblock "calls schedule()", *)
(* scenario 2: an ISR unblocking a higher task switches to it before it    *)
(* returns), and defers the switch, electing nobody new, when it is not.   *)
(* The steps checked are the ones that complete such a call in one go:     *)
(* unblock_tasks from a task or an ISR, and release inside an ISR.         *)
(***************************************************************************)
ReadiesTasks ==
  \/ BTV' \subseteq BTV /\ BTV' # BTV
  \/ in_isr /\ ATV \subseteq ATV' /\ ATV' # ATV

PreemptionRule ==
  [][is_running /\ ReadiesTasks =>
       curr_pid' = IF is_preemptive THEN HT(ATV', BTV') ELSE curr_pid]_vars

=============================================================================
