----------------------------- MODULE TaskManagerV0 -----------------------------
(***************************************************************************)
(* The older single-core task manager of src/src/kernel/task_manager.rs.  *)
(*                                                                         *)
(* Unlike process.rs, every kernel call here runs its election inside the  *)
(* caller's execute_critical: release, task_exit and release_tasks call    *)
(* preempt() with interrupts masked.  preempt() reads CONTROL.nPRIV: when  *)
(* privileged it calls preempt_call() directly, otherwise it issues        *)
(* svc_call().  nPRIV is Thread mode's privilege bit, so an interrupt      *)
(* handler reads the value of the task it interrupted.  Nothing under src/ *)
(* writes CONTROL: whether the dispatch code leaves tasks unprivileged (as *)
(* spec 4.1 has it) is the constant TasksUnprivileged.  On ARMv7-M an SVC  *)
(* executed while PRIMASK masks it is escalated to HardFault, modelled by  *)
(* the flag `fault`.                                                       *)
(*                                                                         *)
(* preempt_call names the running task RT.  It moves RT to the winner      *)
(* before it looks the winner's TCB up, and returns DoesNotExist, with no  *)
(* PendSV, when the slot is None.                                          *)
(***************************************************************************)
EXTENDS Integers, FiniteSetsExt

CONSTANTS
  MAX_TASKS,   \* crate::config::MAX_TASKS: TCB slots 0 .. MAX_TASKS-1
  Boot,        \* the context of `main` before the first dispatch
  Empty,       \* &empty_task
  Priorities,  \* the priorities main passes to create_task
  TasksUnprivileged  \* CONTROL.nPRIV once a task has been dispatched

Tasks == 0 .. MAX_TASKS - 1

ASSUME MAX_TASKS \in Nat \ {0}
ASSUME Priorities \subseteq Nat \ {0} /\ TasksUnprivileged \in BOOLEAN
ASSUME Boot \notin Tasks /\ Empty \notin Tasks

VARIABLES
  RT, is_running, threads, ATV, BTV, is_preemptive, started,
  os_curr_task, os_next_task,
  pendsv, in_isr, cpu, tcb,
  fault                 \* HardFault (an escalated SVC) or a Rust panic

vars == <<RT, is_running, threads, ATV, BTV, is_preemptive, started,
          os_curr_task, os_next_task, pendsv, in_isr, cpu, tcb, fault>>

NoCtx == [task |-> Empty]
Fresh(t) == [task |-> t]   \* create_tcb: a frame whose PC is the entry

TypeOK ==
  /\ RT \in Tasks
  /\ threads \subseteq Tasks
  /\ ATV \subseteq Tasks /\ BTV \subseteq Tasks
  /\ os_curr_task \in Tasks \cup {Empty}
  /\ os_next_task \in Tasks \cup {Empty}
  /\ cpu \in [task : Tasks \cup {Boot}]
  /\ tcb \in [Tasks -> [task : Tasks \cup {Empty}]]
  /\ fault \in BOOLEAN

\* get_msb of a non-empty mask: its highest set bit.
Msb(S) == Max(S)

\* get_HT: the highest active, unblocked task.
get_HT(atv, btv) == Msb(atv \ btv)

\* The static initialiser of all_tasks and the globals.
Init ==
  /\ RT = 0 /\ is_running = FALSE
  /\ threads = {}
  /\ ATV = {0} /\ BTV = {}
  /\ is_preemptive = FALSE /\ started = FALSE
  /\ os_curr_task = Empty /\ os_next_task = Empty
  /\ pendsv = FALSE /\ in_isr = FALSE
  /\ cpu = [task |-> Boot]
  /\ tcb = [t \in Tasks |-> NoCtx]
  /\ fault = FALSE

(***************************************************************************)
(* preempt_call on the bitmaps `atv`/`btv` just written by the caller.     *)
(***************************************************************************)
preempt_call(atv, btv) ==
  LET HT == get_HT(atv, btv) IN
  IF is_running /\ RT # HT
    THEN /\ os_curr_task' = IF started /\ RT \in threads THEN RT
                            ELSE os_curr_task
         /\ started' = TRUE
         /\ RT' = HT
         /\ IF HT \in threads
              THEN os_next_task' = HT /\ pendsv' = TRUE
              ELSE UNCHANGED <<os_next_task, pendsv>>   \* DoesNotExist
    ELSE UNCHANGED <<os_curr_task, started, RT, os_next_task, pendsv>>

\* CONTROL.nPRIV: main runs privileged until the first dispatch.
npriv == TasksUnprivileged /\ cpu.task # Boot

\* preempt(): a privileged caller elects at once; otherwise svc_call() is
\* made inside the caller's execute_critical and escalates to HardFault.
preempt(atv, btv) ==
  IF ~npriv
    THEN preempt_call(atv, btv) /\ UNCHANGED fault
    ELSE fault' = TRUE /\ UNCHANGED <<os_curr_task, started, RT,
                                      os_next_task, pendsv>>

(***************************************************************************)
(* Set-up in `main`.                                                       *)
(***************************************************************************)
\* insert_tcb(idx, tcb): DoesNotExist past MAX_TASKS, else the slot is set.
insert_tcb(idx) ==
  IF idx >= MAX_TASKS THEN UNCHANGED <<threads, tcb>>
  ELSE threads' = threads \cup {idx} /\ tcb' = [tcb EXCEPT ![idx] = Fresh(idx)]

\* create_task(priority, handler_fn): TASK_STACKS[priority] is indexed
\* before insert_tcb's range check, so an out-of-range priority panics.
create_task(p) ==
  /\ ~is_running /\ ~fault
  /\ IF p \in Tasks
       THEN insert_tcb(p) /\ UNCHANGED fault
       ELSE fault' = TRUE /\ UNCHANGED <<threads, tcb>>
  /\ UNCHANGED <<RT, is_running, ATV, BTV, is_preemptive, started,
                 os_curr_task, os_next_task, pendsv, in_isr, cpu>>

\* spawn!(name, priority, body): create_task(priority, || loop { body;
\* task_exit(); }).unwrap() -- the task's body always ends in task_exit.
spawn(p) == create_task(p)

\* init(is_preemptive): records the mode and creates the idle task.
init(p) ==
  /\ ~is_running /\ ~fault
  /\ is_preemptive' = p
  /\ threads' = {0}
  /\ tcb' = [tcb EXCEPT ![0] = Fresh(0)]
  /\ UNCHANGED <<RT, is_running, ATV, BTV, started, os_curr_task,
                 os_next_task, pendsv, in_isr, cpu, fault>>

\* start_kernel(): SysTick set up, is_running set, preempt() from main.
start_kernel ==
  /\ 0 \in threads /\ ~is_running /\ ~fault
  /\ is_running' = TRUE
  /\ preempt_call(ATV, BTV)
  /\ UNCHANGED <<threads, ATV, BTV, is_preemptive, in_isr, cpu, tcb, fault>>

(***************************************************************************)
(* Calls of a task (thread mode, unprivileged) or of an interrupt handler. *)
(***************************************************************************)
Running == is_running /\ ~fault /\ ~pendsv /\ cpu.task \in Tasks \ {0}
\* `main` before start_kernel, an interrupt handler, or a running task.
CanCall == /\ ~fault
           /\ \/ ~is_running /\ cpu.task = Boot
              \/ is_running /\ (in_isr \/ (~pendsv /\ cpu.task \in Tasks \ {0}))

\* release(mask) and release_tasks(tids): ATV |= mask, then preempt(),
\* all in one critical section.
release(mask) ==
  /\ CanCall
  /\ ATV' = ATV \cup mask
  /\ preempt(ATV \cup mask, BTV)
  /\ UNCHANGED <<threads, BTV, is_preemptive, is_running, in_isr, cpu, tcb>>

\* release_tasks(tids): the mask of the tids, released in one section.
release_tasks(tids) == release(tids)

\* task_exit(): clear RT's bit, then preempt(), in one critical section.
task_exit ==
  /\ Running /\ ~in_isr
  /\ ATV' = ATV \ {RT}
  /\ preempt(ATV \ {RT}, BTV)
  /\ UNCHANGED <<threads, BTV, is_preemptive, is_running, in_isr, cpu, tcb>>

block_tasks(mask) ==
  /\ CanCall
  /\ BTV' = BTV \cup mask
  /\ UNCHANGED <<RT, is_running, threads, ATV, is_preemptive, started,
                 os_curr_task, os_next_task, pendsv, in_isr, cpu, tcb, fault>>

unblock_tasks(mask) ==
  /\ CanCall
  /\ BTV' = BTV \ mask
  /\ UNCHANGED <<RT, is_running, threads, ATV, is_preemptive, started,
                 os_curr_task, os_next_task, pendsv, in_isr, cpu, tcb, fault>>

\* enable_preemption() / disable_preemption()
set_preemption(b) ==
  /\ CanCall
  /\ is_preemptive' = b
  /\ UNCHANGED <<RT, is_running, threads, ATV, BTV, started, os_curr_task,
                 os_next_task, pendsv, in_isr, cpu, tcb, fault>>

IsrEnter ==
  /\ is_running /\ ~fault /\ ~in_isr
  /\ in_isr' = TRUE
  /\ UNCHANGED <<RT, is_running, threads, ATV, BTV, is_preemptive, started,
                 os_curr_task, os_next_task, pendsv, cpu, tcb, fault>>

IsrExit ==
  /\ in_isr
  /\ in_isr' = FALSE
  /\ UNCHANGED <<RT, is_running, threads, ATV, BTV, is_preemptive, started,
                 os_curr_task, os_next_task, pendsv, cpu, tcb, fault>>

\* PendSV (assembly): save into *os_curr_task, load *os_next_task.
PendSV ==
  /\ pendsv /\ ~in_isr /\ ~fault
  /\ tcb' = IF os_curr_task = Empty THEN tcb
            ELSE [tcb EXCEPT ![os_curr_task] = cpu]
  /\ cpu' = tcb'[os_next_task]
  /\ pendsv' = FALSE
  /\ UNCHANGED <<RT, is_running, threads, ATV, BTV, is_preemptive, started,
                 os_curr_task, os_next_task, in_isr, fault>>

\* A mask names any slot, created or not, other than idle.
Masks == {{t} : t \in Tasks \ {0}}

Next ==
  \/ \E p \in BOOLEAN : init(p)
  \/ \E p \in Priorities : spawn(p)
  \/ start_kernel
  \/ \E m \in Masks : release(m) \/ block_tasks(m) \/ unblock_tasks(m)
  \/ release_tasks(Tasks \ {0})
  \/ task_exit
  \/ \E b \in BOOLEAN : set_preemption(b)
  \/ IsrEnter \/ IsrExit
  \/ PendSV

Spec == Init /\ [][Next]_vars

(***************************************************************************)
(* A task's kernel calls never fault: release() and task_exit() made by a  *)
(* running task return to it (spec 4.1: an unprivileged caller reaches the *)
(* scheduler through SVC).                                                 *)
(***************************************************************************)
NoHardFault == ~fault

(***************************************************************************)
(* The running-task index always names an allocated TCB once the kernel    *)
(* has dispatched (spec 3: "curr_tid is always a valid index"), whatever   *)
(* masks interrupt handlers pass to release().                            *)
(***************************************************************************)
RTValid == started => RT \in threads

=============================================================================
