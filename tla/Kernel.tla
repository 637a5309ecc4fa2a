-------------------------------- MODULE Kernel --------------------------------
(***************************************************************************)
(* The dual-core scheduler of the arch.rs revision: one Scheduler per core *)
(* (TaskManager for core 0, TaskManager_C1 for core 1), the PendSV_0 /     *)
(* PendSV_1 handlers of src/src/utils/arch.rs with get_next_tcb, and the   *)
(* cross-core migration protocol they implement.                           *)
(*                                                                         *)
(* Unlike ProcessScheduler, schedule() only pends PendSV; the election and *)
(* the update of curr_tid happen inside PendSV, under the critical section *)
(* and TASKMANAGER_LOCK, so each PendSV is one atomic step here.  Task and *)
(* interrupt calls are atomic too (critical section + spinlock); the cores *)
(* interleave step by step.                                                *)
(*                                                                         *)
(* A task is identified by <<core, tid>>.  A CPU context records whose     *)
(* code it is and where that code stands: "user" in the task body, "sched" *)
(* between the critical section of release/task_exit and its schedule(),   *)
(* "locked" inside a critical section obtained by migrating.               *)
(***************************************************************************)
EXTENDS Integers, FiniteSetsExt, Arch

CONSTANTS
  Cores,   \* {0} or {0, 1}
  Tasks,   \* tids = priorities on each core, 0 is the idle task
  Boot,    \* the context of `main` on a core before its first dispatch
  HandoffOrdered  \* see PendSV: the borrowing core waits for the owner's save

ASSUME Cores \in {{0}, {0, 1}}
ASSUME 0 \in Tasks /\ Tasks \subseteq Nat
ASSUME Boot \notin Cores \X Tasks
ASSUME HandoffOrdered \in BOOLEAN

VARIABLES
  ATV, BTV,            \* per core, sets of tids
  migrated_tasks,      \* per core: own tids currently executing elsewhere
  curr_tid, started, is_running,
  migrated_tid,        \* per core: tid of the other core's task borrowed here
  running_migrated,    \* per core: the borrowed task's context is loaded
  pendsv, in_isr,      \* per core exception state
  cpu,                 \* per core: the context live in its registers
  tcb                  \* tcb[c][t]: context saved in TCB t of core c

vars == <<ATV, BTV, migrated_tasks, curr_tid, started, is_running,
          migrated_tid, running_migrated, pendsv, in_isr, cpu, tcb>>

PCs == {"user", "sched", "locked"}
Ctx == [who : (Cores \X Tasks) \cup {Boot}, pc : PCs]

\* The frame create_task writes: first dispatch starts the task's body.
Fresh(c, t) == [who |-> <<c, t>>, pc |-> "user"]

\* The core whose table get_next_tcb calls `oc_handler`.
Other(c) == IF Cores = {0} THEN c ELSE 1 - c

TypeOK ==
  /\ \A c \in Cores :
       /\ ATV[c] \subseteq Tasks /\ BTV[c] \subseteq Tasks
       /\ migrated_tasks[c] \subseteq Tasks
       /\ curr_tid[c] \in Tasks /\ migrated_tid[c] \in Tasks
       /\ {started[c], is_running[c], running_migrated[c],
           pendsv[c], in_isr[c]} \subseteq BOOLEAN
       /\ cpu[c] \in Ctx
       /\ tcb[c] \in [Tasks -> Ctx]

\* get_msb of a non-zero bitmap (utils::arch::get_msb).
Msb(S) == get_msb(Bitmap(S))

\* Scheduler::get_next_tid: the highest active, unblocked task of core c
\* that is not executing on the other core.
NextTid(atv, btv, mt) == Msb(atv \ (btv \cup mt))

(***************************************************************************)
(* Boot state: init(is_preemptive) and spawn! (create_task) of every tid   *)
(* done on each core, start_kernel not yet called; bodies are abstract.    *)
(***************************************************************************)
Init ==
  /\ ATV = [c \in Cores |-> {0}]
  /\ BTV = [c \in Cores |-> {}]
  /\ migrated_tasks = [c \in Cores |-> {}]
  /\ curr_tid = [c \in Cores |-> 0]
  /\ migrated_tid = [c \in Cores |-> 0]
  /\ started = [c \in Cores |-> FALSE]
  /\ is_running = [c \in Cores |-> FALSE]
  /\ running_migrated = [c \in Cores |-> FALSE]
  /\ pendsv = [c \in Cores |-> FALSE]
  /\ in_isr = [c \in Cores |-> FALSE]
  /\ cpu = [c \in Cores |-> [who |-> Boot, pc |-> "user"]]
  /\ tcb = [c \in Cores |-> [t \in Tasks |-> Fresh(c, t)]]

(***************************************************************************)
(* schedule(&tm): pend PendSV on core c when PendSV has work: the election *)
(* changed, nothing was dispatched yet, or a migration is in progress.     *)
(* Arguments are the bitmaps as the caller's critical section left them.   *)
(***************************************************************************)
NeedsSwitch(c, atv, btv) ==
  /\ is_running[c]
  /\ \/ migrated_tid[c] # 0
     \/ ~started[c]
     \/ curr_tid[c] # NextTid(atv, btv, migrated_tasks[c])

Schedule(c, atv, btv) ==
  pendsv' = [pendsv EXCEPT ![c] = @ \/ NeedsSwitch(c, atv, btv)]

(***************************************************************************)
(* Thread-mode calls.  A task runs only when no PendSV is pending on its   *)
(* core and no handler is active; idle only executes wfe.                  *)
(***************************************************************************)
TaskRunning(c) ==
  /\ is_running[c] /\ ~in_isr[c] /\ ~pendsv[c]
  /\ cpu[c].who # Boot /\ cpu[c].who[2] # 0

SetPc(c, pc) == cpu' = [cpu EXCEPT ![c].pc = pc]

\* start_kernel(): is_running, then schedule().
start_kernel(c) ==
  /\ ~is_running[c]
  /\ is_running' = [is_running EXCEPT ![c] = TRUE]
  /\ pendsv' = [pendsv EXCEPT ![c] = TRUE]
  /\ UNCHANGED <<ATV, BTV, migrated_tasks, curr_tid, started, migrated_tid,
                 running_migrated, in_isr, cpu, tcb>>

\* Mutation of release: the mask is built one bit too high (1 << (tid+1)).
release_ShiftedMask(c, mask) ==
  /\ TaskRunning(c) /\ cpu[c].pc = "user"
  /\ ATV' = [ATV EXCEPT ![c] = @ \cup {t + 1 : t \in mask}]
  /\ SetPc(c, "sched")
  /\ UNCHANGED <<BTV, migrated_tasks, curr_tid, started, is_running,
                 migrated_tid, running_migrated, pendsv, in_isr, tcb>>

\* release(mask), critical-section half: ATV |= mask.
release(c, mask) ==
  /\ TaskRunning(c) /\ cpu[c].pc = "user"
  /\ ATV' = [ATV EXCEPT ![c] = @ \cup mask]
  /\ SetPc(c, "sched")
  /\ UNCHANGED <<BTV, migrated_tasks, curr_tid, started, is_running,
                 migrated_tid, running_migrated, pendsv, in_isr, tcb>>

\* task_exit(tm), critical-section half: clear the bit of tm's curr_tid.
task_exit(c) ==
  /\ TaskRunning(c) /\ cpu[c].pc = "user"
  /\ ATV' = [ATV EXCEPT ![c] = @ \ {curr_tid[c]}]
  /\ SetPc(c, "sched")
  /\ UNCHANGED <<BTV, migrated_tasks, curr_tid, started, is_running,
                 migrated_tid, running_migrated, pendsv, in_isr, tcb>>

\* The schedule() call that ends release and task_exit.
schedule(c) ==
  /\ TaskRunning(c) /\ cpu[c].pc = "sched"
  /\ SetPc(c, "user")
  /\ Schedule(c, ATV[c], BTV[c])
  /\ UNCHANGED <<ATV, BTV, migrated_tasks, curr_tid, started, is_running,
                 migrated_tid, running_migrated, in_isr, tcb>>

CanCall(c) == in_isr[c] \/ (TaskRunning(c) /\ cpu[c].pc = "user")

\* block_tasks(mask): BTV |= mask.  Spec 4.1 obliges its caller to call
\* schedule() right after it: a task caller goes on to `schedule`, an
\* interrupt handler schedules before it returns.
block_tasks(c, mask) ==
  /\ CanCall(c)
  /\ BTV' = [BTV EXCEPT ![c] = @ \cup mask]
  /\ IF in_isr[c]
       THEN /\ Schedule(c, ATV[c], BTV[c] \cup mask)
            /\ UNCHANGED cpu
       ELSE /\ SetPc(c, "sched")
            /\ UNCHANGED pendsv
  /\ UNCHANGED <<ATV, migrated_tasks, curr_tid, started, is_running,
                 migrated_tid, running_migrated, in_isr, tcb>>

\* unblock_tasks(mask): BTV &= !mask, and nothing else.
unblock_tasks(c, mask) ==
  /\ CanCall(c)
  /\ BTV' = [BTV EXCEPT ![c] = @ \ mask]
  /\ UNCHANGED <<ATV, migrated_tasks, curr_tid, started, is_running,
                 migrated_tid, running_migrated, pendsv, in_isr, cpu, tcb>>

(***************************************************************************)
(* Interrupt context: inside a handler release() runs both halves.         *)
(***************************************************************************)
IsrEnter(c) ==
  /\ is_running[c] /\ ~in_isr[c]
  /\ in_isr' = [in_isr EXCEPT ![c] = TRUE]
  /\ UNCHANGED <<ATV, BTV, migrated_tasks, curr_tid, started, is_running,
                 migrated_tid, running_migrated, pendsv, cpu, tcb>>

IsrExit(c) ==
  /\ in_isr[c]
  /\ in_isr' = [in_isr EXCEPT ![c] = FALSE]
  /\ UNCHANGED <<ATV, BTV, migrated_tasks, curr_tid, started, is_running,
                 migrated_tid, running_migrated, pendsv, cpu, tcb>>

IsrRelease(c, mask) ==
  /\ in_isr[c]
  /\ ATV' = [ATV EXCEPT ![c] = @ \cup mask]
  /\ Schedule(c, ATV[c] \cup mask, BTV[c])
  /\ UNCHANGED <<BTV, migrated_tasks, curr_tid, started, is_running,
                 migrated_tid, running_migrated, in_isr, cpu, tcb>>

(***************************************************************************)
(* PendSV_c: under the critical section and TASKMANAGER_LOCK,              *)
(* get_next_tcb(own, other) decides which TCB to load (saving the outgoing *)
(* context on the way), then load_context restores it.                     *)
(***************************************************************************)
\* Mutations of get_next_tcb's branches (each named for the slip it makes).
Unmigrate_SaveIntoOwnTable(c) ==
  LET m == migrated_tid[c]
  IN /\ tcb' = [tcb EXCEPT ![c][m] = cpu[c]]
     /\ migrated_tasks' = [migrated_tasks EXCEPT ![Other(c)] = @ \ {m}]
     /\ migrated_tid' = [migrated_tid EXCEPT ![c] = 0]
     /\ running_migrated' = [running_migrated EXCEPT ![c] = FALSE]
     /\ cpu' = [cpu EXCEPT ![c] = tcb[c][curr_tid[c]]]
     /\ UNCHANGED <<curr_tid, started>>


Migrate_WrongIndex(c) ==
  LET o == Other(c)
      tcb1 == [tcb EXCEPT ![c][curr_tid[c]] = cpu[c]]
  IN /\ tcb' = tcb1
     /\ running_migrated' = [running_migrated EXCEPT ![c] = TRUE]
     /\ cpu' = [cpu EXCEPT ![c] = tcb1[o][curr_tid[c]]]
     /\ UNCHANGED <<migrated_tasks, migrated_tid, curr_tid, started>>

Migrate_NoFlag(c) ==
  LET tcb1 == [tcb EXCEPT ![c][curr_tid[c]] = cpu[c]]
  IN /\ tcb' = tcb1
     /\ cpu' = [cpu EXCEPT ![c] = tcb1[Other(c)][migrated_tid[c]]]
     /\ UNCHANGED <<migrated_tasks, migrated_tid, curr_tid, started,
                    running_migrated>>

Elect_SaveIntoNext(c) ==
  LET next == NextTid(ATV[c], BTV[c], migrated_tasks[c])
      tcb1 == IF started[c] THEN [tcb EXCEPT ![c][next] = cpu[c]] ELSE tcb
  IN IF curr_tid[c] # next \/ ~started[c]
       THEN /\ tcb' = tcb1
            /\ started' = [started EXCEPT ![c] = TRUE]
            /\ curr_tid' = [curr_tid EXCEPT ![c] = next]
            /\ cpu' = [cpu EXCEPT ![c] = tcb1[c][next]]
            /\ UNCHANGED <<migrated_tasks, migrated_tid, running_migrated>>
       ELSE UNCHANGED <<tcb, started, curr_tid, cpu, migrated_tasks,
                        migrated_tid, running_migrated>>

Elect_KeepCurrTid(c) ==
  LET next == NextTid(ATV[c], BTV[c], migrated_tasks[c])
      tcb1 == IF started[c] THEN [tcb EXCEPT ![c][curr_tid[c]] = cpu[c]]
                            ELSE tcb
  IN IF curr_tid[c] # next \/ ~started[c]
       THEN /\ tcb' = tcb1
            /\ started' = [started EXCEPT ![c] = TRUE]
            /\ cpu' = [cpu EXCEPT ![c] = tcb1[c][next]]
            /\ UNCHANGED <<migrated_tasks, migrated_tid, running_migrated,
                           curr_tid>>
       ELSE UNCHANGED <<tcb, started, curr_tid, cpu, migrated_tasks,
                        migrated_tid, running_migrated>>

\* get_next_tcb, first branch: the borrowed task leaves core c.  Its
\* context goes back to its TCB on the other core, which may elect it again;
\* core c resumes its own curr_tid without a new election.
Unmigrate(c) ==
  LET o == Other(c)
      m == migrated_tid[c]
  IN /\ tcb' = [tcb EXCEPT ![o][m] = cpu[c]]
     /\ migrated_tasks' = [migrated_tasks EXCEPT ![o] = @ \ {m}]
     /\ migrated_tid' = [migrated_tid EXCEPT ![c] = 0]
     /\ running_migrated' = [running_migrated EXCEPT ![c] = FALSE]
     /\ cpu' = [cpu EXCEPT ![c] = tcb[c][curr_tid[c]]]
     /\ UNCHANGED <<curr_tid, started>>

\* Mutation of Migrate: the outgoing task is not saved before the load.
Migrate_NoSave(c) ==
  /\ running_migrated' = [running_migrated EXCEPT ![c] = TRUE]
  /\ cpu' = [cpu EXCEPT ![c] = tcb[Other(c)][migrated_tid[c]]]
  /\ UNCHANGED <<tcb, migrated_tasks, migrated_tid, curr_tid, started>>

\* get_next_tcb, second branch: save core c's current task and load the
\* borrowed task from the other core's table.
Migrate(c) ==
  LET o == Other(c)
      tcb1 == [tcb EXCEPT ![c][curr_tid[c]] = cpu[c]]
  IN /\ tcb' = tcb1
     /\ running_migrated' = [running_migrated EXCEPT ![c] = TRUE]
     /\ cpu' = [cpu EXCEPT ![c] = tcb1[o][migrated_tid[c]]]
     /\ UNCHANGED <<migrated_tasks, migrated_tid, curr_tid, started>>

\* get_next_tcb, third branch: the ordinary election.
Elect(c) ==
  LET next == NextTid(ATV[c], BTV[c], migrated_tasks[c])
      tcb1 == IF started[c] THEN [tcb EXCEPT ![c][curr_tid[c]] = cpu[c]]
                            ELSE tcb
  IN IF curr_tid[c] # next \/ ~started[c]
       THEN /\ tcb' = tcb1
            /\ started' = [started EXCEPT ![c] = TRUE]
            /\ curr_tid' = [curr_tid EXCEPT ![c] = next]
            /\ cpu' = [cpu EXCEPT ![c] = tcb1[c][next]]
            /\ UNCHANGED <<migrated_tasks, migrated_tid, running_migrated>>
       ELSE UNCHANGED <<tcb, started, curr_tid, cpu, migrated_tasks,
                        migrated_tid, running_migrated>>

\* Mutation of get_next_tcb: the migrate branch is missing.
get_next_tcb_NoMigrate(c) ==
  IF migrated_tid[c] > 0 /\ running_migrated[c] THEN Unmigrate(c) ELSE Elect(c)

get_next_tcb(c) ==
  IF migrated_tid[c] > 0
    THEN IF running_migrated[c] THEN Unmigrate(c) ELSE Migrate(c)
    ELSE Elect(c)

\* Nothing in the sources orders the borrowing core's PendSV after the
\* owner's PendSV that saves the borrowed task; with HandoffOrdered the
\* model assumes that order (the borrowing PendSV is not taken while the
\* borrowed task is still live on its own core), without it both orders
\* are explored.
OwnerHasSaved(c) ==
  \/ migrated_tid[c] = 0
  \/ running_migrated[c]
  \/ cpu[Other(c)].who # <<Other(c), migrated_tid[c]>>

PendSV(c) ==
  /\ pendsv[c] /\ ~in_isr[c]
  /\ HandoffOrdered => OwnerHasSaved(c)
  /\ get_next_tcb(c)
  /\ pendsv' = [pendsv EXCEPT ![c] = FALSE]
  /\ UNCHANGED <<ATV, BTV, is_running, in_isr>>

(***************************************************************************)
(* Cross-core migration (spec 4.2/4.3; the resource manager that starts it *)
(* is not among the sources).  A task running on core a locks a resource   *)
(* held by a task of core b (so b has dispatched): it is recorded as b's   *)
(* migrated_tid and as migrated on                                         *)
(* a, PendSV is raised on b, and a schedules away from it.  Its unlock     *)
(* calls schedule() on whichever core runs it.                             *)
(***************************************************************************)
LockMigrate(a, b) ==
  /\ a # b
  /\ TaskRunning(a) /\ cpu[a].pc = "user"
  /\ started[b] /\ migrated_tid[b] = 0
  /\ cpu[a].who[1] = a
  /\ LET t == cpu[a].who[2]
         mt == migrated_tasks[a] \cup {t}
     IN /\ migrated_tid' = [migrated_tid EXCEPT ![b] = t]
        /\ migrated_tasks' = [migrated_tasks EXCEPT ![a] = mt]
        /\ SetPc(a, "locked")
        /\ pendsv' = [pendsv EXCEPT ![b] = TRUE, ![a] = TRUE]
  /\ UNCHANGED <<ATV, BTV, curr_tid, started, is_running, running_migrated,
                 in_isr, tcb>>

Unlock(c) ==
  /\ is_running[c] /\ ~in_isr[c] /\ ~pendsv[c]
  /\ cpu[c].who # Boot /\ cpu[c].pc = "locked"
  /\ SetPc(c, "user")
  /\ Schedule(c, ATV[c], BTV[c])
  /\ UNCHANGED <<ATV, BTV, migrated_tasks, curr_tid, started, is_running,
                 migrated_tid, running_migrated, in_isr, tcb>>

Masks == {{t} : t \in Tasks \ {0}}

Next ==
  \E c \in Cores :
    \/ start_kernel(c)
    \/ \E m \in Masks : release(c, m) \/ IsrRelease(c, m)
    \/ task_exit(c)
    \/ schedule(c)
    \/ \E m \in Masks : block_tasks(c, m) \/ unblock_tasks(c, m)
    \/ IsrEnter(c) \/ IsrExit(c)
    \/ PendSV(c)
    \/ \E b \in Cores : LockMigrate(c, b)
    \/ Unlock(c)

Spec == Init /\ [][Next]_vars

(***************************************************************************)
(* Fairness.  Interrupt handlers return (IsrExit), and interrupts leave    *)
(* the core time in between: a pending PendSV, and a task that is between *)
(* the two halves of a call or inside a migrated critical section, are     *)
(* enabled infinitely often whenever they are pending, and are then taken *)
(* (strong fairness, since an interrupt may disable them for a while).     *)
(* Starting the kernel, task calls and interrupts themselves are not       *)
(* forced: a task may compute forever and idle never calls the kernel.     *)
(***************************************************************************)
Fairness ==
  \A c \in Cores :
    /\ WF_vars(IsrExit(c))
    /\ SF_vars(PendSV(c))
    /\ SF_vars(schedule(c))
    /\ SF_vars(Unlock(c))

FairSpec == Spec /\ Fairness

(***************************************************************************)
(* Every TCB holds a context of its own task, on either core: whatever     *)
(* PendSV saves into TCB t of core c, by an election, a migration or an    *)
(* unmigration, is the register file of task <<c, t>>.                     *)
(***************************************************************************)
ContextIntegrity ==
  \A c \in Cores, t \in Tasks : tcb[c][t].who = <<c, t>>

(***************************************************************************)
(* No task executes on two cores at once: a context loaded from a TCB is   *)
(* never one whose task is still live on the other core (the borrowed TCB  *)
(* must be saved by its own core's PendSV before the borrowing core's      *)
(* PendSV loads it).                                                       *)
(***************************************************************************)
NoDoubleRun ==
  \A c, d \in Cores :
    (c # d /\ cpu[c].who # Boot) => cpu[c].who # cpu[d].who

(***************************************************************************)
(* Once PendSV has run, each core executes the task its Scheduler records: *)
(* the borrowed task while running_migrated, else its own curr_tid.        *)
(***************************************************************************)
CpuMatchesScheduler ==
  \A c \in Cores :
    (started[c] /\ ~pendsv[c]) =>
      cpu[c].who = IF running_migrated[c]
                     THEN <<Other(c), migrated_tid[c]>>
                     ELSE <<c, curr_tid[c]>>

(***************************************************************************)
(* A migration that has been requested completes: the borrowing core       *)
(* eventually hands the task back (get_next_tcb's unmigrate branch clears  *)
(* migrated_tid) once the borrowed critical section ends.                  *)
(***************************************************************************)
MigrationCompletes ==
  \A c \in Cores : migrated_tid[c] # 0 ~> migrated_tid[c] = 0

(***************************************************************************)
(* After a migration the task resumes on its own core (spec 8, scenario 6):*)
(* once core c has lent task t out, t eventually runs on c again, unless   *)
(* it has stopped being the highest active, unblocked task of c.           *)
(***************************************************************************)
ReturnsHome ==
  \A c \in Cores, t \in Tasks \ {0} :
    t \in migrated_tasks[c] ~>
      \/ cpu[c].who = <<c, t>>
      \/ Msb(ATV[c] \ BTV[c]) # t

(***************************************************************************)
(* The unmigrate branch of get_next_tcb assumes "schedule was called during *)
(* resource unlock" (spec 4.3: the task is handed back when it releases    *)
(* the resource): a PendSV never hands a borrowed task back to its own     *)
(* core while it is still inside its migrated critical section.            *)
(***************************************************************************)
UnmigrateAfterUnlock ==
  [][\A c \in Cores :
       (running_migrated[c] /\ ~running_migrated'[c]) => cpu[c].pc # "locked"]_vars

(***************************************************************************)
(* The machine level under the records (Arch).  A context's r4-r11 are     *)
(* eight values of its own; task t's stack is 32 words at StackBase(t).    *)
(***************************************************************************)
RegFile(ctx) == [i \in 4 .. 11 |-> <<ctx, i>>]
StackBase(t) == 32 * (t % 2)
Entry(c, t) == 1000 + 100 * c + t   \* the address of task <<c, t>>'s handler
PspOf(ctx) == IF ctx.who = Boot THEN 48 ELSE StackBase(ctx.who[2]) + 16

\* The election get_msb(ATV & ~BTV) of every core is the highest ready
\* task, over every sub-bitmap of the ready set, and None on the empty one
\* (arch.rs get_msb: 32 - clz, minus one).
ElectionIsHighestBit ==
  \A c \in Cores : \A m \in SUBSET (ATV[c] \ BTV[c]) :
    get_msb(Bitmap(m)) = IF m = {} THEN NoMsb ELSE Max(m)

\* PendSV's copy of cpu[c] into a TCB and back is what save_context and
\* load_context do to the registers of every context a core runs: r4-r11
\* and PSP come back unchanged and the stacked frame above PSP is intact
\* (spec 4.5: an exact inverse pair).
SaveLoadInverse ==
  \A c \in Cores :
    LET psp == PspOf(cpu[c])
        s   == save_context(RegFile(cpu[c]), psp, Stacked(psp))
        l   == load_context(s.sp, s.mem)
    IN /\ l.regs = RegFile(cpu[c]) /\ l.psp = psp
       /\ Ldmia(s.mem, psp, 8) = Ldmia(Stacked(psp), psp, 8)

\* A TCB not yet dispatched holds create_tcb's frame: loading it and
\* returning from PendSV enters the task's handler in Thumb state with the
\* task's whole stack unwound (spec 3, "first dispatch").
FreshFrameEntersHandler ==
  \A c \in Cores, t \in Tasks :
    tcb[c][t] = Fresh(c, t) =>
      LET f == create_tcb(StackBase(t), 32, Entry(c, t), Mem0)
          l == load_context(f.sp, f.mem)
          r == ExcReturn(l.psp, f.mem)
      IN r.pc = Entry(c, t) /\ r.xpsr = 2^24 /\ r.psp = StackBase(t) + 32

=============================================================================
