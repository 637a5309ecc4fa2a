# TLA+ models of harsark.rs

This directory holds TLA+ models of the harsark RTOS kernel: one module per
component, MC configurations that instantiate them for TLC, and the record
(`PROJECT.json`) that ties each definition to the lines of source it
translates.

## 1. The system

harsark is a priority-based RTOS for Cortex-M. The sources under `src/` hold
two revisions of the scheduler and some support code.

| Part | Source | State | Operations |
|---|---|---|---|
| Process-revision scheduler | `src/src/process.rs` | `all_tasks` (ATV, BTV, threads, curr_pid, started, is_running, is_preemptive), `os_curr_task`, `os_next_task` | init, create_task, start_kernel, schedule → preempt → context_switch, block_tasks, unblock_tasks, task_exit, release, enable/disable_preemption |
| Dual-core context switch | `src/src/utils/arch.rs` | two `Scheduler`s (TaskManager, TaskManager_C1): ATV, BTV, curr_tid, started, migrated_tid, running_migrated, migrated_tasks, TCBs | get_next_tcb (unmigrate / migrate / elect), PendSV_0/1 under TASKMANAGER_LOCK, SVCall_0/1 → schedule, set_pendsv, get_msb, critical_section |
| Old task manager | `src/src/kernel/task_manager.rs` | RT, threads, ATV, BTV, started, is_running | init, start_kernel, release, create_task/create_tcb/insert_tcb, preempt_call, block/unblock |
| Priority-ceiling stack | `src/src/system/pi_stack.rs` | top, pi_stack, system_ceiling | new, push_stack, pop_stack, top |
| Event trace | `src/src/kernel/logging.rs` | the `Logger` (a SystemLogger ring plus per-category flags) | report, process, set_*/get_* |
| Macros | `src/src/macros.rs` | none | spawn wraps a task body in `loop { body; task_exit() }` |
| Arch helpers | `src/src/utils/arch.rs` | registers r4-r11, PSP, task stacks | get_msb (CLZ), save_context, load_context, return_to_psp, critical_section; create_tcb's frame (`task_manager.rs`) |

**How the parts interact**

- A task, or an ISR, changes the readiness bitmaps (`release`, `block`,
  `unblock`, `task_exit`) inside a critical section.
- It then calls `schedule`. In thread mode this goes through an SVC.
- The election (`msb(ATV & ~BTV)`) pends PendSV.
- PendSV has the lowest exception priority. It runs once no handler is
  active, and it saves and loads the register contexts.
- On two cores, locking a resource held by a task of the other core migrates
  that task (spec 4.2/4.3). The owner core records it in `migrated_tasks` and
  schedules away from it. The other core records it as `migrated_tid`, and
  its PendSV loads the task from the owner's TCB table. The unlock calls
  `schedule` again, and the next PendSV on the borrowing core hands the task
  back.
- The ceiling stack holds the ceilings of nested locks.

**What is hard, and the properties it needs**

- **Interleaving of ISRs and the deferred PendSV.** Several elections can
  happen before one PendSV. Property: every TCB holds its own task's context.
- **The two cores' PendSVs around a migration.** Properties: no task runs on
  two cores, migrations finish, the task goes home, and it is handed back
  only after its unlock.
- **The old task manager's calls from thread mode.** An SVC inside a
  critical section, and an election committed before its lookup fails.
  Properties: no HardFault, and `RT` always names a created task.
- **The logger's ring and its drain.** Properties: the ring behaves as a
  bounded FIFO that drops the oldest record (a refinement), and a drain
  ends.
- **The ceiling stack at its capacity.** Property: the ceiling tracks the
  innermost lock.
- **The machine level under the records.** The models copy whole contexts
  into and out of TCBs. Properties: the register-level save and load are an
  exact inverse pair, a fresh TCB enters its handler, and the CLZ election
  is the highest set bit.

## 2. Modules

- **`PiStack`**: `pi_stack.rs`.
  - Variables: `top`, `pi_stack` and `system_ceiling`.
  - Actions: `push_stack(c)` and `pop_stack`, each translating the function
    of the same name, error paths included. A failed push keeps `top`
    incremented, exactly as the code does.
  - **`MCPiStack`** drives it the way a resource manager does: `Lock(c)`
    pushes only above the system ceiling, `Unlock` pops the innermost lock,
    and `held` records the locks the caller believes it holds.
- **`ProcessScheduler`**: `process.rs`, plus the PendSV contract it relies
  on.
  - One action per public function. `start_kernel` is two actions,
    `start_kernel` and `start_preempt`, because its two critical sections
    (process.rs:40 and :41) let an interrupt run in between. `release` and
    `task_exit` are split at
    the point where their critical section ends and `schedule()` begins;
    `cpu.pc = "sched"` marks a task between the two halves.
  - `IsrEnter`, `IsrRelease` and `IsrExit` model an interrupt handler that
    releases tasks.
  - `PendSV` saves `cpu` into `tcb[os_curr_task]` and loads
    `tcb[os_next_task]`.
  - Contexts are records `[task, pc]`.
- **`Kernel`**: the `arch.rs` revision on one or two cores (`Cores`). All
  Scheduler fields are functions of the core.
  - `Unmigrate`, `Migrate` and `Elect` are the three branches of
    `get_next_tcb`.
  - `PendSV(c)` is PendSV_0/PendSV_1: atomic under the critical section and
    the spinlock.
  - The task-side calls have the process.rs shape, applied per core.
  - `LockMigrate` and `Unlock` model the resource manager, which is not under
    `src/`, from spec 4.2/4.3.
  - The constant `HandoffOrdered` adds one ordering assumption. With it, the
    borrowing core's PendSV is taken only after the owner core has switched
    the task out. Without it, both orders are explored.
  - Each definition named `X_Something` just before a mapped definition `X`
    is a mutation of it, used to show that a property can fail.
  - **`MCKernel`** extends `Kernel` with a history variable `last`: each
    task's newest context, i.e. its register file while a core runs it, or
    the value it had when it was last switched out. `MCNext` is `Next`
    plus the update of `last`, so the Kernel's behaviours are unchanged.
    The passing two-core run uses it for `NoLostContext`.
- **`TaskManagerV0`**: the older single-core `task_manager.rs`.
  - Its state is `RT`, `threads`, `ATV`, `BTV`, `started`, `is_running` and
    `is_preemptive`, plus `os_curr_task`/`os_next_task`, `pendsv`, `in_isr`,
    `cpu` and `tcb` for the PendSV contract.
  - `preempt_call` translates the function line by line. It writes `RT = HT`
    and `started` before it looks up `threads[HT]`, and on a `None` slot it
    returns DoesNotExist without pending PendSV.
  - `preempt` reads CONTROL.nPRIV (`npriv`). When privileged it calls
    `preempt_call`. Otherwise it issues `svc_call()` inside
    `execute_critical`, with PRIMASK set. ARMv7-M then escalates the SVC to
    HardFault, which is the flag `fault`.
  - nPRIV is Thread mode's bit, so an ISR reads the privilege of the task
    it interrupted. Nothing under `src/` writes CONTROL. The constant
    `TasksUnprivileged` says whether tasks run unprivileged once
    dispatched. `main` is privileged until the first dispatch.
  - `main` may call `release`, `block` and `unblock` before `start_kernel`
    (spec 6: "Any" context).
  - `spawn` is the `spawn!` macro, `insert_tcb` is its range check, and
    `release_tasks` releases the whole set of task ids at once.
  - The constant `Priorities` is the set of priorities `main` passes to
    `create_task`. An out-of-range priority panics, which also sets `fault`.
- **`LogQueue`**: the abstract event trace of spec 4.4.
  - `q` is a sequence of at most CAPACITY records.
  - A record of an enabled category is appended; when the trace is full the
    oldest record is dropped. A record of a disabled category is dropped.
  - A drain (`BeginDrain`, `Deliver`, `EndDrain`) hands records oldest first.
    The handler may record one event per delivery.
- **`Logger`**: `logging.rs` over the SystemLogger ring.
  - SystemLogger is not under `src/`, so its ring (`buf`, `head`, `count`;
    `push`, `pop`) is modelled from spec 4.4 and marked spec_modelled.
  - The eleven per-category booleans are the function `flags`.
  - `report(k)` pushes `(k, time)`.
  - `process` is split at its loop: `process_begin` enters the critical
    section, `process_next` is one `pop` plus one handler call, and
    `process_done` leaves the section once `pop` returns None. With
    `HandlerReports` the handler calls `report`. The `RefMut` that the
    `while let` scrutinee borrows from `Logger` lives until the end of the
    loop body, so `report()`'s own `borrow_mut()` panics with
    BorrowMutError (`panicked`). Nothing runs after a panic.
  - `Tick` is SysTick's `update_time()`.
  - `masked` is PRIMASK. `CsRestore` is `critical_section`'s exit: it
    re-enables interrupts only if they were enabled on entry. No nested
    critical section is reachable, since a handler's `report()` panics
    before entering one. Other contexts (`report`, `set_*`, `Tick`) run only
    while interrupts are enabled.
  - `RingSeq` reads the ring oldest first. `Abs == INSTANCE LogQueue WITH
    q <- RingSeq, enabled <- flags` is the refinement mapping, and
    `Refines == Abs!Spec` is checked as a property.

- **`Arch`**: pure operators for the machine-level helpers.
  - `get_msb(val)` is `32 - clz(val)`, minus one, with None (`NoMsb`) on 0.
    `clz` is 32 minus the bit length, and the bit length is RECURSIVE.
    TLC's integers stop at 2^31 - 1, so words with bit 31 set (a 32nd task)
    are out of reach.
  - Memory is a function from word addresses to values. `save_context` and
    `load_context` follow the assembly instruction by instruction
    (`Stmia`, `Ldmia`, the `#16`/`#32` offsets, the `mov r8-r11` swap).
    `ExcReturn` is the hardware unstacking after `return_to_psp`.
    `create_tcb` writes xPSR and the entry PC and sets `sp` 16 words below
    the top.
  - `Kernel` elects through `get_msb(Bitmap(S))`. Its properties
    `ElectionIsHighestBit`, `SaveLoadInverse` and `FreshFrameEntersHandler`
    apply these operators to the bitmaps, contexts and TCBs that each
    reachable state holds.

## 3. Runs

| Run | Config | Expect | What it shows |
|---|---|---|---|
| pistack | MCPiStack.cfg | pass | With up to MAX_RESOURCES-1 nested locks, the system ceiling is always the innermost lock's ceiling (PI when none), and `top` stays in the array. |
| pistack_full | MCPiStackFull.cfg | violation | A push onto a full stack returns LimitExceeded but leaves `top` one past the array (pi_stack.rs:49). |
| process_isr_double_switch | ProcessScheduler.cfg | violation | An ISR that releases two tasks before PendSV makes PendSV save the live context (in TLC's trace, `main`'s) into the TCB of a task that never ran (process.rs:77). |
| process_preemption_rule | ProcessSchedulerPreempt.cfg | violation | A call that readies a task breaks spec 4.1's preemption rule: `unblock_tasks` never schedules (process.rs:115), and `preempt` ignores `is_preemptive` (process.rs:61). TLC's shortest trace is an ISR release that switches with preemption disabled; with preemption enabled, the trace is spec scenario 2, an ISR unblock that returns to the lower task. |
| kernel_2core | MCKernel2.cfg (`MCKernel`) | pass | Under fairness and the handoff ordering, migrations keep contexts intact and never run a task twice. No switch loses an update: a task that no core runs is resumed from exactly the context it was switched out with (`NoLostContext`). Each core runs the borrowed task exactly while `running_migrated` is set, and every migration finishes. Underneath, every election is get_msb's highest set bit, every context a core runs survives save/load unchanged, and every undispatched TCB enters its handler. |
| kernel_handoff_race | MCKernelRace.cfg | violation | Without the ordering, the borrowing core loads a stale TCB while the owner still runs the task (arch.rs:228). |
| kernel_returns_home | MCKernelReturnsHome.cfg | violation | After unmigration nothing reschedules the owner core, so the task can starve behind idle (arch.rs:217). |
| kernel_early_unmigrate | MCKernelEarlyReturn.cfg | violation | An ISR's release on the borrowing core pends PendSV, and the unmigrate branch hands the task back while it is still inside its migrated critical section (arch.rs:211). |
| v0_thread_release | MCTaskManagerV0Fault.cfg | violation | With tasks unprivileged, a task's `release()` issues its SVC inside `execute_critical`, which escalates to HardFault (task_manager.rs:91). An ISR reads the same nPRIV and takes the same path. |
| v0_missing_tcb | MCTaskManagerV0RT.cfg | violation | With tasks privileged, so that no call faults first, a release of an uncreated slot makes `preempt_call` commit `RT` to a task with no TCB before returning DoesNotExist (task_manager.rs:134). |
| logger_refines | MCLogger.cfg | pass | `logging.rs` over the ring implements the abstract trace: filtering, overwrite of the oldest record, and an oldest-first drain. A handler that reports halts the logger after the record it was given has been delivered. Deadlock is not checked, because the system really stops after that panic. |
| logger_handler_report | MCLoggerHandlerReport.cfg | violation | A `process()` handler that calls `report()` panics on the first record: the `while let`'s `RefMut` on `Logger` is still borrowed (logging.rs:27 against :17). Spec 4.4 says `report` is callable from any context. |

**Bounds**

- **`Tasks = {0,1,2,3}` for `ProcessScheduler`.** Idle plus three tasks is
  enough for an ISR to elect twice before PendSV, and for a block, unblock
  or exit to change the winner.
- **`Tasks = {0,1}` on two cores.** Each core has idle and one task. This is
  the smallest setting in which a task can migrate while the other core runs
  its own task. Three tasks per core exceeded 10 minutes. The `Arch`
  operator checks run here too, on the bitmaps, contexts and TCBs of these
  states.
- **Masks are single tasks.** Any multi-bit release is a sequence of
  single-bit ones with no schedule in between, which the ISR actions already
  cover.
- **`MAX_TASKS = 4` for `TaskManagerV0`.** The idle task plus three slots
  is enough for a release of a created task (the HardFault) and of an
  uncreated one (the missing TCB). `Priorities` leaves one slot uncreated.
- **Arch operators on a 80-word memory.** Two 32-word stacks (tasks of
  even and odd id) cover a TCB at the bottom and at the top of memory. A
  context's eight registers hold eight distinct values, so any swap or
  shift of a word is seen.
- **Logger: `CAPACITY = 2`, two categories, `MaxTime = 2`.** A ring of two
  slots wraps after two pushes. Two categories let one be disabled while
  the other is recorded. Three clock values make the records distinct, so
  that an out-of-order or lost record changes the abstract trace.
- **`MAX_RESOURCES = 5` with ceilings 0..4.** The passing run holds up to 4
  locks; the violation run tries a 5th.

**Fairness (Kernel's `Fairness`, used by `FairSpec` and `MCSpec`)**

- Interrupt handlers return: weak fairness on `IsrExit`.
- Strong fairness on `PendSV`, `schedule` and `Unlock`:
  - a pending PendSV is taken;
  - a task between its critical section and its `schedule()` call makes the
    call;
  - a task in a migrated critical section reaches its unlock.

  Strong fairness is used because interrupts can repeatedly disable these
  steps. The hardware takes a pended PendSV once no handler is active, and
  straight-line code runs when it is not preempted.
- Starting, task calls and interrupts are not forced.

## 4. Findings

- **pi_stack.rs:49.** A failed push leaves `top` past the array.
- **process.rs:77.** Two elections before one PendSV corrupt a TCB.
- **process.rs:115 and process.rs:61.** `unblock_tasks` never calls
  `schedule()`, and `preempt` never reads `is_preemptive`. Spec 4.1's
  preemption rule therefore fails in both modes.
- **arch.rs:228.** The migrate branch can load a TCB the owner core has not
  saved yet.
- **arch.rs:217.** After unmigration the owner core is never rescheduled.
- **arch.rs:211.** An ISR on the borrowing core hands the task back before
  its unlock.
- **task_manager.rs:91.** A thread-mode `release()` or `task_exit()`
  escalates to HardFault.
- **task_manager.rs:134.** `RT` names a task with no TCB after
  DoesNotExist.
- **logging.rs:27.** A `process()` handler that calls `report()` panics
  on the RefCell borrow the drain loop still holds.

Code issues that no run checks are listed as hazards in `PROJECT.json`:

- `create_task` panics on an out-of-range priority. `spawn!` unwraps the
  result, so the panic is the same one that the spec's `Err` would cause.
- `set_pendsv` calls `enable()` unconditionally. Its caller is not under
  `src/`.

## 5. Plan for further work

1. **Kernel extension:** migration onto an unstarted core.
2. **`ResourceManager`**: compose `PiStack` with `Kernel`, so that locks push
   ceilings and the ceiling gates lock grants and migrations. The resource
   manager is not under `src/`, so this would be modelled from spec 4.2.
3. **A register-level PendSV**: run `Kernel`'s PendSV on `Arch`'s memory
   and registers, with the record copy as its refinement mapping. The
   state space would exceed the bounds above, so the run now checks the
   operators on each reachable context instead.

## 6. Not modelled

- The register-level PendSV as a state machine: `Arch` checks save, load
  and the first dispatch as operators, and the schedulers copy records.
- `set_pendsv`'s unconditional `enable()` (arch.rs:358): its caller,
  `kernel::tasks::schedule`, is not under `src/`, so what it reopens to
  interrupts is unknown.
- SysTick: only its `update_time()` is modelled (as `Logger`'s `Tick`). Its
  `schedule()` call is commented out, and the timer, event and deadline
  features it calls are outside `src/`.
- `macros.rs`: `spawn` is captured by letting tasks call `task_exit`.
- The `get_*` accessors of `logging.rs`: they read flags and change no
  state.
