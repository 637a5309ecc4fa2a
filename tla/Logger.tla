-------------------------------- MODULE Logger --------------------------------
(***************************************************************************)
(* The event trace of src/src/kernel/logging.rs over the SystemLogger it   *)
(* wraps (crate::system::system_logger, not among the sources: its ring is *)
(* modelled from spec 4.4).                                                *)
(*                                                                         *)
(* The ring is `buf` with `head` (oldest slot) and `count`; the eleven     *)
(* *_log booleans are the function `flags` over the categories.  report()  *)
(* pushes (kind, get_time()) in one critical section.  process(handler)    *)
(* pops and hands records to the handler in a loop that runs entirely     *)
(* inside one critical section: nothing else runs until the ring is empty *)
(* (`draining`).  The handler is user code; with HandlerReports it calls  *)
(* report().  The RefMut that the `while let` scrutinee takes from        *)
(* Logger.borrow_mut() lives until the end of the loop body, so that       *)
(* report()'s own borrow_mut() fails and the core panics (`panicked`):    *)
(* nothing of the logger runs after that.                                  *)
(***************************************************************************)
EXTENDS Integers, Sequences

CONSTANTS
  CAPACITY,        \* the ring's fixed capacity
  Kinds,           \* LogEventType categories
  MaxTime,         \* bound on get_time()
  HandlerReports   \* the process() handler may itself call report()

ASSUME CAPACITY \in Nat \ {0} /\ MaxTime \in Nat /\ HandlerReports \in BOOLEAN

Events == [kind : Kinds, time : 0 .. MaxTime]
None == [kind |-> "none", time |-> -1]
Slots == 0 .. CAPACITY - 1

VARIABLES buf, head, count, flags, handled, time, draining,
  masked,   \* PRIMASK: interrupts disabled on the core
  panicked  \* a RefCell borrow failed (BorrowMutError): the core halted

vars == <<buf, head, count, flags, handled, time, draining, masked, panicked>>

TypeOK ==
  /\ buf \in [Slots -> Events \cup {None}]
  /\ head \in Slots /\ count \in 0 .. CAPACITY
  /\ flags \in [Kinds -> BOOLEAN]
  /\ handled \in Events \cup {<<>>}
  /\ time \in 0 .. MaxTime
  /\ draining \in BOOLEAN /\ masked \in BOOLEAN /\ panicked \in BOOLEAN

\* static Logger = SystemLogger::new(): an empty ring; the default of
\* each category flag is SystemLogger's, so every combination is allowed.
Init ==
  /\ buf = [i \in Slots |-> None]
  /\ head = 0 /\ count = 0
  /\ flags \in [Kinds -> BOOLEAN]
  /\ handled = <<>>
  /\ time = 0
  /\ draining = FALSE /\ masked = FALSE /\ panicked = FALSE

\* critical_section(f) on exit: interrupts are enabled again only if they
\* were active (`masked` = m clear) when it was entered.
CsRestore(m) == IF ~m THEN FALSE ELSE TRUE

\* Mutation of push: a full ring overwrites its oldest slot in place and
\* leaves head on it.
push_NoOverwrite(e) ==
  IF ~flags[e.kind] THEN UNCHANGED <<buf, head, count>>
  ELSE /\ buf' = [buf EXCEPT ![(head + count) % CAPACITY] = e]
       /\ IF count = CAPACITY THEN UNCHANGED <<head, count>>
                              ELSE count' = count + 1 /\ UNCHANGED head

\* SystemLogger::push: drop a record of a disabled category; otherwise
\* write behind the newest record, dropping the oldest when full.
push(e) ==
  IF ~flags[e.kind] THEN UNCHANGED <<buf, head, count>>
  ELSE /\ buf' = [buf EXCEPT ![(head + count) % CAPACITY] = e]
       /\ IF count = CAPACITY
            THEN head' = (head + 1) % CAPACITY /\ UNCHANGED count
            ELSE count' = count + 1 /\ UNCHANGED head

\* SystemLogger::pop on a non-empty ring, with the record it returns.
PopTarget == buf[head]
pop ==
  /\ head' = (head + 1) % CAPACITY
  /\ count' = count - 1

\* report(event_type)
report(k) ==
  /\ ~masked
  /\ push([kind |-> k, time |-> time])
  /\ masked' = CsRestore(masked)
  /\ UNCHANGED <<flags, handled, time, draining, panicked>>

\* process(handler): the critical section is entered ...
process_begin ==
  /\ ~draining /\ ~masked
  /\ draining' = TRUE /\ masked' = TRUE
  /\ UNCHANGED <<buf, head, count, flags, handled, time, panicked>>

\* ... each `while let Some(event) = Logger.borrow(cs).borrow_mut().pop()`
\* iteration pops one record and calls the handler with it, the RefMut
\* still held.  A handler that calls report() fails on its borrow_mut().
process_next ==
  /\ draining /\ count > 0
  /\ handled' = PopTarget
  /\ pop
  /\ \/ UNCHANGED panicked
     \/ HandlerReports /\ panicked' = TRUE
  /\ UNCHANGED <<buf, flags, time, draining, masked>>

\* ... and left once pop() returns None.
process_done ==
  /\ draining /\ count = 0
  /\ draining' = FALSE /\ masked' = CsRestore(FALSE)
  /\ UNCHANGED <<buf, head, count, flags, handled, time, panicked>>

\* set_all(val)
set_all(val) ==
  /\ ~masked
  /\ flags' = [k \in Kinds |-> val]
  /\ UNCHANGED <<buf, head, count, handled, time, draining, masked, panicked>>

\* set_release(val), set_block_tasks(val), ... set_timer_event(val)
set_flag(k, val) ==
  /\ ~masked
  /\ flags' = [flags EXCEPT ![k] = val]
  /\ UNCHANGED <<buf, head, count, handled, time, draining, masked, panicked>>

\* SysTick's update_time(): the clock advances between critical sections.
Tick ==
  /\ ~masked /\ time < MaxTime
  /\ time' = time + 1
  /\ UNCHANGED <<buf, head, count, flags, handled, draining, masked, panicked>>

\* After a panic nothing of the logger runs again.
Next ==
  /\ ~panicked
  /\ \/ \E k \in Kinds : report(k)
     \/ process_begin \/ process_next \/ process_done
     \/ \E v \in BOOLEAN : set_all(v) \/ \E k \in Kinds : set_flag(k, v)
     \/ Tick

Spec == Init /\ [][Next]_vars

(***************************************************************************)
(* The ring read oldest first, and the refinement: logging.rs over the     *)
(* ring implements the abstract trace of LogQueue (filtering, overwrite of *)
(* the oldest record, arrival-order drain).                                *)
(***************************************************************************)
RingSeq == [i \in 1 .. count |-> buf[(head + i - 1) % CAPACITY]]

Abs == INSTANCE LogQueue WITH q <- RingSeq, enabled <- flags

\* Every behaviour of report/process/set_* over the ring is a behaviour of
\* the abstract trace: records leave in arrival order, at most CAPACITY are
\* kept, the oldest is the one overwritten and disabled ones are dropped.
\* (The handler's panicking report() is a step that delivers one record.)
Refines == Abs!Spec

\* report() is callable from any context (spec 4.4), process()'s handler
\* included: no call into the logger fails on Logger's RefCell borrow.
NoBorrowPanic == ~panicked

=============================================================================
