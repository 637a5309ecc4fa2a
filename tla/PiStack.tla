------------------------------- MODULE PiStack -------------------------------
(***************************************************************************)
(* The priority-ceiling stack of src/src/system/pi_stack.rs.               *)
(*                                                                         *)
(* `pi_stack` is the fixed array [i32; MAX_RESOURCES], `top` the index of  *)
(* its top slot and `system_ceiling` the cached ceiling of the innermost   *)
(* lock.  Slot 0 is never written: it keeps the sentinel PI, which is what *)
(* `pop_stack` reads back when the last lock is released.  The operators   *)
(* below are actions on these three variables; a resource manager (the     *)
(* MC module, or the kernel) decides when to call them.                    *)
(***************************************************************************)
EXTENDS Integers

CONSTANTS
  MAX_RESOURCES,   \* crate::config::MAX_RESOURCES, the length of pi_stack
  Ceilings         \* the ceilings resources may have (task priorities)

ASSUME MAX_RESOURCES \in Nat \ {0}
ASSUME Ceilings \subseteq Nat

VARIABLES top, pi_stack, system_ceiling

pi_vars == <<top, pi_stack, system_ceiling>>

\* const PI: i32 = -1, the "no lock held" ceiling.
PI == -1

Slots == 0 .. MAX_RESOURCES - 1

TypeOK ==
  /\ top \in Nat
  /\ pi_stack \in [Slots -> Ceilings \cup {PI}]
  /\ system_ceiling \in Ceilings \cup {PI}

\* PiStack::new()
Init ==
  /\ top = 0
  /\ pi_stack = [i \in Slots |-> PI]
  /\ system_ceiling = PI

\* pop_stack returns Err(KernelError::Empty) and changes nothing.
PopFails == top = 0

\* Mutation of pop_stack: the ceiling is reloaded before top is decremented.
pop_stack_ReadOldTop ==
  IF PopFails
    THEN UNCHANGED pi_vars
    ELSE /\ top' = top - 1
         /\ system_ceiling' = pi_stack[top]
         /\ UNCHANGED pi_stack

\* PiStack::pop_stack: step top down and reload the cached ceiling from the
\* slot that is now the top.
pop_stack ==
  IF PopFails
    THEN UNCHANGED pi_vars
    ELSE /\ top' = top - 1
         /\ system_ceiling' = pi_stack[top - 1]
         /\ UNCHANGED pi_stack

\* push_stack returns Err(KernelError::LimitExceeded): the test is made
\* after `top` has already been incremented.
PushFails == top + 1 >= MAX_RESOURCES

\* PiStack::push_stack: the increment of `top` is kept on the error path.
push_stack(ceiling) ==
  /\ top' = top + 1
  /\ IF PushFails
       THEN UNCHANGED <<pi_stack, system_ceiling>>
       ELSE /\ pi_stack' = [pi_stack EXCEPT ![top + 1] = ceiling]
            /\ system_ceiling' = ceiling

\* PiStack::top: indexes the array without a bounds check, so it panics
\* whenever `top` is not a slot.
StackTop == pi_stack[top]

=============================================================================
