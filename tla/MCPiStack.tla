------------------------------ MODULE MCPiStack ------------------------------
(***************************************************************************)
(* The ceiling stack driven the way the resource manager drives it: a      *)
(* lock pushes the resource's ceiling and a matching unlock pops it, locks *)
(* nest (resources are acquired in a scope and released at its end), and  *)
(* a lock is only granted above the current system ceiling (spec 4.2).     *)
(* `held` records the ceilings of the locks the manager believes it holds: *)
(* a push that returned an error is not a held lock.                       *)
(***************************************************************************)
EXTENDS PiStack, Sequences

CONSTANT NumResources   \* resources declared at start-up, each lockable once

ASSUME NumResources \in 1 .. MAX_RESOURCES

VARIABLE held

vars == <<pi_vars, held>>

MCInit == Init /\ held = <<>>

\* A task locks a resource of ceiling c: push_stack, and the lock is held
\* only if the push returned Ok.
Lock(c) ==
  /\ Len(held) < NumResources
  /\ c > system_ceiling
  /\ push_stack(c)
  /\ held' = IF PushFails THEN held ELSE Append(held, c)

\* The innermost held lock is released: pop_stack.
Unlock ==
  /\ held # <<>>
  /\ pop_stack
  /\ held' = SubSeq(held, 1, Len(held) - 1)

MCNext == (\E c \in Ceilings : Lock(c)) \/ Unlock

MCSpec == MCInit /\ [][MCNext]_vars

MCTypeOK == TypeOK /\ held \in Seq(Ceilings)

(***************************************************************************)
(* After any sequence of locks, failed locks and unlocks, the system       *)
(* ceiling that push_stack/pop_stack maintain is the ceiling of the        *)
(* innermost lock still held, and PI once every lock is released; and the  *)
(* slot StackTop reads is inside the array.                                *)
(***************************************************************************)
CeilingTracksLocks ==
  /\ system_ceiling = IF held = <<>> THEN PI ELSE held[Len(held)]
  /\ top \in Slots
  /\ \A i \in 1 .. Len(held) : pi_stack[i] = held[i]

=============================================================================
