------------------------------- MODULE MCKernel -------------------------------
(***************************************************************************)
(* Kernel with a history variable for checking.  `last[c][t]` is the      *)
(* newest context task <<c, t>> has had: its register file whenever some  *)
(* core runs it, else the value it had when it was last switched out.     *)
(* Kernel's actions are unchanged; MCNext only records what they do.      *)
(***************************************************************************)
EXTENDS Kernel

VARIABLE last

\* The cores on which task <<c, t>> is live in the next state.
LiveOn(c, t) == {d \in Cores : cpu'[d].who = <<c, t>>}

Track ==
  last' = [c \in Cores |-> [t \in Tasks |->
             IF LiveOn(c, t) # {} THEN cpu'[CHOOSE d \in LiveOn(c, t) : TRUE]
                                 ELSE last[c][t]]]

MCInit == Init /\ last = tcb

MCNext == Next /\ Track

MCSpec == MCInit /\ [][MCNext]_<<vars, last>> /\ Fairness

(***************************************************************************)
(* No context switch loses an update: a task that no core runs is resumed *)
(* from exactly the context it had when it was switched out.  Every        *)
(* branch of get_next_tcb must save the outgoing register file into the   *)
(* TCB the next load of that task reads (its own core's table, also when  *)
(* the borrowing core hands it back), and no load may read a TCB before    *)
(* that save.                                                              *)
(***************************************************************************)
NoLostContext ==
  \A c \in Cores, t \in Tasks :
    (\A d \in Cores : cpu[d].who # <<c, t>>) => tcb[c][t] = last[c][t]

=============================================================================
