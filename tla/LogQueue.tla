------------------------------- MODULE LogQueue -------------------------------
(***************************************************************************)
(* What the event trace promises (spec 4.4), without the ring: a sequence  *)
(* of at most CAPACITY records in arrival order.  A record of an enabled   *)
(* category is appended, the oldest one being dropped when the trace is    *)
(* full; a record of a disabled category is dropped.  A drain hands the    *)
(* records to the handler oldest first until the trace is empty.           *)
(***************************************************************************)
EXTENDS Integers, Sequences

CONSTANTS CAPACITY, Kinds, MaxTime

Events == [kind : Kinds, time : 0 .. MaxTime]

VARIABLES
  q,          \* the records, oldest first
  enabled,    \* enabled[k]: category k is recorded
  handled,    \* the record the drain handler was last given
  time,       \* get_time()
  draining    \* a drain is in progress (interrupts masked)

Init ==
  /\ q = <<>>
  /\ enabled \in [Kinds -> BOOLEAN]
  /\ handled \in Events \cup {<<>>}
  /\ time = 0
  /\ draining = FALSE

Record(k) ==
  /\ q' = IF ~enabled[k] THEN q
          ELSE LET e == [kind |-> k, time |-> time]
               IN IF Len(q) = CAPACITY THEN Append(Tail(q), e)
                                       ELSE Append(q, e)

Report(k) == ~draining /\ Record(k) /\ UNCHANGED <<enabled, handled, time, draining>>

SetEnabled(ks, val) ==
  /\ ~draining
  /\ enabled' = [k \in Kinds |-> IF k \in ks THEN val ELSE enabled[k]]
  /\ UNCHANGED <<q, handled, time, draining>>

Tick ==
  /\ ~draining /\ time < MaxTime
  /\ time' = time + 1
  /\ UNCHANGED <<q, enabled, handled, draining>>

BeginDrain == ~draining /\ draining' = TRUE /\ UNCHANGED <<q, enabled, handled, time>>

\* One record goes to the handler, which may itself record an event.
Deliver ==
  /\ draining /\ q # <<>>
  /\ handled' = Head(q)
  /\ \/ q' = Tail(q)
     \/ \E k \in Kinds :
          /\ enabled[k]
          /\ q' = Append(Tail(q), [kind |-> k, time |-> time])
  /\ UNCHANGED <<enabled, time, draining>>

EndDrain == draining /\ q = <<>> /\ draining' = FALSE /\ UNCHANGED <<q, enabled, handled, time>>

Next ==
  \/ \E k \in Kinds : Report(k)
  \/ \E ks \in SUBSET Kinds, val \in BOOLEAN : SetEnabled(ks, val)
  \/ Tick \/ BeginDrain \/ Deliver \/ EndDrain

Spec == Init /\ [][Next]_<<q, enabled, handled, time, draining>>

=============================================================================
