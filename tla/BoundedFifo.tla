----------------------------- MODULE BoundedFifo -----------------------------
(***************************************************************************)
(* What an input queue of the emulator promises to the guest program and   *)
(* to the user at the keyboard, whatever the ring behind it does: a FIFO   *)
(* of bounded capacity that refuses a datum only when it is full, reports  *)
(* "nothing there" only when it is empty, and hands out every accepted     *)
(* datum once, in order.  "event" is the outcome of the latest operation,  *)
(* the part of the behaviour both sides can see.                           *)
(***************************************************************************)
EXTENDS Naturals, Sequences

CONSTANTS
  Data,      \* what may be queued (key events, received characters)
  NoDatum,   \* accompanies an event that carries no datum
  Capacity   \* how many data the queue can hold

VARIABLES queue, event

vars == <<queue, event>>

Outcome(kind, d) == [kind |-> kind, datum |-> d]

Init ==
  /\ queue = <<>>
  /\ event = Outcome("none", NoDatum)

Accept(d) ==
  /\ Len(queue) < Capacity
  /\ queue' = Append(queue, d)
  /\ event' = Outcome("accepted", d)

Refuse(d) ==
  /\ Len(queue) = Capacity
  /\ event' = Outcome("refused", d)
  /\ UNCHANGED queue

Deliver ==
  /\ queue # <<>>
  /\ queue' = Tail(queue)
  /\ event' = Outcome("delivered", Head(queue))

Miss ==
  /\ queue = <<>>
  /\ event' = Outcome("empty", NoDatum)
  /\ UNCHANGED queue

Next ==
  \/ \E d \in Data : Accept(d) \/ Refuse(d)
  \/ Deliver
  \/ Miss

Spec == Init /\ [][Next]_vars
=============================================================================
