------------------------------ MODULE InputRing ------------------------------
(***************************************************************************)
(* The input rings of the emulator: key_buffer/key_head/key_tail and       *)
(* uart_buffer/uart_head/uart_tail of struct VirtualMachine (vm.h).        *)
(*                                                                         *)
(* The main thread produces (handle_graphics_events in graphics.c,         *)
(* handle_uart_events in io.c) and the CPU thread consumes (memory_read in *)
(* memory.c) with no lock and no atomic: the two threads interleave at     *)
(* every load and store of a shared word, and each such access is one      *)
(* action here.  The fields are plain ints, so the compiler may also swap  *)
(* the store that fills a slot with the store that publishes it, and the   *)
(* load that empties a slot with the store that releases it; reorder says  *)
(* whether the build does.  Both rings run the same statements, save that   *)
(* UART_STATUS does not look into the slot.                                *)
(***************************************************************************)
EXTENDS Naturals, Sequences

CONSTANTS
  N,         \* slots of the ring (64 in vm.h)
  Data,      \* key events or received characters
  NoDatum    \* content of a slot never written, and of an empty register

ASSUME RingAssumption ==
  /\ N \in Nat /\ N >= 2
  /\ NoDatum \notin Data

VARIABLES
  reorder,   \* the build may swap a slot access with its index store; fixed
  slot,      \* uart_buffer / key_buffer
  head,      \* next slot to read, written by the CPU thread only
  tail,      \* next slot to write, written by the main thread only
  ppc,       \* where the producer stands in its loop body
  pdatum,    \* the datum the producer is queueing
  ptail,     \* the producer's register copy of tail
  cpc,       \* where the consumer stands in memory_read
  cdatum,    \* the consumer's register copy of the slot
  peeked,    \* the datum the latest KBD_STATUS read described, if any
  event      \* outcome of the latest operation, as in BoundedFifo

producerVars == <<ppc, pdatum, ptail>>
consumerVars == <<cpc, cdatum, peeked>>
vars == <<reorder, slot, head, tail, ppc, pdatum, ptail, cpc, cdatum, peeked, event>>

Indices == 0 .. (N - 1)
Succ(i) == (i + 1) % N
Outcome(kind, d) == [kind |-> kind, datum |-> d]

Init ==
  /\ reorder \in BOOLEAN
  /\ slot = [i \in Indices |-> NoDatum]
  /\ head = 0 /\ tail = 0
  /\ ppc = "idle" /\ pdatum = NoDatum /\ ptail = 0
  /\ cpc = "idle" /\ cdatum = NoDatum /\ peeked = NoDatum
  /\ event = Outcome("none", NoDatum)

-----------------------------------------------------------------------------
(* The producer: one turn of the while loop for one datum. *)

\* read() or SDL_PollEvent() returned a datum: tail is loaded.
Arrive(d) ==
  /\ ppc = "idle"
  /\ ppc' = "check"
  /\ pdatum' = d
  /\ ptail' = tail
  /\ UNCHANGED <<slot, head, tail, event, consumerVars>>

\* Seeded bugs, each to show that a property notices; neither is in the code:
\* no look for room, and a second load of tail for the slot.
BlindCheckRoom ==
  /\ ppc = "check"
  /\ ppc' = "fill"
  /\ UNCHANGED <<slot, head, tail, pdatum, ptail, event, consumerVars>>
FillAtTail ==
  /\ ppc \in {"fill", "fill_late"}
  /\ slot' = [slot EXCEPT ![tail] = pdatum]
  /\ ppc' = IF ppc = "fill" THEN "publish" ELSE "idle"
  /\ UNCHANGED <<head, tail, pdatum, ptail, event, consumerVars>>

\* if (next != head): the load of head decides between queueing and dropping.
CheckRoom ==
  /\ ppc = "check"
  /\ \/ /\ Succ(ptail) # head
        /\ \/ ppc' = "fill"
           \/ reorder /\ ppc' = "publish_early"
        /\ UNCHANGED event
     \/ /\ Succ(ptail) = head
        /\ ppc' = "idle"
        /\ event' = Outcome("refused", pdatum)
  /\ UNCHANGED <<slot, head, tail, pdatum, ptail, consumerVars>>

\* buffer[tail] = c
Fill ==
  /\ ppc \in {"fill", "fill_late"}
  /\ slot' = [slot EXCEPT ![ptail] = pdatum]
  /\ ppc' = IF ppc = "fill" THEN "publish" ELSE "idle"
  /\ UNCHANGED <<head, tail, pdatum, ptail, event, consumerVars>>

\* tail = next
Publish ==
  /\ ppc \in {"publish", "publish_early"}
  /\ tail' = Succ(ptail)
  /\ event' = Outcome("accepted", pdatum)
  /\ ppc' = IF ppc = "publish" THEN "idle" ELSE "fill_late"
  /\ UNCHANGED <<slot, head, pdatum, ptail, consumerVars>>

-----------------------------------------------------------------------------
(* The consumer: a guest load of a DATA or STATUS register. *)

\* DATA: if (head != tail), and 0 is returned when the ring looks empty.
StartPop ==
  /\ cpc = "idle"
  /\ \/ /\ head # tail
        /\ \/ cpc' = "take"
           \/ reorder /\ cpc' = "release_early"
        /\ UNCHANGED <<event, peeked>>
     \/ /\ head = tail
        /\ event' = Outcome("empty", NoDatum)
        /\ peeked' = NoDatum
        /\ UNCHANGED cpc
  /\ UNCHANGED <<slot, head, tail, cdatum, producerVars>>

\* event = buffer[head]
Take ==
  /\ cpc = "take"
  /\ cdatum' = slot[head]
  /\ cpc' = "release"
  /\ UNCHANGED <<slot, head, tail, peeked, event, producerVars>>

\* head = (head + 1) % N, and the datum is returned.
Release ==
  /\ cpc = "release"
  /\ head' = Succ(head)
  /\ event' = Outcome("delivered", cdatum)
  /\ cpc' = "idle"
  /\ cdatum' = NoDatum
  /\ peeked' = NoDatum
  /\ UNCHANGED <<slot, tail, producerVars>>

\* The swapped order: the slot is given back before it is read, so what it
\* holds when it is read is whatever the producer has left there by then.
ReleaseThenTake ==
  \/ /\ cpc = "release_early"
     /\ head' = Succ(head)
     /\ event' = Outcome("delivered", NoDatum)
     /\ cpc' = "take_late"
     /\ peeked' = NoDatum
     /\ UNCHANGED <<slot, tail, cdatum, producerVars>>
  \/ /\ cpc = "take_late"
     /\ cpc' = "idle"
     /\ UNCHANGED <<slot, head, tail, cdatum, peeked, event, producerVars>>

\* STATUS: ready iff head != tail, and then the slot tells press from release.
StartPeek ==
  /\ cpc = "idle" /\ head # tail
  /\ cpc' = "peek"
  /\ UNCHANGED <<slot, head, tail, cdatum, peeked, event, producerVars>>

Peek ==
  /\ cpc = "peek"
  /\ peeked' = slot[head]
  /\ cpc' = "idle"
  /\ UNCHANGED <<slot, head, tail, cdatum, event, producerVars>>

-----------------------------------------------------------------------------
Produce == (\E d \in Data : Arrive(d)) \/ CheckRoom \/ Fill \/ Publish
Consume == StartPop \/ Take \/ Release \/ ReleaseThenTake \/ StartPeek \/ Peek
Next == (Produce \/ Consume) /\ UNCHANGED reorder
Spec == Init /\ [][Next]_vars

-----------------------------------------------------------------------------
(* Properties. *)

Slots == Data \cup {NoDatum}
Kinds == {"none", "accepted", "refused", "delivered", "empty"}

\* The variables keep their types; head and tail always index a slot.
TypeOK ==
  /\ reorder \in BOOLEAN
  /\ slot \in [Indices -> Slots]
  /\ head \in Indices /\ tail \in Indices /\ ptail \in Indices
  /\ ppc \in {"idle", "check", "fill", "publish", "publish_early", "fill_late"}
  /\ pdatum \in Slots
  /\ cpc \in {"idle", "take", "release", "release_early", "take_late", "peek"}
  /\ cdatum \in Slots /\ peeked \in Slots
  /\ event \in [kind : Kinds, datum : Slots]

\* How many published data are unread, and the data themselves, oldest first.
Count == IF head <= tail THEN tail - head ELSE tail + N - head
Wrap(i) == IF i < N THEN i ELSE i - N
Contents == [k \in 1 .. Count |-> slot[Wrap(head + k - 1)]]

\* With the accesses in program order, a slot the producer is about to fill is
\* never one the consumer is about to read: without a lock this is what keeps
\* the two threads apart.
NoSlotRace ==
  ~ /\ ~reorder
    /\ ppc \in {"fill", "fill_late"}
    /\ cpc \in {"take", "peek"}
    /\ ptail = head

\* KBD_STATUS and a following KBD_DATA agree: the event whose press/release
\* bit the guest was shown is the one it pops next (in program order).
StatusMatchesData ==
  (~reorder /\ peeked # NoDatum) =>
    /\ Count > 0
    /\ slot[head] = peeked
    /\ cpc = "release" => cdatum = peeked

\* With the accesses in program order the unlocked ring is a bounded FIFO of
\* N - 1 data.
Fifo == INSTANCE BoundedFifo WITH Capacity <- N - 1, queue <- Contents
ImplementsFifo == Fifo!Init /\ [][reorder \/ Fifo!Next]_(Fifo!vars)

\* Whatever the compiler reorders, no datum is miscounted: the ring refuses
\* only when N - 1 are queued, answers "empty" only when none is, and delivers
\* exactly as many as it accepted.  (The data themselves may be stale then.)
Token == "token"
Untyped(d) == IF event.kind \in {"none", "empty"} THEN NoDatum ELSE Token
CountedEvent == Outcome(event.kind, Untyped(event.datum))
Counted == INSTANCE BoundedFifo
             WITH Data <- {Token}, Capacity <- N - 1,
                  queue <- [k \in 1 .. Count |-> Token],
                  event <- CountedEvent
ImplementsCount == Counted!Spec

-----------------------------------------------------------------------------
(* The inductive invariant behind the safety properties. *)

\* What the main thread knows while it stands between two of its accesses: its
\* copy of tail is current, and the room it saw is still there, because the
\* CPU thread only ever moves head away from it.
ProducerInv ==
  /\ ppc \in {"check", "fill", "publish", "publish_early"} => ptail = tail
  /\ ppc \in {"fill", "publish", "publish_early"} => Succ(tail) # head
  /\ ppc = "fill_late" => tail = Succ(ptail)
  /\ ppc = "publish" => slot[ptail] = pdatum
  /\ ppc # "idle" => pdatum \in Data

\* What the CPU thread knows: data it saw stay until it pops them itself, and,
\* in program order, unchanged.
ConsumerInv ==
  /\ cpc \in {"take", "release", "release_early", "peek"} => head # tail
  /\ peeked # NoDatum => head # tail
  /\ ~reorder => /\ cpc = "release" => cdatum = slot[head]
                 /\ peeked # NoDatum => slot[head] = peeked

\* Without reordering the swapped places are never reached.
OrderInv ==
  ~reorder => /\ ppc \notin {"publish_early", "fill_late"}
              /\ cpc \notin {"release_early", "take_late"}

Inv == TypeOK /\ ProducerInv /\ ConsumerInv /\ OrderInv
=============================================================================
