--------------------------- MODULE InputRingProofs ---------------------------
(***************************************************************************)
(* Proofs about InputRing for every ring size N, every set of data and     *)
(* both store orders; then, on the same lemmas, about UartStartup for      *)
(* every number of typed characters and every interleaving of the typing   *)
(* with the initialisation of the CPU thread.  The first part uses nothing *)
(* of UartStartup: StartupAssumption is cited in the second only.          *)
(***************************************************************************)
EXTENDS UartStartup, SequenceTheorems, TLAPS

\* The ring index advances by one and wraps: the only fact about % needed.
LEMMA SuccWraps ==
  ASSUME NEW i \in Indices
  PROVE  /\ Succ(i) = IF i + 1 = N THEN 0 ELSE i + 1
         /\ Succ(i) \in Indices
BY RingAssumption DEF Indices, Succ

\* The tail of a sequence, element by element.
LEMMA TailAsFunction ==
  ASSUME NEW S, NEW s \in Seq(S), s # <<>>
  PROVE  Tail(s) = [k \in 1 .. (Len(s) - 1) |-> s[k + 1]]
<1>. DEFINE t == [k \in 1 .. (Len(s) - 1) |-> s[k + 1]]
<1>1. Len(s) - 1 \in Nat /\ \A k \in 1 .. (Len(s) - 1) : s[k + 1] \in S
  OBVIOUS
<1>2. t \in Seq(S) /\ Len(t) = Len(s) - 1
  BY <1>1
<1>3. \A k \in 1 .. Len(Tail(s)) : Tail(s)[k] = t[k]
  BY HeadTailProperties, <1>2
<1>. HIDE DEF t
<1>4. Tail(s) = t
  BY HeadTailProperties, SeqEqual, <1>2, <1>3
<1>. QED
  BY <1>4 DEF t

\* The published part of the ring, as a sequence.
LEMMA ContentsSeq ==
  ASSUME TypeOK
  PROVE  /\ Count \in 0 .. (N - 1)
         /\ Contents \in Seq(Slots)
         /\ Len(Contents) = Count
         /\ \A k \in 1 .. Count : Contents[k] = slot[Wrap(head + k - 1)]
         /\ \A k \in 1 .. Count : Wrap(head + k - 1) \in Indices
<1>1. Count \in 0 .. (N - 1)
  BY RingAssumption DEF TypeOK, Indices, Count
<1>2. \A k \in 1 .. Count : Wrap(head + k - 1) \in Indices
  BY RingAssumption, <1>1 DEF TypeOK, Indices, Count, Wrap
<1>3. \A k \in 1 .. Count : slot[Wrap(head + k - 1)] \in Slots
  BY <1>2 DEF TypeOK
<1>4. Contents \in Seq(Slots) /\ Len(Contents) = Count
  BY <1>1, <1>3 DEF Contents
<1>. QED
  BY <1>1, <1>2, <1>4 DEF Contents

\* The empty ring satisfies the inductive invariant.
LEMMA InvInit == Init => Inv
BY RingAssumption
DEF Init, Inv, TypeOK, ProducerInv, ConsumerInv, OrderInv, Indices, Slots, Kinds, Outcome

\* Every step of either thread preserves the inductive invariant.
LEMMA InvStep == Inv /\ [Next]_vars => Inv'
<1>. SUFFICES ASSUME Inv, [Next]_vars PROVE Inv'
  OBVIOUS
<1>. reorder' = reorder
  BY DEF Next, vars
<1>. USE RingAssumption, SuccWraps
     DEF Inv, TypeOK, ProducerInv, ConsumerInv, OrderInv, Slots, Kinds, Outcome
<1>1. ASSUME NEW d \in Data, Arrive(d) PROVE Inv'
  BY <1>1 DEF Arrive, consumerVars
<1>2. CASE CheckRoom
  BY <1>2 DEF CheckRoom, consumerVars
<1>3. CASE Fill
  BY <1>3 DEF Fill, consumerVars
<1>4. CASE Publish
  BY <1>4 DEF Publish, consumerVars, Indices
<1>5. CASE StartPop
  BY <1>5 DEF StartPop, producerVars
<1>6. CASE Take
  BY <1>6 DEF Take, producerVars
<1>7. CASE Release
  BY SMTT(30), <1>7 DEF Release, producerVars, Indices
<1>8. CASE ReleaseThenTake
  <2>1. CASE cpc = "release_early"
    BY SMTT(30), <1>8, <2>1 DEF ReleaseThenTake, producerVars, Indices
  <2>2. CASE cpc = "take_late"
    BY <1>8, <2>2 DEF ReleaseThenTake, producerVars
  <2>. QED
    BY <1>8, <2>1, <2>2 DEF ReleaseThenTake
<1>9. CASE StartPeek
  BY <1>9 DEF StartPeek, producerVars
<1>10. CASE Peek
  BY <1>10 DEF Peek, producerVars
<1>11. CASE UNCHANGED vars
  BY <1>11 DEF vars
<1>. QED
  BY <1>1, <1>2, <1>3, <1>4, <1>5, <1>6, <1>7, <1>8, <1>9, <1>10, <1>11
  DEF Next, Produce, Consume

\* The invariant holds of every behaviour of the ring.
THEOREM RingInvariant == Spec => []Inv
BY InvInit, InvStep, PTL DEF Spec

\* Head and tail index a slot and every variable keeps its type, whatever the
\* threads do and the compiler reorders (the ring fields of vm.h).
THEOREM RingTypeCorrect == Spec => []TypeOK
<1>1. Inv => TypeOK
  BY DEF Inv
<1>. QED
  BY <1>1, RingInvariant, PTL

\* With the accesses in program order, main never fills a slot that the CPU
\* thread is reading: the unlocked rings have no data race on a slot.
THEOREM RingRaceFree == Spec => []NoSlotRace
<1>1. Inv => NoSlotRace
  BY DEF Inv, ProducerInv, ConsumerInv, OrderInv, NoSlotRace
<1>. QED
  BY <1>1, RingInvariant, PTL

\* A ready KBD_STATUS and the KBD_DATA read after it describe one key event.
THEOREM RingStatusHonest == Spec => []StatusMatchesData
<1>1. Inv => StatusMatchesData
  BY RingAssumption
  DEF Inv, TypeOK, ConsumerInv, StatusMatchesData, Count, Indices
<1>. QED
  BY <1>1, RingInvariant, PTL

-----------------------------------------------------------------------------
(* Refinement: in program order the ring is BoundedFifo. *)

\* Nothing the queue shows changes when its slots, head, tail and the event
\* of the ring do not.
LEMMA ContentsStutter ==
  ASSUME TypeOK, UNCHANGED <<head, tail, event>>,
         \A k \in 1 .. Count :
           slot'[Wrap(head + k - 1)] = slot[Wrap(head + k - 1)]
  PROVE  UNCHANGED Fifo!vars
BY DEF Fifo!vars, Contents, Count, Wrap

\* Publishing appends the datum of the slot behind the last unread one.
LEMMA ContentsAppend ==
  ASSUME TypeOK, TypeOK', Succ(tail) # head, tail' = Succ(tail),
         UNCHANGED <<slot, head>>
  PROVE  /\ Len(Contents) < N - 1
         /\ Contents' = Append(Contents, slot[tail])
<1>. /\ head \in 0 .. (N - 1) /\ tail \in 0 .. (N - 1) /\ N \in Nat
     /\ Succ(tail) = IF tail + 1 = N THEN 0 ELSE tail + 1
  BY SuccWraps, RingAssumption DEF TypeOK, Indices
<1>1. Count' = Count + 1 /\ Count + 1 \in 1 .. (N - 1)
  BY DEF Count
<1>2. Wrap(head + Count) = tail
  BY RingAssumption DEF TypeOK, Indices, Count, Wrap
<1>3. slot[tail] \in Slots
  BY DEF TypeOK
<1>4. Contents' = [k \in 1 .. (Count + 1) |-> slot[Wrap(head + k - 1)]]
  BY <1>1 DEF Contents, Wrap
<1>5. Append(Contents, slot[tail]) =
        [k \in 1 .. (Count + 1) |-> IF k = Count + 1 THEN slot[tail] ELSE Contents[k]]
  BY ContentsSeq, <1>1, <1>3
<1>6. \A k \in 1 .. (Count + 1) :
        slot[Wrap(head + k - 1)] = IF k = Count + 1 THEN slot[tail] ELSE Contents[k]
  <2>. Count \in Nat
    BY ContentsSeq
  <2>1. ASSUME NEW k \in 1 .. Count
        PROVE  k # Count + 1 /\ Contents[k] = slot[Wrap(head + k - 1)]
    <3>1. k # Count + 1
      OBVIOUS
    <3>2. Contents[k] = slot[Wrap(head + k - 1)]
      BY ContentsSeq
    <3>. QED
      BY <3>1, <3>2
  <2>2. slot[Wrap(head + (Count + 1) - 1)] = slot[tail]
    BY <1>2
  <2>. QED
    BY <2>1, <2>2
<1>7. Contents' = Append(Contents, slot[tail])
  BY <1>4, <1>5, <1>6
<1>. QED
  BY ContentsSeq, <1>1, <1>7

\* Releasing removes the oldest unread datum.
LEMMA ContentsTail ==
  ASSUME TypeOK, TypeOK', head # tail, head' = Succ(head),
         UNCHANGED <<slot, tail>>
  PROVE  /\ Contents # <<>>
         /\ Head(Contents) = slot[head]
         /\ Contents' = Tail(Contents)
<1>. /\ head \in 0 .. (N - 1) /\ tail \in 0 .. (N - 1) /\ N \in Nat
     /\ Succ(head) = IF head + 1 = N THEN 0 ELSE head + 1
  BY SuccWraps, RingAssumption DEF TypeOK, Indices
<1>1. Count' = Count - 1 /\ Count \in 1 .. (N - 1)
  BY DEF Count
<1>2. \A k \in 1 .. (Count - 1) : Wrap(head' + k - 1) = Wrap(head + k)
  BY <1>1 DEF Wrap
<1>3. Contents # <<>> /\ Head(Contents) = Contents[1]
  BY ContentsSeq, <1>1
<1>4. Contents[1] = slot[head]
  <2>1. Wrap(head + 1 - 1) = head
    BY DEF Wrap
  <2>. QED
    BY ContentsSeq, <1>1, <2>1
<1>5. Tail(Contents) = [k \in 1 .. (Count - 1) |-> Contents[k + 1]]
  BY ContentsSeq, <1>3, TailAsFunction
<1>6. Contents' = [k \in 1 .. (Count - 1) |-> slot[Wrap(head + k)]]
  BY <1>1, <1>2 DEF Contents, Wrap
<1>7. \A k \in 1 .. (Count - 1) : Contents[k + 1] = slot[Wrap(head + k)]
  <2>1. ASSUME NEW k \in 1 .. (Count - 1)
        PROVE  Contents[k + 1] = slot[Wrap(head + k)]
    <3>1. k + 1 \in 1 .. Count /\ head + (k + 1) - 1 = head + k
      BY <1>1
    <3>2. Contents[k + 1] = slot[Wrap(head + (k + 1) - 1)]
      BY ContentsSeq, <3>1
    <3>. QED
      BY <3>1, <3>2
  <2>. QED
    BY <2>1
<1>. QED
  BY <1>3, <1>4, <1>5, <1>6, <1>7

\* The empty ring is the empty queue.
LEMMA FifoInit == Init => Fifo!Init
<1>. SUFFICES ASSUME Init PROVE Fifo!Init
  OBVIOUS
<1>1. Contents = <<>>
  BY DEF Init, Contents, Count
<1>. QED
  BY <1>1 DEF Init, Fifo!Init, Outcome, Fifo!Outcome

\* Every step of either thread is a step of the FIFO or leaves it alone.
LEMMA FifoStep ==
  ASSUME ~reorder, Inv, Inv', [Next]_vars
  PROVE  [Fifo!Next]_(Fifo!vars)
<1>. USE DEF Inv
<1>1. ASSUME NEW d \in Data, Arrive(d) PROVE UNCHANGED Fifo!vars
  BY <1>1, ContentsStutter DEF Arrive
<1>2. CASE CheckRoom
  <2>1. CASE Succ(ptail) # head
    BY <1>2, <2>1, ContentsStutter DEF CheckRoom
  <2>2. CASE Succ(ptail) = head
    <3>1. Count = N - 1
      BY <1>2, <2>2, RingAssumption, SuccWraps
      DEF CheckRoom, TypeOK, ProducerInv, Indices, Count
    <3>2. Contents' = Contents
      BY <1>2 DEF CheckRoom, Contents, Count, Wrap
    <3>. QED
      BY <1>2, <2>2, <3>1, <3>2, ContentsSeq
      DEF CheckRoom, ProducerInv, Fifo!Next, Fifo!Refuse, Outcome, Fifo!Outcome
  <2>. QED
    BY <2>1, <2>2
<1>3. CASE Fill
  <2>1. ppc = "fill" /\ ptail = tail
    BY <1>3 DEF Fill, OrderInv, ProducerInv
  <2>2. \A k \in 1 .. Count : Wrap(head + k - 1) # tail
    BY RingAssumption DEF TypeOK, Indices, Count, Wrap
  <2>3. \A k \in 1 .. Count :
          slot'[Wrap(head + k - 1)] = slot[Wrap(head + k - 1)]
    BY <1>3, <2>1, <2>2, ContentsSeq DEF Fill, TypeOK
  <2>. QED
    BY <1>3, <2>3, ContentsStutter DEF Fill
<1>4. CASE Publish
  <2>1. /\ ptail = tail /\ Succ(tail) # head /\ slot[tail] = pdatum
        /\ pdatum \in Data /\ tail' = Succ(tail)
        /\ UNCHANGED <<slot, head>>
    BY <1>4 DEF Publish, OrderInv, ProducerInv
  <2>2. Len(Contents) < N - 1 /\ Contents' = Append(Contents, pdatum)
    BY <2>1, ContentsAppend
  <2>. QED
    BY <1>4, <2>1, <2>2 DEF Publish, Fifo!Next, Fifo!Accept, Outcome, Fifo!Outcome
<1>5. CASE StartPop
  <2>1. CASE head # tail
    BY <1>5, <2>1, ContentsStutter DEF StartPop
  <2>2. CASE head = tail
    <3>1. Contents = <<>> /\ Contents' = Contents
      BY <1>5, <2>2 DEF StartPop, Contents, Count, TypeOK, Indices, Wrap
    <3>. QED
      BY <1>5, <2>2, <3>1
      DEF StartPop, Fifo!Next, Fifo!Miss, Outcome, Fifo!Outcome
  <2>. QED
    BY <2>1, <2>2
<1>6. CASE Take
  BY <1>6, ContentsStutter DEF Take
<1>7. CASE Release
  <2>1. /\ head # tail /\ cdatum = slot[head] /\ head' = Succ(head)
        /\ UNCHANGED <<slot, tail>>
    BY <1>7 DEF Release, ConsumerInv
  <2>2. /\ Contents # <<>> /\ Head(Contents) = cdatum
        /\ Contents' = Tail(Contents)
    BY <2>1, ContentsTail
  <2>. QED
    BY <1>7, <2>2 DEF Release, Fifo!Next, Fifo!Deliver, Outcome, Fifo!Outcome
<1>8. CASE ReleaseThenTake
  BY <1>8 DEF ReleaseThenTake, OrderInv
<1>9. CASE StartPeek
  BY <1>9, ContentsStutter DEF StartPeek
<1>10. CASE Peek
  BY <1>10, ContentsStutter DEF Peek
<1>11. CASE UNCHANGED vars
  BY <1>11, ContentsStutter DEF vars
<1>. QED
  BY <1>1, <1>2, <1>3, <1>4, <1>5, <1>6, <1>7, <1>8, <1>9, <1>10, <1>11
  DEF Next, Produce, Consume

\* Without reordering, the two threads and their unlocked ring implement a
\* FIFO of N - 1 data: nothing is lost while there is room, and nothing is
\* delivered twice, out of order or out of thin air.
THEOREM RingImplementsFifo == Spec => ImplementsFifo
<1>1. Inv /\ Inv' /\ [Next]_vars => [reorder \/ Fifo!Next]_(Fifo!vars)
  BY FifoStep
<1>. QED
  BY <1>1, FifoInit, RingInvariant, PTL DEF Spec, ImplementsFifo

-----------------------------------------------------------------------------
(* Refinement: in either store order the ring counts like BoundedFifo. *)

\* The queue of tokens that stands for the unread data.
Tokens == [k \in 1 .. Count |-> Token]

\* It is a sequence as long as the ring has unread data.
LEMMA TokensSeq ==
  ASSUME TypeOK
  PROVE  /\ Count \in 0 .. (N - 1)
         /\ Tokens \in Seq({Token}) /\ Len(Tokens) = Count
         /\ (Tokens = <<>>) = (Count = 0)
<1>1. Count \in 0 .. (N - 1)
  BY ContentsSeq
<1>2. Tokens \in Seq({Token}) /\ Len(Tokens) = Count
  BY <1>1 DEF Tokens
<1>. QED
  BY <1>1, <1>2, EmptySeq, SeqEqual

\* One more unread datum is one more token.
LEMMA TokensAppend ==
  ASSUME Count \in Nat, Count' = Count + 1
  PROVE  Tokens' = Append(Tokens, Token)
<1>1. Tokens \in Seq({Token}) /\ Len(Tokens) = Count
  BY DEF Tokens
<1>2. Tokens' = [k \in 1 .. (Count + 1) |-> Token]
  BY DEF Tokens
<1>. DEFINE t == [k \in 1 .. (Count + 1) |-> Token]
            a == Append(Tokens, Token)
<1>3. t \in Seq({Token}) /\ Len(t) = Count + 1 /\ \A k \in 1 .. (Count + 1) : t[k] = Token
  OBVIOUS
<1>4. a \in Seq({Token}) /\ Len(a) = Count + 1
  BY <1>1, AppendProperties
<1>5. \A k \in 1 .. (Count + 1) : a[k] = Token
  BY <1>4
<1>. HIDE DEF t, a
<1>6. t = a
  BY <1>3, <1>4, <1>5, SeqEqual
<1>. QED
  BY <1>2, <1>6 DEF t, a

\* One unread datum less is one token less, and the one handed out.
LEMMA TokensTail ==
  ASSUME Count \in Nat, Count' = Count - 1, Count >= 1
  PROVE  /\ Tokens # <<>> /\ Head(Tokens) = Token
         /\ Tokens' = Tail(Tokens)
<1>1. Tokens \in Seq({Token}) /\ Len(Tokens) = Count /\ Tokens[1] = Token
  BY DEF Tokens
<1>2. Tokens # <<>> /\ Head(Tokens) = Token
  BY <1>1
<1>3. Tail(Tokens) = [k \in 1 .. (Count - 1) |-> Tokens[k + 1]]
  BY <1>1, <1>2, TailAsFunction
<1>4. \A k \in 1 .. (Count - 1) : Tokens[k + 1] = Token
  BY DEF Tokens
<1>5. Tokens' = [k \in 1 .. (Count - 1) |-> Token]
  BY DEF Tokens
<1>. QED
  BY <1>2, <1>3, <1>4, <1>5

\* Every step of either thread counts as the FIFO does.
LEMMA CountStep ==
  ASSUME Inv, Inv', [Next]_vars
  PROVE  [Counted!Next]_(Counted!vars)
<1>. USE DEF Inv
<1>. /\ head \in 0 .. (N - 1) /\ tail \in 0 .. (N - 1) /\ N \in Nat /\ N >= 2
     /\ Count \in 0 .. (N - 1) /\ Len(Tokens) = Count
     /\ (Tokens = <<>>) = (Count = 0)
  BY RingAssumption, TokensSeq DEF TypeOK, Indices
<1>0. ASSUME UNCHANGED <<head, tail, event>> PROVE UNCHANGED Counted!vars
  BY <1>0 DEF Counted!vars, Count, CountedEvent, Untyped
<1>1. CASE CheckRoom /\ Succ(ptail) = head
  <2>1. Count = N - 1
    BY <1>1, SuccWraps DEF CheckRoom, TypeOK, ProducerInv, Count
  <2>2. Tokens' = Tokens
    BY <1>1 DEF CheckRoom, Tokens, Count
  <2>3. CountedEvent' = Outcome("refused", Token)
    BY <1>1 DEF CheckRoom, CountedEvent, Untyped, Outcome
  <2>. QED
    BY <2>1, <2>2, <2>3
    DEF Counted!Next, Counted!Refuse, Outcome, Counted!Outcome, Tokens
<1>2. CASE Publish
  <2>1. Count' = Count + 1 /\ Count < N - 1
    BY SMTT(30), <1>2, SuccWraps DEF Publish, TypeOK, ProducerInv, Count
  <2>2. Tokens' = Append(Tokens, Token)
    BY <2>1, TokensAppend
  <2>3. CountedEvent' = Outcome("accepted", Token)
    BY <1>2 DEF Publish, CountedEvent, Untyped, Outcome
  <2>. QED
    BY <2>1, <2>2, <2>3
    DEF Counted!Next, Counted!Accept, Outcome, Counted!Outcome, Tokens
<1>3. CASE StartPop /\ head = tail
  <2>1. Count = 0 /\ Tokens' = Tokens
    BY <1>3 DEF StartPop, Count, Tokens
  <2>2. CountedEvent' = Outcome("empty", NoDatum)
    BY <1>3 DEF StartPop, CountedEvent, Untyped, Outcome
  <2>. QED
    BY <2>1, <2>2
    DEF Counted!Next, Counted!Miss, Outcome, Counted!Outcome, Tokens
<1>4. CASE cpc \in {"release", "release_early"} /\ (Release \/ ReleaseThenTake)
  <2>1. head # tail /\ head' = Succ(head) /\ tail' = tail /\ event'.kind = "delivered"
    BY <1>4 DEF Release, ReleaseThenTake, ConsumerInv, Outcome
  <2>2. Count' = Count - 1 /\ Count >= 1
    BY SMTT(30), <2>1, SuccWraps DEF TypeOK, Count
  <2>3. Tokens # <<>> /\ Head(Tokens) = Token /\ Tokens' = Tail(Tokens)
    BY <2>2, TokensTail
  <2>4. CountedEvent' = Outcome("delivered", Token)
    BY <2>1 DEF CountedEvent, Untyped, Outcome
  <2>. QED
    BY <2>3, <2>4
    DEF Counted!Next, Counted!Deliver, Outcome, Counted!Outcome, Tokens
<1>5. ASSUME NEW d \in Data, Arrive(d) PROVE UNCHANGED Counted!vars
  BY <1>0, <1>5 DEF Arrive
<1>6. CASE CheckRoom /\ Succ(ptail) # head
  BY <1>0, <1>6 DEF CheckRoom
<1>7. CASE Fill \/ Take \/ StartPeek \/ Peek \/ UNCHANGED vars
  BY <1>0, <1>7 DEF Fill, Take, StartPeek, Peek, vars
<1>8. CASE StartPop /\ head # tail
  BY <1>0, <1>8 DEF StartPop
<1>9. CASE ReleaseThenTake /\ cpc = "take_late"
  BY <1>0, <1>9 DEF ReleaseThenTake
<1>10. /\ Release => cpc = "release"
       /\ ReleaseThenTake => cpc \in {"release_early", "take_late"}
  BY DEF Release, ReleaseThenTake
<1>. QED
  BY <1>1, <1>2, <1>3, <1>4, <1>5, <1>6, <1>7, <1>8, <1>9, <1>10
  DEF Next, Produce, Consume

\* Whatever the compiler reorders, data are neither lost while there is room
\* nor counted twice: in number, the ring is a FIFO of N - 1.
THEOREM RingImplementsCount == Spec => ImplementsCount
<1>1. Init => Counted!Init
  <2>. SUFFICES ASSUME Init PROVE Counted!Init
    OBVIOUS
  <2>1. Count = 0 /\ CountedEvent = Outcome("none", NoDatum)
    BY DEF Init, Count, CountedEvent, Untyped, Outcome
  <2>2. [k \in 1 .. Count |-> Token] = <<>>
    BY <2>1
  <2>. QED
    BY <2>1, <2>2 DEF Counted!Init, Outcome, Counted!Outcome
<1>2. Inv /\ Inv' /\ [Next]_vars => [Counted!Next]_(Counted!vars)
  BY CountStep
<1>. QED
  BY <1>1, <1>2, RingInvariant, PTL DEF Spec, ImplementsCount, Counted!Spec

-----------------------------------------------------------------------------
(* The ring while the CPU thread starts: module UartStartup. *)

\* The history is a sequence: what was popped, then what is queued.
LEMMA HistorySeq ==
  ASSUME StartupTypeOK
  PROVE  /\ History \in Seq(Slots)
         /\ Len(History) = Len(received) + Len(Contents)
         /\ \A i \in 1 .. Len(received) : History[i] = received[i]
         /\ \A i \in (Len(received) + 1) .. Len(History) :
              History[i] = Contents[i - Len(received)]
<1>1. received \in Seq(Slots) /\ Contents \in Seq(Slots)
  BY ContentsSeq DEF StartupTypeOK
<1>. QED
  BY <1>1, ConcatProperties DEF History

\* Types of the small variables, in the form the arithmetic needs.
LEMMA Numbers ==
  ASSUME StartupTypeOK
  PROVE  /\ N \in Nat /\ N >= 2 /\ MaxArrivals \in Nat /\ arrived \in Nat
         /\ head \in 0 .. (N - 1) /\ tail \in 0 .. (N - 1) /\ ptail \in 0 .. (N - 1)
         /\ Latest \in Int
         /\ \A i \in 0 .. (N - 1) : Succ(i) = IF i + 1 = N THEN 0 ELSE i + 1
BY RingAssumption, StartupAssumption, SuccWraps
DEF StartupTypeOK, TypeOK, Indices, Latest

\* Every variable keeps its type in every step.
LEMMA StartupTypeStep ==
  ASSUME StartupInv, [StartupNext]_startupVars
  PROVE  StartupTypeOK'
<1>. USE RingAssumption, StartupAssumption, SuccWraps
     DEF StartupInv, StartupTypeOK, TypeOK, OrderInv, Slots, Kinds, Outcome,
         producerVars, consumerVars
<1>1. CASE ResetHead /\ reorder' = reorder
  BY <1>1 DEF ResetHead, Indices
<1>2. CASE ResetTail /\ reorder' = reorder
  BY <1>2 DEF ResetTail, Indices
<1>3. CASE arrived < MaxArrivals /\ Arrive(arrived + 1) /\ arrived' = arrived + 1
           /\ UNCHANGED <<boot, received, owed, reorder>>
  BY <1>3 DEF Arrive
<1>4. CASE CheckRoom /\ UNCHANGED <<bootVars, reorder>>
  BY <1>4 DEF CheckRoom, bootVars
<1>5. CASE Fill /\ UNCHANGED <<bootVars, reorder>>
  BY <1>5 DEF Fill, bootVars
<1>6. CASE /\ Publish /\ UNCHANGED <<boot, arrived, received, reorder>>
           /\ owed' = IF boot = "running" THEN owed \cup {pdatum} ELSE owed
  <2>1. pdatum \in Data
    BY <1>6 DEF Publish, LateProducerInv
  <2>. QED
    BY <1>6, <2>1 DEF Publish
<1>7. CASE StartPop /\ UNCHANGED <<bootVars, reorder>>
  BY <1>7 DEF StartPop, bootVars
<1>8. CASE Take /\ UNCHANGED <<bootVars, reorder>>
  BY <1>8 DEF Take, bootVars
<1>9. CASE /\ Release /\ UNCHANGED <<boot, arrived, reorder>>
           /\ received' = Append(received, cdatum) /\ owed' = owed \ {cdatum}
  BY <1>9 DEF Release
<1>10. CASE UNCHANGED startupVars
  BY <1>10 DEF startupVars, vars, bootVars
<1>. QED
  BY <1>1, <1>2, <1>3, <1>4, <1>5, <1>6, <1>7, <1>8, <1>9, <1>10
  DEF StartupNext, Receive, GuestLoad, bootVars
\* Popping moves a character from the queue to what was popped: the history
\* does not change.
LEMMA HistoryRelease ==
  ASSUME StartupTypeOK, StartupTypeOK', head # tail, head' = Succ(head),
         cdatum = slot[head], received' = Append(received, cdatum),
         UNCHANGED <<slot, tail>>
  PROVE  /\ History' = History
         /\ Contents # <<>> /\ Contents[1] = cdatum /\ Contents' = Tail(Contents)
<1>1. /\ Contents # <<>> /\ Head(Contents) = cdatum
      /\ Contents' = Tail(Contents)
  BY ContentsTail DEF StartupTypeOK
<1>2. /\ received \in Seq(Slots) /\ cdatum \in Slots
      /\ Contents \in Seq(Slots) /\ Tail(Contents) \in Seq(Slots)
  BY ContentsSeq, <1>1, HeadTailProperties DEF StartupTypeOK
<1>3. History' = (received \o <<cdatum>>) \o Tail(Contents)
  BY <1>1, <1>2, AppendIsConcat DEF History
<1>4. <<cdatum>> \o Tail(Contents) = Contents
  BY <1>1, <1>2, ConcatSimplifications
<1>5. History' = received \o (<<cdatum>> \o Tail(Contents))
  BY SMTT(30), <1>2, <1>3, ConcatAssociative
<1>. QED
  BY <1>1, <1>2, <1>4, <1>5 DEF History

\* Publishing in the reset ring or in the one the copy of tail still fits
\* appends the character to the history.
LEMMA HistoryPublish ==
  ASSUME StartupTypeOK, StartupTypeOK', ptail = tail, Succ(tail) # head,
         tail' = Succ(tail), slot[tail] = pdatum,
         UNCHANGED <<slot, head, received>>
  PROVE  /\ History' = Append(History, pdatum)
         /\ Contents' = Append(Contents, pdatum)
<1>1. Contents' = Append(Contents, pdatum)
  BY ContentsAppend DEF StartupTypeOK
<1>2. /\ received \in Seq(Slots) /\ Contents \in Seq(Slots) /\ pdatum \in Slots
      /\ History \in Seq(Slots)
  BY ContentsSeq, HistorySeq DEF StartupTypeOK, TypeOK
<1>3. History' = received \o (Contents \o <<pdatum>>)
  BY <1>1, <1>2, AppendIsConcat DEF History
<1>. QED
  BY SMTT(30), <1>1, <1>2, <1>3, AppendIsConcat, ConcatAssociative DEF History
\* The history and the queue depend on these variables alone.
LEMMA HistoryStutter ==
  ASSUME UNCHANGED <<slot, head, tail, received>>
  PROVE  History' = History /\ Contents' = Contents
BY DEF History, Contents, Count, Wrap

\* The invariant holds when the emulator has started neither thread.
LEMMA StartupInvInit == StartupInit => StartupInv
<1>. SUFFICES ASSUME StartupInit PROVE StartupInv
  OBVIOUS
<1>1. Contents = <<>> /\ History = <<>>
  BY DEF StartupInit, Init, Contents, Count, History
<1>2. Inv
  BY InvInit DEF StartupInit
<1>. QED
  BY <1>1, <1>2, StartupAssumption
  DEF StartupInit, Init, StartupInv, StartupTypeOK, Inv, NothingPopped,
      StaleInv, Stale, LateProducerInv, HistoryInv, NothingOwedIsLost

\* A popped or queued character has already arrived when the history is
\* extended by the one just published.
LEMMA HistoryInvAppend ==
  ASSUME HistoryInv, History \in Seq(Slots), History' = Append(History, pdatum),
         Latest \in Int, pdatum \in Int, pdatum >= 1,
         Latest = pdatum - 1, Latest' = pdatum
  PROVE  HistoryInv'
<1>. DEFINE h == History
            n == Len(History)
<1>1. n \in Nat /\ Len(h') = n + 1
  OBVIOUS
<1>2. \A i \in 1 .. (n + 1) : h'[i] = IF i = n + 1 THEN pdatum ELSE h[i]
  BY <1>1
<1>3. \A i \in 1 .. (n + 1) : h'[i] \in 1 .. pdatum
  BY <1>1, <1>2 DEF HistoryInv
<1>4. ASSUME NEW i \in 1 .. (n + 1), NEW j \in 1 .. (n + 1), i < j
      PROVE  h'[i] < h'[j]
  <2>1. i \in 1 .. n /\ h'[i] = h[i] /\ h[i] \in 1 .. Latest
    BY <1>1, <1>2, <1>4 DEF HistoryInv
  <2>2. CASE j = n + 1
    BY <1>2, <2>1, <2>2
  <2>3. CASE j # n + 1
    <3>1. j \in 1 .. n /\ h'[j] = h[j]
      BY <1>1, <1>2, <2>3
    <3>2. h[i] < h[j]
      BY <1>4, <2>1, <3>1 DEF HistoryInv
    <3>. QED
      BY <2>1, <3>1, <3>2
  <2>. QED
    BY <2>2, <2>3
<1>. QED
  BY <1>1, <1>3, <1>4 DEF HistoryInv
\* Every step of main and of the CPU thread preserves the invariant.
LEMMA StartupInvStep == StartupInv /\ [StartupNext]_startupVars => StartupInv'
<1>. SUFFICES ASSUME StartupInv, [StartupNext]_startupVars PROVE StartupInv'
  OBVIOUS
<1>. /\ N \in Nat /\ N >= 2 /\ MaxArrivals \in Nat /\ arrived \in Nat
     /\ head \in 0 .. (N - 1) /\ tail \in 0 .. (N - 1) /\ ptail \in 0 .. (N - 1)
     /\ Latest \in Int
     /\ \A i \in 0 .. (N - 1) : Succ(i) = IF i + 1 = N THEN 0 ELSE i + 1
  BY Numbers DEF StartupInv
<1>. USE StartupTypeStep DEF StartupInv, OrderInv
<1>0. StartupTypeOK' /\ reorder' = reorder
  BY DEF StartupNext, startupVars, vars
<1>1. CASE ResetHead
  <2>1. UNCHANGED <<slot, head, tail, ppc, pdatum, ptail, cpc, cdatum, arrived, received, owed>>
        /\ boot' # "running" /\ boot # "running"
    BY <1>1 DEF ResetHead, NothingPopped, producerVars, consumerVars
  <2>2. History' = History /\ Contents' = Contents /\ Count' = Count
    BY <2>1, HistoryStutter DEF Count
  <2>. QED
    BY <1>0, <2>1, <2>2
    DEF NothingPopped, StaleInv, Stale, LateProducerInv, HistoryInv, Latest, NothingOwedIsLost
<1>2. CASE ResetTail
  <2>1. /\ UNCHANGED <<slot, head, ppc, pdatum, ptail, cpc, cdatum, arrived, received, owed>>
        /\ boot' = "running" /\ boot # "running" /\ tail' = 0
        /\ NothingPopped /\ ~Stale
    BY <1>2 DEF ResetTail, producerVars, consumerVars, Stale
  <2>2. Count = tail /\ Count' = 0 /\ Contents' = <<>> /\ History' = <<>> /\ Len(History') = 0
    BY <2>1 DEF NothingPopped, Count, Contents, History
  <2>3. StaleInv'
    <3>1. SUFFICES ASSUME Stale' PROVE StaleInv'
      BY DEF StaleInv
    <3>2. ptail = tail /\ Latest' = Latest
      BY <2>1, <3>1 DEF Stale, LateProducerInv, Latest
    <3>3. Contents = [k \in 1 .. tail |-> slot[k - 1]] /\ History = Contents
      <4>1. \A k \in 1 .. tail : Wrap(head + k - 1) = k - 1
        BY <2>1 DEF NothingPopped, Wrap
      <4>. QED
        BY <2>1, <2>2, <4>1, ContentsSeq, ConcatEmptySeq
        DEF NothingPopped, Contents, History, StartupTypeOK
    <3>4. ASSUME NEW i \in 0 .. (ptail - 1)
          PROVE  i + 1 \in 1 .. Len(History) /\ History[i + 1] = slot[i]
      BY <3>2, <3>3
    <3>5. \A i \in 0 .. (ptail - 1) : slot[i] \in 1 .. Latest
      BY <3>4 DEF HistoryInv
    <3>6. \A i, j \in 0 .. (ptail - 1) : i < j => slot[i] < slot[j]
      BY <3>4 DEF HistoryInv
    <3>. QED
      BY <2>1, <3>2, <3>5, <3>6 DEF StaleInv, NothingPopped
  <2>4. LateProducerInv'
    BY <2>1 DEF LateProducerInv, Stale
  <2>. QED
    BY <1>0, <2>1, <2>2, <2>3, <2>4
    DEF NothingPopped, HistoryInv, NothingOwedIsLost
<1>3. CASE arrived < MaxArrivals /\ Arrive(arrived + 1) /\ arrived' = arrived + 1
           /\ UNCHANGED <<boot, received, owed>>
  <2>1. /\ ppc = "idle" /\ ppc' = "check" /\ pdatum' = arrived' /\ ptail' = tail'
        /\ UNCHANGED <<slot, head, tail, cpc, cdatum, boot, received, owed>>
        /\ Latest' = Latest /\ arrived' >= 1
    BY <1>3 DEF Arrive, consumerVars, Latest
  <2>2. History' = History /\ Contents' = Contents /\ Count' = Count
    BY <2>1, HistoryStutter DEF Count
  <2>. QED
    BY <1>0, <2>1, <2>2
    DEF NothingPopped, StaleInv, Stale, LateProducerInv, HistoryInv, NothingOwedIsLost
<1>4. CASE CheckRoom /\ UNCHANGED bootVars
  <2>1. /\ ppc = "check" /\ ppc' \in {"fill", "idle"}
        /\ (ppc' = "fill" => Succ(ptail) # head)
        /\ UNCHANGED <<slot, head, tail, pdatum, ptail, cpc, cdatum,
                       boot, arrived, received, owed>>
        /\ Latest' \in Latest .. arrived
    BY <1>4 DEF CheckRoom, consumerVars, bootVars, Latest
  <2>2. History' = History /\ Contents' = Contents /\ Count' = Count
    BY <2>1, HistoryStutter DEF Count
  <2>3. (Stale' => Stale) /\ (ppc' # "idle" /\ Stale => Stale')
    BY <2>1 DEF Stale
  <2>4. \A x : x \in 1 .. Latest => x \in 1 .. Latest'
    BY <2>1
  <2>5. HistoryInv'
    BY <2>2, <2>4 DEF HistoryInv
  <2>6. StaleInv'
    BY <2>1, <2>3, <2>4 DEF StaleInv, NothingPopped
  <2>7. LateProducerInv'
    BY <2>1, <2>3 DEF LateProducerInv
  <2>. QED
    BY <1>0, <2>1, <2>2, <2>5, <2>6, <2>7 DEF NothingPopped, NothingOwedIsLost
<1>5. CASE Fill /\ UNCHANGED bootVars
  <2>1. /\ ppc = "fill" /\ ppc' = "publish" /\ slot' = [slot EXCEPT ![ptail] = pdatum]
        /\ UNCHANGED <<head, tail, pdatum, ptail, cpc, cdatum,
                       boot, arrived, received, owed>>
        /\ Latest' = Latest /\ Count' = Count /\ slot'[ptail] = pdatum
    BY <1>5 DEF Fill, consumerVars, bootVars, Latest, Count, StartupTypeOK, TypeOK
  <2>2. History' = History /\ Contents' = Contents
    <3>1. \A k \in 1 .. Count : Wrap(head + k - 1) # ptail
      BY <2>1 DEF Count, Wrap, LateProducerInv, StaleInv, NothingPopped
    <3>2. \A k \in 1 .. Count :
            slot'[Wrap(head + k - 1)] = slot[Wrap(head + k - 1)]
      BY <2>1, <3>1, ContentsSeq DEF StartupTypeOK, TypeOK
    <3>3. Contents' = Contents
      BY <2>1, <3>2 DEF Contents, Wrap
    <3>. QED
      BY <2>1, <3>3 DEF History
  <2>3. \A i \in 0 .. (ptail - 1) : slot'[i] = slot[i]
    BY <2>1 DEF StartupTypeOK, TypeOK, Indices
  <2>4. head # tail => slot'[head] = slot[head]
    BY <2>1 DEF LateProducerInv, StaleInv, NothingPopped, StartupTypeOK, TypeOK
  <2>5. StaleInv'
    BY <2>1, <2>3 DEF StaleInv, Stale, NothingPopped
  <2>. QED
    BY <1>0, <2>1, <2>2, <2>4, <2>5
    DEF NothingPopped, Stale, LateProducerInv, HistoryInv, NothingOwedIsLost
<1>6. CASE /\ Publish /\ UNCHANGED <<boot, arrived, received>>
           /\ owed' = IF boot = "running" THEN owed \cup {pdatum} ELSE owed
  <2>1. /\ ppc = "publish" /\ ppc' = "idle" /\ tail' = Succ(ptail) /\ slot[ptail] = pdatum
        /\ UNCHANGED <<slot, head, pdatum, ptail, cpc, cdatum, boot, arrived, received>>
        /\ pdatum = arrived /\ Latest = pdatum - 1 /\ Latest' = pdatum /\ pdatum >= 1
        /\ Succ(ptail) # head
    BY <1>6 DEF Publish, consumerVars, LateProducerInv, Latest
  <2>2. CASE ptail = tail
    <3>1. History' = Append(History, pdatum) /\ Contents' = Append(Contents, pdatum)
      BY <1>0, <2>1, <2>2, HistoryPublish
    <3>2. HistoryInv'
      BY <2>1, <3>1, HistorySeq, HistoryInvAppend
    <3>3. Count' = Count + 1 /\ Contents'[Count + 1] = pdatum
          /\ \A k \in 1 .. Count : Contents'[k] = Contents[k]
      <4>1. Contents \in Seq(Slots) /\ Len(Contents) = Count /\ Count \in Nat
        BY ContentsSeq DEF StartupTypeOK
      <4>2. Len(Contents') = Count'
        BY <1>0, <2>1, <2>2 DEF Contents, Count
      <4>. QED
        BY <3>1, <4>1, <4>2
    <3>4. NothingOwedIsLost'
      <4>1. \A d \in owed : \E k \in 1 .. (Count + 1) : Contents'[k] = d
        <5>. SUFFICES ASSUME NEW d \in owed
                      PROVE  \E k \in 1 .. (Count + 1) : Contents'[k] = d
          OBVIOUS
        <5>1. PICK k \in 1 .. Count : Contents[k] = d
          BY DEF NothingOwedIsLost
        <5>2. Count \in Nat
          BY ContentsSeq DEF StartupTypeOK
        <5>3. k \in 1 .. (Count + 1)
          BY <5>2
        <5>. QED
          BY <3>3, <5>1, <5>3
      <4>2. \E k \in 1 .. (Count + 1) : Contents'[k] = pdatum
        <5>1. Count \in Nat
          BY ContentsSeq DEF StartupTypeOK
        <5>2. Count + 1 \in 1 .. (Count + 1)
          BY <5>1
        <5>. QED
          BY <3>3, <5>2
      <4>3. owed' \subseteq owed \cup {pdatum}
        BY <1>6
      <4>. QED
        BY <3>3, <4>1, <4>2, <4>3 DEF NothingOwedIsLost
    <3>5. head' # tail'
      BY <2>1
    <3>. QED
      BY <1>0, <1>6, <2>1, <3>2, <3>4, <3>5
      DEF NothingPopped, StaleInv, Stale, LateProducerInv
  <2>3. CASE Stale
    <3>1. /\ head' = 0 /\ tail' = ptail + 1 /\ Count' = ptail + 1
          /\ cpc' = "idle" /\ received' = <<>> /\ owed' = {pdatum} /\ boot' = "running"
      BY <1>6, <2>1, <2>3 DEF StaleInv, NothingPopped, Stale, Count
    <3>2. \A k \in 1 .. (ptail + 1) : Wrap(head' + k - 1) = k - 1
      BY <3>1 DEF Wrap
    <3>3. Contents' = [k \in 1 .. (ptail + 1) |-> slot[k - 1]]
      BY <2>1, <3>1, <3>2 DEF Contents, Wrap
    <3>4. History' = Contents'
      <4>1. \A k \in 1 .. (ptail + 1) : slot[k - 1] \in Slots
        BY DEF StartupTypeOK, TypeOK, Indices
      <4>2. Contents' \in Seq(Slots)
        BY <3>3, <4>1
      <4>. QED
        BY <3>1, <4>2, ConcatEmptySeq DEF History
    <3>5. HistoryInv'
      <4>1. \A k \in 1 .. (ptail + 1) : slot[k - 1] \in 1 .. pdatum
        BY <2>1, <2>3 DEF StaleInv
      <4>2. \A k, l \in 1 .. (ptail + 1) : k < l => slot[k - 1] < slot[l - 1]
        BY <2>1, <2>3 DEF StaleInv
      <4>3. Len(History') = ptail + 1
        BY <3>3, <3>4
      <4>. QED
        BY <2>1, <3>3, <3>4, <4>1, <4>2, <4>3 DEF HistoryInv
    <3>6. NothingOwedIsLost'
      BY SMTT(30), <2>1, <3>1, <3>3 DEF NothingOwedIsLost
    <3>. QED
      BY <1>0, <2>1, <3>1, <3>5, <3>6 DEF StaleInv, Stale, LateProducerInv
  <2>. QED
    BY <2>1, <2>2, <2>3 DEF LateProducerInv
<1>7. CASE boot = "running" /\ StartPop /\ UNCHANGED bootVars
  <2>1. /\ cpc = "idle" /\ cpc' \in {"take", "idle"} /\ (cpc' = "take" => head # tail)
        /\ UNCHANGED <<slot, head, tail, ppc, pdatum, ptail, cdatum,
                       boot, arrived, received, owed>>
    BY <1>7 DEF StartPop, producerVars, bootVars
  <2>2. History' = History /\ Contents' = Contents /\ Count' = Count
    BY <2>1, HistoryStutter DEF Count
  <2>3. Stale => cpc' = "idle"
    BY <2>1 DEF StaleInv, NothingPopped
  <2>. QED
    BY <1>0, <1>7, <2>1, <2>2, <2>3
    DEF NothingPopped, StaleInv, Stale, LateProducerInv, HistoryInv, Latest, NothingOwedIsLost
<1>8. CASE boot = "running" /\ Take /\ UNCHANGED bootVars
  <2>1. /\ cpc = "take" /\ cpc' = "release" /\ cdatum' = slot[head] /\ head # tail
        /\ UNCHANGED <<slot, head, tail, ppc, pdatum, ptail, boot, arrived, received, owed>>
    BY <1>8 DEF Take, producerVars, bootVars
  <2>2. History' = History /\ Contents' = Contents /\ Count' = Count
    BY <2>1, HistoryStutter DEF Count
  <2>3. ~Stale
    BY <2>1 DEF StaleInv, NothingPopped
  <2>. QED
    BY <1>0, <1>8, <2>1, <2>2, <2>3
    DEF NothingPopped, StaleInv, Stale, LateProducerInv, HistoryInv, Latest, NothingOwedIsLost
<1>9. CASE /\ boot = "running" /\ Release /\ UNCHANGED <<boot, arrived>>
           /\ received' = Append(received, cdatum) /\ owed' = owed \ {cdatum}
  <2>1. /\ cpc = "release" /\ cpc' = "idle" /\ head' = Succ(head) /\ head # tail
        /\ cdatum = slot[head] /\ boot = "running"
        /\ UNCHANGED <<slot, tail, ppc, pdatum, ptail, boot, arrived>>
    BY <1>9 DEF Release, producerVars
  <2>2. /\ History' = History
        /\ Contents # <<>> /\ Contents[1] = cdatum /\ Contents' = Tail(Contents)
    BY <1>0, <1>9, <2>1, HistoryRelease
  <2>3. ~Stale /\ ~Stale'
    BY <2>1 DEF StaleInv, NothingPopped, Stale
  <2>4. NothingOwedIsLost'
    <3>1. Contents \in Seq(Slots) /\ Len(Contents) = Count /\ Count \in Nat
      BY ContentsSeq DEF StartupTypeOK
    <3>2. Len(Tail(Contents)) = Count - 1
          /\ \A k \in 1 .. (Count - 1) : Tail(Contents)[k] = Contents[k + 1]
      BY <2>2, <3>1, HeadTailProperties
    <3>3. Count' = Count - 1
      BY <2>1 DEF Count
    <3>4. ASSUME NEW d \in owed, d # cdatum
          PROVE  \E k \in 1 .. (Count - 1) : Tail(Contents)[k] = d
      <4>1. PICK k \in 1 .. Count : Contents[k] = d
        BY DEF NothingOwedIsLost
      <4>2. k # 1 /\ k - 1 \in 1 .. (Count - 1)
        BY <2>2, <3>1, <3>4, <4>1
      <4>3. Tail(Contents)[k - 1] = d
        BY <3>2, <4>1, <4>2
      <4>. QED
        BY <4>2, <4>3
    <3>. QED
      BY <1>9, <2>2, <3>3, <3>4 DEF NothingOwedIsLost
  <2>5. ppc \in {"fill", "publish"} => Succ(ptail) # head'
    BY <2>1, <2>3 DEF LateProducerInv
  <2>. QED
    BY <1>0, <2>1, <2>2, <2>3, <2>4, <2>5
    DEF StaleInv, LateProducerInv, HistoryInv, Latest
<1>10. CASE UNCHANGED startupVars
  <2>1. UNCHANGED <<slot, head, tail, ppc, pdatum, ptail, cpc, cdatum,
                    boot, arrived, received, owed>>
    BY <1>10 DEF startupVars, vars, bootVars
  <2>2. History' = History /\ Contents' = Contents /\ Count' = Count
    BY <2>1, HistoryStutter DEF Count
  <2>. QED
    BY <1>0, <2>1, <2>2
    DEF NothingPopped, StaleInv, Stale, LateProducerInv, HistoryInv, Latest, NothingOwedIsLost
<1>. QED
  BY <1>1, <1>2, <1>3, <1>4, <1>5, <1>6, <1>7, <1>8, <1>9, <1>10
  DEF StartupNext, Receive, GuestLoad

\* The invariant holds of every behaviour of the start.
THEOREM StartupInvariant == StartupSpec => []StartupInv
BY StartupInvInit, StartupInvStep, PTL DEF StartupSpec

\* Through the reset of the ring every index stays within it and every
\* variable keeps its type.
THEOREM StartupTypeCorrect == StartupSpec => []StartupTypeOK
<1>1. StartupInv => StartupTypeOK
  BY DEF StartupInv
<1>. QED
  BY <1>1, StartupInvariant, PTL

\* The guest receives characters in the order they were typed, none twice and
\* none that was not typed, wherever the CPU thread's reset of the ring falls.
THEOREM StartupInOrder == StartupSpec => []ReceivedInOrder
<1>1. StartupInv => ReceivedInOrder
  <2>. SUFFICES ASSUME StartupInv PROVE ReceivedInOrder
    OBVIOUS
  <2>1. /\ Len(received) \in Nat /\ Len(Contents) \in Nat
        /\ Len(History) = Len(received) + Len(Contents)
        /\ \A i \in 1 .. Len(received) : History[i] = received[i]
    BY HistorySeq, ContentsSeq DEF StartupInv, StartupTypeOK
  <2>2. Latest \in Int /\ Latest <= arrived /\ arrived \in Nat
    BY Numbers DEF StartupInv, Latest
  <2>3. \A k \in 1 .. Len(received) : received[k] \in 1 .. arrived
    BY <2>1, <2>2 DEF StartupInv, HistoryInv
  <2>4. \A k \in 1 .. (Len(received) - 1) : received[k] < received[k + 1]
    <3>. SUFFICES ASSUME NEW k \in 1 .. (Len(received) - 1)
                  PROVE  received[k] < received[k + 1]
      OBVIOUS
    <3>1. k \in 1 .. Len(received) /\ k + 1 \in 1 .. Len(received) /\ k < k + 1
      BY <2>1
    <3>2. k \in 1 .. Len(History) /\ k + 1 \in 1 .. Len(History)
      BY <2>1, <3>1
    <3>. QED
      BY <2>1, <3>1, <3>2 DEF StartupInv, HistoryInv
  <2>. QED
    BY <2>3, <2>4 DEF ReceivedInOrder
<1>. QED
  BY <1>1, StartupInvariant, PTL

\* A character published after the CPU thread's reset stays in the ring until
\* the guest pops it, even when the store of tail was computed before the reset.
THEOREM StartupLosesNothingOwed == StartupSpec => []NothingOwedIsLost
<1>1. StartupInv => NothingOwedIsLost
  BY DEF StartupInv
<1>. QED
  BY <1>1, StartupInvariant, PTL
=============================================================================
