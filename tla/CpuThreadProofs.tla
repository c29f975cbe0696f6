--------------------------- MODULE CpuThreadProofs ---------------------------
(***************************************************************************)
(* Proofs about CpuThread for every width of a byte that is a multiple of  *)
(* four, every set of RAM addresses, vector table and set of sources.      *)
(***************************************************************************)
EXTENDS CpuThread, SequenceTheorems, TLAPS

\* Quotient and remainder are determined by what they must satisfy.
LEMMA DivMod ==
  ASSUME NEW n \in Nat \ {0}, NEW q \in Nat, NEW r \in 0 .. (n - 1)
  PROVE  (q * n + r) % n = r /\ (q * n + r) \div n = q
OBVIOUS

\* Division leaves a remainder below the divisor.
LEMMA DivModExists ==
  ASSUME NEW n \in Nat \ {0}, NEW a \in Nat
  PROVE  /\ a \div n \in Nat /\ a % n \in 0 .. (n - 1)
         /\ a = (a \div n) * n + (a % n)
OBVIOUS

\* A word is the pair of its bytes, and the pair of two bytes is a word.
LEMMA WordBytes ==
  /\ WordCount \in Nat /\ WordCount >= Radix
  /\ \A w \in Words : High(w) \in Bytes /\ Low(w) \in Bytes /\ Word(High(w), Low(w)) = w
  /\ \A hi, lo \in Bytes : Word(hi, lo) \in Words
<1>. Radix \in Nat /\ Radix >= 4
  BY CpuAssumption
<1>1. WordCount \in Nat /\ WordCount >= Radix
  BY DEF WordCount
<1>2. ASSUME NEW w \in Words
      PROVE  High(w) \in Bytes /\ Low(w) \in Bytes /\ Word(High(w), Low(w)) = w
  <2>. w \in Nat /\ w < Radix * Radix
    BY DEF Words, WordCount
  <2>1. /\ w \div Radix \in Nat /\ w % Radix \in 0 .. (Radix - 1)
        /\ w = (w \div Radix) * Radix + (w % Radix)
    <3>. Radix \in Nat \ {0}
      OBVIOUS
    <3>. QED
      BY DivModExists
  <2>2. w \div Radix < Radix
    BY <2>1
  <2>. QED
    BY <2>1, <2>2 DEF High, Low, Word, Bytes
<1>3. ASSUME NEW hi \in Bytes, NEW lo \in Bytes PROVE Word(hi, lo) \in Words
  <2>1. hi * Radix + lo \in Nat /\ hi * Radix + lo < Radix * Radix
    BY DEF Bytes
  <2>. QED
    BY <2>1 DEF Word, Words, WordCount
<1>. QED
  BY <1>1, <1>2, <1>3

\* The stack pointer wraps around the address space, and only there.
LEMMA Addresses ==
  ASSUME NEW a \in Words, NEW k \in 0 .. 3
  PROVE  /\ Below(a, k) \in Words /\ Above(a, k) \in Words
         /\ k <= a => Below(a, k) = a - k
         /\ a + k \in Words => Above(a, k) = a + k
<1>. a \in Nat /\ a < WordCount /\ WordCount \in Nat /\ WordCount >= 4
  BY WordBytes, CpuAssumption DEF Words
<1>1. (a + WordCount - k) % WordCount = IF k <= a THEN a - k ELSE a + WordCount - k
  OBVIOUS
<1>2. (a + k) % WordCount = IF a + k < WordCount THEN a + k ELSE a + k - WordCount
  OBVIOUS
<1>. QED
  BY <1>1, <1>2 DEF Below, Above, Words

\* The masks of csr[0], case by case.
LEMMA Flags ==
  ASSUME NEW f \in Bytes
  PROVE  /\ ClearI(f) \in Bytes /\ ~IFlag(ClearI(f))
         /\ ClearReserved(f) \in Bytes
         /\ ClearReserved(ClearReserved(f)) = ClearReserved(f)
         /\ IFlag(ClearReserved(f)) <=> IFlag(f)
         /\ ClearReserved(f) = f => ClearReserved(ClearI(f)) = ClearI(f)
<1>. DEFINE h == Radix \div 2
<1>1. Radix = 2 * h /\ h \in Nat /\ h >= 2 /\ h % 2 = 0 /\ f \in 0 .. (2 * h - 1)
  BY CpuAssumption DEF Bytes
<1>. HIDE DEF h
<1>2. \A b : ClearI(b) = b % h /\ (IFlag(b) <=> b >= h)
  BY DEF ClearI, IFlag, h
<1>3. \A b \in 0 .. (2 * h - 1) : b % h = IF b >= h THEN b - h ELSE b
  BY <1>1
<1>4. \A b \in 0 .. (2 * h - 1) : ClearI(b) = IF b >= h THEN b - h ELSE b
  BY <1>2, <1>3
<1>5. \A b \in 0 .. (2 * h - 1) :
        ClearReserved(b) = (IF b >= h THEN h ELSE 0) + (b % 2)
  BY <1>1, <1>4 DEF ClearReserved
<1>6. \A b \in 0 .. (2 * h - 1) : b % 2 \in 0 .. 1 /\ (h + (b % 2)) % 2 = b % 2
  BY <1>1
<1>7. Bytes = 0 .. (2 * h - 1)
  BY <1>1 DEF Bytes
<1>. \A b \in 0 .. (2 * h - 1) : IFlag(b) <=> b >= h
  BY <1>2
<1>8. ClearI(f) \in 0 .. (h - 1) /\ ~IFlag(ClearI(f))
  <2>1. ClearI(f) \in 0 .. (h - 1)
    BY <1>1, <1>4
  <2>2. ClearI(f) \in 0 .. (2 * h - 1) /\ ~(ClearI(f) >= h)
    BY <1>1, <2>1
  <2>. QED
    BY <2>1, <2>2
<1>9. /\ ClearReserved(f) \in 0 .. (2 * h - 1)
      /\ ClearReserved(f) = (IF f >= h THEN h ELSE 0) + (f % 2)
  BY <1>1, <1>5, <1>6
<1>10. ClearReserved(f) >= h <=> f >= h
  BY <1>1, <1>6, <1>9
<1>11. ClearReserved(f) % 2 = f % 2
  BY <1>1, <1>6, <1>9
<1>12. ClearReserved(ClearReserved(f)) = ClearReserved(f)
  BY <1>5, <1>9, <1>10, <1>11
<1>13. ClearReserved(f) = f => ClearReserved(ClearI(f)) = ClearI(f)
  BY <1>1, <1>4, <1>5, <1>6
<1>. QED
  BY <1>1, <1>7, <1>8, <1>9, <1>10, <1>12, <1>13

\* Writes put bytes into RAM, and any address reads as a byte.
LEMMA MemoryTypes ==
  ASSUME TypeOK
  PROVE  /\ \A a : Read(a) \in Bytes
         /\ \A m \in [Ram -> Bytes], b \in Bytes :
              \A a : Written(m, a, b) \in [Ram -> Bytes]
         /\ \A w \in Words : WordPushed(w) \in [Ram -> Bytes]
         /\ \A w \in Words, f \in Bytes : FramePushed(w, f) \in [Ram -> Bytes]
<1>1. \A a : Read(a) \in Bytes
  BY CpuAssumption DEF Read, TypeOK
<1>2. ASSUME NEW m \in [Ram -> Bytes], NEW a, NEW b \in Bytes
      PROVE  Written(m, a, b) \in [Ram -> Bytes]
  BY DEF Written
<1>3. \A w \in Words : WordPushed(w) \in [Ram -> Bytes]
  BY <1>2, WordBytes DEF WordPushed, TypeOK
<1>4. \A w \in Words, f \in Bytes : FramePushed(w, f) \in [Ram -> Bytes]
  BY <1>2, <1>3 DEF FramePushed
<1>. QED
  BY <1>1, <1>2, <1>3, <1>4

\* What is pushed on the stack of frames, and what is left after a pop, are
\* frames.
LEMMA FrameTypes ==
  ASSUME TypeOK
  PROVE  /\ \A p \in Words, f \in Bytes : IntFrame(p, f) \in Frames
         /\ \A p \in Words : CallFrame(p) \in Frames
         /\ \A b \in Bytes : ByteFrame(b) \in Frames
         /\ \A x \in Frames : Push(x) => frames' \in Seq(Frames)
         /\ \A k : OnTop(k) /\ Pop => frames' \in Seq(Frames)
<1>1. /\ \A p \in Words, f \in Bytes : IntFrame(p, f) \in Frames
      /\ \A p \in Words : CallFrame(p) \in Frames
      /\ \A b \in Bytes : ByteFrame(b) \in Frames
  BY DEF IntFrame, CallFrame, ByteFrame, Frames
<1>2. frames \in Seq(Frames)
  BY DEF TypeOK
<1>3. \A x \in Frames : Push(x) => frames' \in Seq(Frames)
  BY <1>2 DEF Push
<1>4. ASSUME NEW k, OnTop(k), Pop PROVE frames' \in Seq(Frames)
  <2>1. Len(frames) \in Nat /\ \A i \in 1 .. (Len(frames) - 1) : frames[i] \in Frames
    BY <1>2
  <2>2. SubSeq(frames, 1, Len(frames) - 1) \in Seq(Frames)
    BY <2>1, SubSeqProperties
  <2>. QED
    BY <1>4, <2>2 DEF Pop
<1>. QED
  BY <1>1, <1>3, <1>4

\* The machine starts in range, with nothing on the stack of frames.
LEMMA TypeInit == Init => TypeOK
<1>. SUFFICES ASSUME Init PROVE TypeOK
  OBVIOUS
<1>1. 0 \in Bytes /\ 0 \in Words /\ ClearReserved(0) = 0
  <2>. Radix \in Nat /\ Radix >= 4 /\ 0 \in Bytes /\ 0 \in Words
    BY CpuAssumption, WordBytes DEF Bytes, Words
  <2>1. Radix \div 2 \in Nat /\ Radix \div 2 >= 2
    OBVIOUS
  <2>2. 0 % (Radix \div 2) = 0
    BY <2>1
  <2>. QED
    BY <2>2 DEF ClearReserved, ClearI
<1>. QED
  <2>1. 0 \in 0 .. (PollEvery - 1) /\ 0 \in 0 .. RingCapacity
    BY CpuAssumption
  <2>2. mem \in [Ram -> Bytes] /\ queued \in [Rings -> 0 .. RingCapacity]
    BY <1>1, <2>1 DEF Init
  <2>3. csr0 \in {f \in Bytes : ClearReserved(f) = f} /\ pc \in Words /\ sp \in Words
    BY <1>1 DEF Init
  <2>4. frames \in Seq(Frames)
    BY DEF Init
  <2>. QED
    BY <2>1, <2>2, <2>3, <2>4 DEF Init, TypeOK

\* Every step of the CPU thread and of the main thread keeps the types.
LEMMA TypeStep ==
  ASSUME TypeOK, [Next]_vars
  PROVE  TypeOK'
<1>. DEFINE Clean == {f \in Bytes : ClearReserved(f) = f}
<1>1. /\ \A f \in Bytes : ClearReserved(f) \in Clean /\ ClearI(f) \in Bytes
      /\ \A f \in Clean : ClearReserved(ClearI(f)) = ClearI(f)
  BY Flags
<1>2. Following \in Words
  BY Addresses DEF Following, TypeOK
<1>3. \A k \in 0 .. 3 : Below(sp, k) \in Words /\ Above(sp, k) \in Words
  BY Addresses DEF TypeOK
<1>4. NextTurn => phase = "execute" /\ phase' = "top" /\ loop' \in 0 .. (PollEvery - 1)
  BY CpuAssumption DEF NextTurn, TypeOK
<1>5. Code \subseteq Words
  BY CpuAssumption, WordBytes DEF Code, Words
<1>. HIDE DEF Clean
<1>6. ASSUME NEW s \in Sources, Dispatch(s) PROVE TypeOK'
  <2>1. csr0 \in Clean /\ csr0 \in Bytes /\ pc \in Words
    BY <1>6 DEF Dispatch, TypeOK, Clean
  <2>2. mem' \in [Ram -> Bytes] /\ Vector[Ids[s]] \in Words
    BY <1>6, <2>1, MemoryTypes, CpuAssumption DEF Dispatch
  <2>3. frames' \in Seq(Frames)
    BY <1>6, <2>1, FrameTypes DEF Dispatch, TypeOK
  <2>4. csr0' \in Clean /\ sp' \in Words /\ pc' \in Words
    <3>1. ClearI(csr0) \in Bytes /\ ClearReserved(ClearI(csr0)) = ClearI(csr0)
      BY <1>1, <2>1
    <3>. QED
      BY <1>3, <1>6, <2>2, <3>1 DEF Dispatch, Clean
  <2>5. phase' = "execute" /\ wait' = FALSE /\ timerDue' \in BOOLEAN
        /\ UNCHANGED <<running, loop, enabled, queued, stackSet>>
    BY <1>6 DEF Dispatch
  <2>. QED
    BY <2>2, <2>3, <2>4, <2>5 DEF TypeOK, Clean
<1>. DEFINE Retired == /\ csr0' \in Clean /\ phase' = "top"
                       /\ loop' \in 0 .. (PollEvery - 1)
<1>7. \A f \in Bytes : Retire(f) => Retired
  BY <1>1, <1>4 DEF Retire
<1>8. Instruction => phase = "execute" /\ csr0 \in Clean /\ csr0 \in Bytes
  BY DEF Instruction, Plain, Branch, MovFlags, MovSp, PushReg, PopReg, BranchLink,
         Ret, Reti, Wfi, Swi, StoreControl, LoadData, Retire, NextTurn, TypeOK, Clean
<1>9. \A f \in SoftFlags : f \in Bytes
  BY DEF SoftFlags
<1>. HIDE DEF Retired
<1>. DEFINE Kept == UNCHANGED <<running, enabled, queued, timerDue>>
<1>10. CASE Plain
  BY <1>2, <1>7, <1>9, <1>10 DEF Plain, Retired, TypeOK, Clean, devices
<1>11. CASE Branch /\ csr0 \in Bytes
  BY <1>5, <1>7, <1>11 DEF Branch, Retired, TypeOK, Clean, devices
<1>12. CASE MovFlags
  BY <1>2, <1>7, <1>12 DEF MovFlags, Retired, TypeOK, Clean, devices
<1>13. CASE MovSp /\ csr0 \in Bytes
  <2>1. sp' \in Words
    <3>1. PICK b \in Bytes : sp' \in {Word(b, Low(sp)), Word(High(sp), b)}
      BY <1>13 DEF MovSp
    <3>2. Low(sp) \in Bytes /\ High(sp) \in Bytes
      BY WordBytes DEF TypeOK
    <3>. QED
      BY <3>1, <3>2, WordBytes
  <2>2. stackSet' \in BOOLEAN
    BY <1>13 DEF MovSp
  <2>. QED
    BY <1>2, <1>7, <1>13, <2>1, <2>2 DEF MovSp, Retired, TypeOK, Clean, devices
<1>14. CASE PushReg /\ csr0 \in Bytes
  <2>1. PICK b \in RegValues : mem' = Written(mem, sp, b) /\ Push(ByteFrame(b))
    BY <1>14 DEF PushReg
  <2>2. b \in Bytes /\ mem' \in [Ram -> Bytes]
    <3>1. b \in Bytes
      BY CpuAssumption
    <3>2. mem \in [Ram -> Bytes]
      BY DEF TypeOK
    <3>. QED
      BY <2>1, <3>1, <3>2, MemoryTypes
  <2>3. frames' \in Seq(Frames)
    BY <2>1, <2>2, FrameTypes
  <2>. QED
    BY <1>2, <1>3, <1>7, <1>14, <2>2, <2>3 DEF PushReg, Retired, TypeOK, Clean, devices
<1>15. CASE PopReg
  <2>1. frames' \in Seq(Frames)
    BY <1>15, FrameTypes DEF PopReg
  <2>. QED
    BY <1>2, <1>3, <1>7, <1>9, <1>15, <2>1 DEF PopReg, Retired, TypeOK, Clean, devices
<1>16. CASE BranchLink /\ csr0 \in Bytes
  <2>1. frames' \in Seq(Frames) /\ mem' \in [Ram -> Bytes]
    BY <1>2, <1>16, FrameTypes, MemoryTypes DEF BranchLink
  <2>. QED
    BY <1>3, <1>5, <1>7, <1>16, <2>1 DEF BranchLink, Retired, TypeOK, Clean, devices
<1>17. CASE Ret /\ csr0 \in Bytes
  <2>1. frames' \in Seq(Frames) /\ pc' \in Words
    BY <1>17, FrameTypes, MemoryTypes, WordBytes DEF Ret
  <2>. QED
    BY <1>3, <1>7, <1>17, <2>1 DEF Ret, Retired, TypeOK, Clean, devices
<1>18. CASE Reti
  <2>1. frames' \in Seq(Frames) /\ pc' \in Words /\ Retired
    BY <1>7, <1>18, FrameTypes, MemoryTypes, WordBytes DEF Reti
  <2>. QED
    BY <1>3, <1>18, <2>1 DEF Reti, Retired, TypeOK, Clean, devices
<1>19. CASE Wfi /\ csr0 \in Bytes
  BY <1>2, <1>7, <1>19 DEF Wfi, Retired, TypeOK, Clean, devices
<1>20. ASSUME NEW id \in SwiIds, Swi(id), csr0 \in Bytes PROVE TypeOK'
  <2>1. frames' \in Seq(Frames) /\ mem' \in [Ram -> Bytes] /\ Vector[id] \in Words
    BY <1>2, <1>20, FrameTypes, MemoryTypes, CpuAssumption DEF Swi
  <2>2. Retired /\ running' \in BOOLEAN
    BY <1>1, <1>7, <1>20 DEF Swi
  <2>. QED
    BY <1>3, <1>20, <2>1, <2>2 DEF Swi, Retired, TypeOK, Clean, devices
<1>21. CASE StoreControl /\ csr0 \in Bytes
  <2>1. enabled' \subseteq Sources /\ Retired
    BY <1>7, <1>21 DEF StoreControl
  <2>. QED
    BY <1>2, <1>21, <2>1 DEF StoreControl, Retired, TypeOK, Clean
<1>22. ASSUME NEW r \in Rings \cap Sources, LoadData(r) PROVE TypeOK'
  <2>1. queued' \in [Rings -> 0 .. RingCapacity] /\ Retired
    BY <1>7, <1>9, <1>22, CpuAssumption DEF LoadData, TypeOK
  <2>. QED
    BY <1>2, <1>22, <2>1 DEF LoadData, Retired, TypeOK, Clean
<1>23. CASE Instruction
  BY <1>8, <1>10, <1>11, <1>12, <1>13, <1>14, <1>15, <1>16, <1>17, <1>18, <1>19,
     <1>20, <1>21, <1>22, <1>23 DEF Instruction
<1>24. CASE Sleep
  BY <1>4, <1>24 DEF Sleep, TypeOK, Clean, machine, devices
<1>25. CASE Illegal
  <2>1. mem' \in [Ram -> Bytes] /\ IllegalPc \in Words
    BY <1>2, <1>25, MemoryTypes, CpuAssumption DEF Illegal, TypeOK
  <2>. QED
    <3>1. /\ phase' = "done" /\ running' = FALSE /\ sp' \in Words /\ pc' \in Words
          /\ UNCHANGED <<loop, wait, enabled, queued, timerDue, frames, stackSet>>
      BY <1>3, <1>25, <2>1 DEF Illegal, devices
    <3>. QED
      BY <2>1, <3>1 DEF TypeOK
<1>26. CASE Exit \/ NoDispatch \/ TimerElapses \/ Stop \/ UNCHANGED vars
  BY <1>26 DEF Exit, NoDispatch, TimerElapses, Stop, TypeOK, vars, machine, devices
<1>27. ASSUME NEW r \in Rings \cap Sources, Input(r) PROVE TypeOK'
  <2>1. queued' \in [Rings -> 0 .. RingCapacity]
    BY <1>27, CpuAssumption DEF Input, TypeOK
  <2>. QED
    BY <1>27, <2>1 DEF Input, TypeOK, machine
<1>. QED
  BY <1>6, <1>23, <1>24, <1>25, <1>26, <1>27 DEF Next, CpuStep, Execute

\* Whatever the guest program, the inputs and the moments at which they come,
\* the machine stays in range and no reserved bit of csr[0] outlives the
\* instruction that set it (csr[0] &= 0x8F at the end of decode_execute).
THEOREM CpuTypeCorrect == Spec => []TypeOK
BY TypeInit, TypeStep, PTL DEF Spec

\* A guest that parks with interrupts shut out stays parked, and neither its
\* registers nor its memory change, until the machine is stopped (the wait loop
\* of cpu_thread_worker).
THEOREM CpuDeafParkLasts == Spec => DeafParkLasts
<1>1. [Next]_vars => [(wait /\ ~IFlag(csr0)) => (wait' /\ UNCHANGED machine)]_vars
  <2>. SUFFICES ASSUME Next, wait, ~IFlag(csr0) PROVE wait' /\ UNCHANGED machine
    OBVIOUS
  <2>1. ~Instruction /\ ~Illegal /\ \A s \in Sources : ~Dispatch(s)
    BY DEF Instruction, Plain, Branch, MovFlags, MovSp, PushReg, PopReg, BranchLink,
           Ret, Reti, Wfi, Swi, StoreControl, LoadData, Retire, Illegal, Dispatch,
           MayDispatch
  <2>2. CASE Exit \/ NoDispatch \/ Sleep \/ TimerElapses \/ Stop
    BY <2>2 DEF Exit, NoDispatch, Sleep, TimerElapses, Stop
  <2>3. CASE \E r \in Rings \cap Sources : Input(r)
    BY <2>3 DEF Input
  <2>. QED
    BY <2>1, <2>2, <2>3 DEF Next, CpuStep, Execute
<1>. QED
  BY <1>1, PTL DEF Spec, DeafParkLasts
-----------------------------------------------------------------------------
(* Refinement: the stack in memory is the stack of frames of ControlStack. *)

\* A write to RAM changes the byte it names and no other.
LEMMA WrittenBytes ==
  ASSUME NEW m \in [Ram -> Bytes], NEW a \in Ram, NEW b \in Bytes
  PROVE  /\ Written(m, a, b) \in [Ram -> Bytes]
         /\ Written(m, a, b)[a] = b
         /\ \A x \in Ram : x # a => Written(m, a, b)[x] = m[x]
BY DEF Written

\* The stack of a trusted guest lies in RAM and far from address 0: its
\* pointer does not wrap.
LEMMA StackSpace ==
  ASSUME TypeOK, Trusted, NEW at \in Depths, StackHolds(at)
  PROVE  /\ at[Len(frames) + 1] \in 0 .. StackRoom /\ StackRoom \in Nat /\ StackTop \in Nat
         /\ sp \in Nat /\ sp >= 3 /\ sp = StackTop - at[Len(frames) + 1]
         /\ \A k \in 0 .. 3 : Below(sp, k) = sp - k
         /\ \A k \in 0 .. 3 : sp + k <= StackTop => Above(sp, k) = sp + k
         /\ \A a \in Nat : a <= StackTop /\ a > StackTop - StackRoom => a \in Ram
<1>1. StackRoom \in Nat /\ StackTop \in Words /\ StackRoom + 3 <= StackTop
  BY CpuAssumption
<1>2. StackTop \in Nat /\ WordCount \in Nat /\ \A a \in Nat : a <= StackTop => a \in Words
  BY <1>1, WordBytes DEF Words
<1>3. frames \in Seq(Frames) /\ Len(frames) \in Nat
  BY DEF TypeOK
<1>4. at[Len(frames) + 1] \in 0 .. StackRoom /\ sp = StackTop - at[Len(frames) + 1]
  BY <1>3 DEF Depths, StackHolds
<1>5. sp \in Words /\ sp \in Nat /\ sp >= 3 /\ sp <= StackTop
  BY SMTT(30), <1>1, <1>2, <1>4 DEF TypeOK
<1>6. \A k \in 0 .. 3 : Below(sp, k) = sp - k
  BY <1>5, Addresses
<1>7. \A k \in 0 .. 3 : sp + k <= StackTop => Above(sp, k) = sp + k
  BY <1>2, <1>5, Addresses
<1>8. ASSUME NEW a \in Nat, a <= StackTop, a > StackTop - StackRoom PROVE a \in Ram
  <2>1. StackTop - a \in 0 .. (StackRoom - 1) /\ StackTop - (StackTop - a) = a
    BY <1>1, <1>2, <1>8
  <2>2. \A k \in 0 .. (StackRoom - 1) : StackTop - k \in Ram
    BY CpuAssumption
  <2>. QED
    BY <2>1, <2>2
<1>. QED
  BY <1>1, <1>2, <1>4, <1>5, <1>6, <1>7, <1>8

\* A frame of each kind has its size.
LEMMA FrameSizes ==
  /\ \A p, f : IntFrame(p, f).kind = "interrupt" /\ Size(IntFrame(p, f)) = 3
  /\ \A p : CallFrame(p).kind = "call" /\ Size(CallFrame(p)) = 2
  /\ \A b : ByteFrame(b).kind = "byte" /\ Size(ByteFrame(b)) = 1
  /\ \A x \in Frames : Size(x) \in 1 .. 3
BY DEF IntFrame, CallFrame, ByteFrame, Size

\* A frame written below the last one, within the room, leaves the others as
\* they were and is in memory itself.
LEMMA FramePushes ==
  ASSUME TypeOK, Trusted, NEW at \in Depths, StackHolds(at),
         NEW x \in Frames, frames' = Append(frames, x), sp' = sp - Size(x),
         at[Len(frames) + 1] + Size(x) <= StackRoom,
         IFlag(csr0') => at[Len(frames) + 1] + Size(x) + 3 <= StackRoom,
         \A a \in Ram : a > sp => mem'[a] = mem[a],
         Holds(mem', sp, x)
  PROVE  \E new \in Depths' : StackHolds(new)'
<1>. DEFINE n == Len(frames)
            new == [i \in 1 .. (n + 2) |-> IF i = n + 2 THEN at[n + 1] + Size(x) ELSE at[i]]
<1>0. /\ at[n + 1] \in 0 .. StackRoom /\ StackRoom \in Nat /\ StackTop \in Nat
      /\ sp \in Nat /\ sp = StackTop - at[n + 1]
  BY StackSpace
<1>1. /\ frames \in Seq(Frames) /\ n \in Nat /\ Len(frames') = n + 1
      /\ frames'[n + 1] = x /\ \A i \in 1 .. n : frames'[i] = frames[i] /\ frames[i] \in Frames
  BY DEF TypeOK
<1>2. /\ \A i \in 1 .. (n + 1) : at[i] \in 0 .. StackRoom
      /\ at[n + 1] + Size(x) \in 0 .. StackRoom
      /\ Size(x) \in 1 .. 3 /\ StackRoom \in Nat
  <2>1. \A i \in 1 .. (n + 1) : at[i] \in 0 .. StackRoom
    BY DEF Depths
  <2>2. Size(x) \in 1 .. 3
    BY FrameSizes
  <2>3. at[n + 1] + Size(x) \in 0 .. StackRoom
    <3>1. at[n + 1] \in 0 .. StackRoom /\ StackRoom \in Nat
      BY <1>0
    <3>. QED
      BY SMTT(30), <2>2, <3>1
  <2>. QED
    BY <1>0, <2>1, <2>2, <2>3
<1>3. /\ \A i \in 1 .. (n + 1) : new[i] = at[i]
      /\ new[n + 2] = at[n + 1] + Size(x)
  BY <1>1
<1>4. new \in Depths'
  BY <1>1, <1>2 DEF Depths
<1>. HIDE DEF new
<1>5. Layout(new, frames')
  <2>1. new[1] = 0
    BY <1>1, <1>3 DEF StackHolds, Layout
  <2>2. \A i \in 1 .. (n + 1) : new[i + 1] = new[i] + Size(frames'[i])
    BY <1>1, <1>3 DEF StackHolds, Layout
  <2>3. \A i, j \in 1 .. (n + 2) : i <= j => new[i] <= new[j]
    <3>. SUFFICES ASSUME NEW i \in 1 .. (n + 2), NEW j \in 1 .. (n + 2), i <= j
                  PROVE  new[i] <= new[j]
      OBVIOUS
    <3>1. CASE j = n + 2 /\ i # n + 2
      <4>1. at[i] <= at[n + 1]
        BY SMTT(30), <1>1, <3>1 DEF StackHolds, Layout
      <4>. QED
        BY SMTT(30), <1>1, <1>2, <1>3, <3>1, <4>1
    <3>2. CASE j # n + 2
      <4>1. i \in 1 .. (n + 1) /\ j \in 1 .. (n + 1)
        BY <1>1, <3>2
      <4>. QED
        BY <1>3, <4>1 DEF StackHolds, Layout
    <3>3. CASE i = n + 2
      BY <1>1, <1>2, <1>3, <3>3
    <3>. QED
      BY <3>1, <3>2, <3>3
  <2>. QED
    BY <1>1, <2>1, <2>2, <2>3 DEF Layout
<1>6. ASSUME NEW i \in 1 .. n PROVE Holds(mem', StackTop - at[i], frames[i])
  <2>1. /\ Holds(mem, StackTop - at[i], frames[i]) /\ frames[i] \in Frames
        /\ at[i + 1] = at[i] + Size(frames[i]) /\ at[i + 1] <= at[n + 1]
        /\ at[i] \in 0 .. StackRoom /\ at[i + 1] \in 0 .. StackRoom
        /\ at[n + 1] \in 0 .. StackRoom
    BY SMTT(30), <1>1, <1>2 DEF StackHolds, Layout
  <2>2. \A k \in 0 .. 2 : k < Size(frames[i]) =>
          mem'[StackTop - at[i] - k] = mem[StackTop - at[i] - k]
    <3>. SUFFICES ASSUME NEW k \in 0 .. 2, k < Size(frames[i])
                  PROVE  mem'[StackTop - at[i] - k] = mem[StackTop - at[i] - k]
      OBVIOUS
    <3>1. StackTop - at[i] - k > sp
      <4>. DEFINE a == at[i]
                  z == Size(frames[i])
                  e == at[n + 1]
      <4>1. z \in 1 .. 3 /\ k < z
        BY <2>1, FrameSizes
      <4>2. a \in Nat /\ e \in Nat /\ a + z <= e
        BY <2>1
      <4>3. StackTop \in Nat /\ sp = StackTop - e
        BY <1>0
      <4>. HIDE DEF a, z, e
      <4>4. StackTop - a - k > sp
        BY <4>1, <4>2, <4>3
      <4>. QED
        BY <4>4 DEF a
    <3>2. StackTop - at[i] - k \in Ram
      <4>. DEFINE a == at[i]
                  q == StackTop - a - k
                  e == at[n + 1]
      <4>1. /\ StackTop \in Nat /\ StackRoom \in Nat /\ sp = StackTop - e
            /\ sp \in Nat
        BY <1>0
      <4>2. a \in Nat /\ e \in 0 .. StackRoom
        BY <2>1
      <4>3. q > sp
        BY <3>1 DEF q, a
      <4>. HIDE DEF a, e
      <4>4. q \in Int /\ q <= StackTop
        BY <4>1, <4>2 DEF q
      <4>. HIDE DEF q
      <4>5. q > StackTop - StackRoom /\ q \in Nat
        BY <4>1, <4>2, <4>3, <4>4
      <4>6. q \in Ram
        BY <4>4, <4>5, StackSpace
      <4>. QED
        BY <4>6 DEF q, a
    <3>. QED
      BY <3>1, <3>2
  <2>3. /\ frames[i].kind = "byte" => Size(frames[i]) = 1
        /\ frames[i].kind = "call" => Size(frames[i]) = 2
        /\ frames[i].kind \notin {"byte", "call"} => Size(frames[i]) = 3
        /\ frames[i].kind \in {"byte", "call", "interrupt"}
    BY <2>1 DEF Size, Frames
  <2>4. StackTop - at[i] - 0 = StackTop - at[i]
    BY <1>0, <2>1
  <2>. QED
    BY SMTT(30), <2>1, <2>2, <2>3, <2>4 DEF Holds
<1>7. sp' = StackTop - new[Len(frames') + 1]
  <2>1. n + 2 = Len(frames') + 1 /\ sp' = sp - Size(x)
    BY <1>1
  <2>. QED
    <3>1. StackTop \in Nat /\ at[n + 1] \in Nat /\ Size(x) \in Nat
      BY SMTT(30), <1>0, <1>2
    <3>2. (StackTop - at[n + 1]) - Size(x) = StackTop - (at[n + 1] + Size(x))
      BY <3>1
    <3>3. sp = StackTop - at[n + 1]
      BY <1>0
    <3>. QED
      BY <1>3, <2>1, <3>2, <3>3
<1>8. \A i \in 1 .. Len(frames') : Holds(mem', StackTop - new[i], frames'[i])
  <2>1. ASSUME NEW i \in 1 .. n PROVE Holds(mem', StackTop - new[i], frames'[i])
    <3>1. new[i] = at[i] /\ frames'[i] = frames[i]
      BY <1>1, <1>3
    <3>. QED
      BY <1>6, <3>1
  <2>2. Holds(mem', StackTop - new[n + 1], frames'[n + 1])
    <3>1. new[n + 1] = at[n + 1] /\ frames'[n + 1] = x
      BY <1>1, <1>3
    <3>. QED
      BY <1>0, <3>1
  <2>. QED
    BY <1>1, <2>1, <2>2
<1>. QED
  BY <1>1, <1>3, <1>4, <1>5, <1>7, <1>8 DEF StackHolds

\* Where the latest frame lies, counted from the stack pointer.
LEMMA TopOfStack ==
  ASSUME TypeOK, Trusted, NEW at \in Depths, StackHolds(at), frames # <<>>
  PROVE  LET n == Len(frames)
             x == frames[n]
         IN  /\ n \in Nat \ {0} /\ x \in Frames /\ at[n] \in 0 .. StackRoom
             /\ sp + Size(x) = StackTop - at[n]
             /\ Holds(mem, sp + Size(x), x)
             /\ \A k \in 1 .. Size(x) : Above(sp, k) = sp + k /\ Read(sp + k) = mem[sp + k]
<1>. DEFINE n == Len(frames)
            x == frames[n]
<1>1. n \in Nat \ {0} /\ x \in Frames
  BY DEF TypeOK
<1>. n \in 1 .. n
  BY <1>1
<1>2. Size(x) \in 1 .. 3
  BY <1>1, FrameSizes
<1>3. /\ at[n] \in 0 .. StackRoom /\ at[n + 1] \in 0 .. StackRoom
      /\ at[n + 1] = at[n] + Size(x)
  BY <1>1 DEF Depths, StackHolds, Layout
<1>4. /\ StackTop \in Nat /\ StackRoom \in Nat /\ sp \in Nat /\ sp = StackTop - at[n + 1]
  BY StackSpace
<1>5. sp + Size(x) = StackTop - at[n]
  BY SMTT(30), <1>2, <1>3, <1>4
<1>6. Holds(mem, StackTop - at[n], x)
  BY DEF StackHolds
<1>7. ASSUME NEW k \in 1 .. Size(x) PROVE Above(sp, k) = sp + k /\ Read(sp + k) = mem[sp + k]
  <2>1. k \in 0 .. 3 /\ sp + k \in Nat /\ sp + k <= StackTop
    <3>1. k \in 0 .. 3 /\ sp + k \in Nat /\ sp + k <= sp + Size(x)
      BY <1>2, <1>4
    <3>2. StackTop - at[n] <= StackTop
      BY <1>3, <1>4
    <3>. QED
      BY SMTT(30), <1>2, <1>4, <1>5, <3>1, <3>2
  <2>2. sp + k > StackTop - StackRoom
    BY SMTT(30), <1>3, <1>4
  <2>3. sp + k \in Ram /\ Above(sp, k) = sp + k
    BY <2>1, <2>2, StackSpace
  <2>. QED
    BY <2>3 DEF Read
<1>. QED
  BY <1>1, <1>3, <1>5, <1>6, <1>7

\* RETI and RET find the words and the flags that were saved.
LEMMA FrameRead ==
  ASSUME TypeOK, Trusted, NEW at \in Depths, StackHolds(at), frames # <<>>
  PROVE  LET x == frames[Len(frames)]
         IN  /\ x.kind = "call" =>
                   /\ Word(Read(Above(sp, 2)), Read(Above(sp, 1))) = x.pc
                   /\ Above(sp, 2) = sp + Size(x)
             /\ x.kind = "interrupt" =>
                   /\ Word(Read(Above(sp, 3)), Read(Above(sp, 2))) = x.pc
                   /\ Read(Above(sp, 1)) = x.flags
                   /\ Above(sp, 3) = sp + Size(x)
             /\ x.kind = "byte" => Above(sp, 1) = sp + Size(x)
<1>. DEFINE n == Len(frames)
            x == frames[n]
<1>1. /\ x \in Frames /\ Holds(mem, sp + Size(x), x)
      /\ \A k \in 1 .. Size(x) : Above(sp, k) = sp + k /\ Read(sp + k) = mem[sp + k]
  BY TopOfStack
<1>2. sp \in Nat
  BY StackSpace
<1>. HIDE DEF x
<1>3. CASE x.kind = "call"
  <2>1. Size(x) = 2 /\ x.pc \in Words
    BY <1>1, <1>3 DEF Size, Frames
  <2>2. /\ Above(sp, 1) = sp + 1 /\ Read(sp + 1) = mem[sp + 1]
        /\ Above(sp, 2) = sp + 2 /\ Read(sp + 2) = mem[sp + 2]
    BY <1>1, <2>1
  <2>3. mem[sp + 2] = High(x.pc) /\ mem[sp + 1] = Low(x.pc)
    <3>1. sp + 2 - 1 = sp + 1
      BY <1>2
    <3>2. Holds(mem, sp + 2, x)
      BY <1>1, <2>1
    <3>3. mem[sp + 2] = High(x.pc) /\ mem[sp + 2 - 1] = Low(x.pc)
      BY <1>2, <1>3, <3>2 DEF Holds
    <3>. QED
      BY <3>1, <3>3
  <2>. QED
    BY <1>3, <2>1, <2>2, <2>3, WordBytes DEF x
<1>4. CASE x.kind = "interrupt"
  <2>1. Size(x) = 3 /\ x.pc \in Words
    BY <1>1, <1>4 DEF Size, Frames
  <2>2. /\ Above(sp, 1) = sp + 1 /\ Read(sp + 1) = mem[sp + 1]
        /\ Above(sp, 2) = sp + 2 /\ Read(sp + 2) = mem[sp + 2]
        /\ Above(sp, 3) = sp + 3 /\ Read(sp + 3) = mem[sp + 3]
    BY <1>1, <2>1
  <2>3. mem[sp + 3] = High(x.pc) /\ mem[sp + 2] = Low(x.pc) /\ mem[sp + 1] = x.flags
    <3>1. sp + 3 - 1 = sp + 2 /\ sp + 3 - 2 = sp + 1
      BY <1>2
    <3>2. Holds(mem, sp + 3, x)
      BY <1>1, <2>1
    <3>3. /\ mem[sp + 3] = High(x.pc) /\ mem[sp + 3 - 1] = Low(x.pc)
          /\ mem[sp + 3 - 2] = x.flags
      BY <1>2, <1>4, <3>2 DEF Holds
    <3>. QED
      BY <3>1, <3>3
  <2>. QED
    BY <1>4, <2>1, <2>2, <2>3, WordBytes DEF x
<1>5. CASE x.kind = "byte"
  BY <1>1, <1>5 DEF Size, x
<1>6. x.kind \in {"call", "interrupt", "byte"}
  BY <1>1 DEF Frames
<1>. QED
  BY <1>3, <1>4, <1>5, <1>6 DEF x

\* All but the last element of a sequence.
LEMMA ShorterSeq ==
  ASSUME NEW S, NEW s \in Seq(S), s # <<>>
  PROVE  LET n == Len(s)
             t == SubSeq(s, 1, n - 1)
         IN  t \in Seq(S) /\ Len(t) = n - 1 /\ \A i \in 1 .. (n - 1) : t[i] = s[i]
<1>. DEFINE n == Len(s)
<1>1. n \in Nat \ {0} /\ \A i \in 1 .. (n - 1) : s[i] \in S /\ 1 + i - 1 = i
  OBVIOUS
<1>2. 1 \in Int /\ n - 1 \in Int /\ (n - 1) - 1 + 1 = n - 1
  BY <1>1
<1>3. \A i \in 1 .. (n - 1) - 1 + 1 : SubSeq(s, 1, n - 1)[i] = s[1 + i - 1]
  BY <1>1, <1>2, SubSeqProperties
<1>4. Len(SubSeq(s, 1, n - 1)) = n - 1 /\ SubSeq(s, 1, n - 1) \in Seq(S)
  BY <1>1, <1>2, SubSeqProperties
<1>. QED
  BY <1>1, <1>2, <1>3, <1>4

\* When the latest frame is popped, the others stay where they are.
LEMMA FramePops ==
  ASSUME TypeOK, Trusted, NEW at \in Depths, StackHolds(at), frames # <<>>,
         frames' = SubSeq(frames, 1, Len(frames) - 1), mem' = mem,
         sp' = sp + Size(frames[Len(frames)]),
         IFlag(csr0') => at[Len(frames)] + 3 <= StackRoom
  PROVE  \E new \in Depths' : StackHolds(new)'
<1>. DEFINE n == Len(frames)
            new == [i \in 1 .. n |-> at[i]]
<1>1. /\ frames \in Seq(Frames) /\ n \in Nat \ {0} /\ Len(frames') = n - 1
      /\ \A i \in 1 .. (n - 1) : frames'[i] = frames[i]
  <2>1. frames \in Seq(Frames) /\ n \in Nat \ {0}
    BY DEF TypeOK
  <2>. QED
    BY <2>1, ShorterSeq
<1>2. \A i \in 1 .. (n + 1) : at[i] \in 0 .. StackRoom
  BY DEF Depths
<1>3. sp' = StackTop - at[n]
  BY TopOfStack
<1>4. new \in Depths'
  BY <1>1, <1>2 DEF Depths
<1>5. \A i \in 1 .. n : new[i] = at[i]
  OBVIOUS
<1>. HIDE DEF new
<1>6. Layout(new, frames')
  <2>1. new[1] = 0
    BY SMTT(30), <1>1, <1>5 DEF StackHolds, Layout
  <2>2. \A i \in 1 .. (n - 1) : new[i + 1] = new[i] + Size(frames'[i])
    BY <1>1, <1>5 DEF StackHolds, Layout
  <2>3. \A i, j \in 1 .. n : i <= j => new[i] <= new[j]
    <3>. SUFFICES ASSUME NEW i \in 1 .. n, NEW j \in 1 .. n, i <= j
                  PROVE  new[i] <= new[j]
      OBVIOUS
    <3>1. i \in 1 .. (n + 1) /\ j \in 1 .. (n + 1)
      BY <1>1
    <3>2. at[i] <= at[j]
      BY <3>1 DEF StackHolds, Layout
    <3>. QED
      BY <1>5, <3>2
  <2>. QED
    BY <1>1, <2>1, <2>2, <2>3 DEF Layout
<1>7. \A i \in 1 .. Len(frames') : Holds(mem', StackTop - new[i], frames'[i])
  <2>. SUFFICES ASSUME NEW i \in 1 .. (n - 1)
                PROVE  Holds(mem', StackTop - new[i], frames'[i])
    BY <1>1
  <2>1. i \in 1 .. n /\ new[i] = at[i] /\ frames'[i] = frames[i]
    BY <1>1, <1>5
  <2>2. Holds(mem, StackTop - at[i], frames[i])
    BY <2>1 DEF StackHolds
  <2>. QED
    BY <2>1, <2>2
<1>8. new[Len(frames') + 1] = at[n]
  BY <1>1, <1>5
<1>. QED
  BY <1>3, <1>4, <1>6, <1>7, <1>8 DEF StackHolds

\* A stack that is not touched holds what it held.
LEMMA StackKept ==
  ASSUME NEW at \in Depths, StackHolds(at), UNCHANGED <<frames, mem, sp>>,
         IFlag(csr0') => at[Len(frames) + 1] + 3 <= StackRoom
  PROVE  at \in Depths' /\ StackHolds(at)'
BY DEF Depths, StackHolds

\* push_word leaves a call frame in memory, and nothing above it changes.
LEMMA WordIsPushed ==
  ASSUME TypeOK, Trusted, NEW at \in Depths, StackHolds(at),
         at[Len(frames) + 1] + 2 <= StackRoom, NEW w \in Words
  PROVE  /\ WordPushed(w)[sp] = High(w) /\ WordPushed(w)[sp - 1] = Low(w)
         /\ \A a \in Ram : a > sp => WordPushed(w)[a] = mem[a]
<1>1. /\ at[Len(frames) + 1] \in 0 .. StackRoom /\ StackRoom \in Nat /\ StackTop \in Nat
      /\ sp \in Nat /\ sp >= 3 /\ sp = StackTop - at[Len(frames) + 1]
      /\ Below(sp, 1) = sp - 1
  BY StackSpace
<1>2. /\ sp \in Nat /\ sp <= StackTop /\ sp > StackTop - StackRoom
      /\ sp - 1 \in Nat /\ sp - 1 <= StackTop /\ sp - 1 > StackTop - StackRoom
      /\ sp # sp - 1
  <2>. DEFINE e == at[Len(frames) + 1]
  <2>1. /\ e \in Nat /\ StackRoom \in Nat /\ StackTop \in Nat /\ sp \in Nat /\ sp >= 3
        /\ sp = StackTop - e /\ e + 2 <= StackRoom
    BY <1>1
  <2>. HIDE DEF e
  <2>. QED
    BY <2>1
<1>3. sp \in Ram /\ sp - 1 \in Ram
  BY <1>2, StackSpace
<1>4. mem \in [Ram -> Bytes] /\ High(w) \in Bytes /\ Low(w) \in Bytes
  BY WordBytes DEF TypeOK
<1>. DEFINE m == Written(mem, sp, High(w))
<1>5. /\ m \in [Ram -> Bytes] /\ m[sp] = High(w)
      /\ \A a \in Ram : a # sp => m[a] = mem[a]
  BY <1>3, <1>4, WrittenBytes
<1>. HIDE DEF m
<1>6. /\ Written(m, sp - 1, Low(w))[sp - 1] = Low(w)
      /\ \A a \in Ram : a # sp - 1 => Written(m, sp - 1, Low(w))[a] = m[a]
  BY SMTT(30), <1>3, <1>4, <1>5, WrittenBytes
<1>7. WordPushed(w) = Written(m, sp - 1, Low(w))
  BY <1>1 DEF WordPushed, m
<1>8. \A a \in Ram : a > sp => a # sp /\ a # sp - 1
  <2>1. Ram \subseteq Words
    BY CpuAssumption
  <2>2. \A a \in Ram : a \in Nat
    BY <2>1, WordBytes DEF Words
  <2>. QED
    BY SMTT(30), <1>1, <2>2
<1>. QED
  BY <1>2, <1>3, <1>5, <1>6, <1>7, <1>8

\* trigger_interrupt leaves an interrupt frame in memory.
LEMMA FrameIsPushed ==
  ASSUME TypeOK, Trusted, NEW at \in Depths, StackHolds(at),
         at[Len(frames) + 1] + 3 <= StackRoom, NEW w \in Words, NEW f \in Bytes
  PROVE  /\ FramePushed(w, f)[sp] = High(w) /\ FramePushed(w, f)[sp - 1] = Low(w)
         /\ FramePushed(w, f)[sp - 2] = f
         /\ \A a \in Ram : a > sp => FramePushed(w, f)[a] = mem[a]
<1>1. /\ at[Len(frames) + 1] \in 0 .. StackRoom /\ StackRoom \in Nat /\ StackTop \in Nat
      /\ sp \in Nat /\ sp >= 3 /\ sp = StackTop - at[Len(frames) + 1]
      /\ Below(sp, 2) = sp - 2
  BY StackSpace
<1>2. /\ sp \in Nat /\ sp <= StackTop /\ sp > StackTop - StackRoom
      /\ sp - 1 \in Nat /\ sp - 1 <= StackTop /\ sp - 1 > StackTop - StackRoom
      /\ sp - 2 \in Nat /\ sp - 2 <= StackTop /\ sp - 2 > StackTop - StackRoom
      /\ sp # sp - 2 /\ sp - 1 # sp - 2
  <2>. DEFINE e == at[Len(frames) + 1]
  <2>1. /\ e \in Nat /\ StackRoom \in Nat /\ StackTop \in Nat /\ sp \in Nat /\ sp >= 3
        /\ sp = StackTop - e /\ e + 3 <= StackRoom
    BY <1>1
  <2>. HIDE DEF e
  <2>. QED
    BY <2>1
<1>3. sp \in Ram /\ sp - 1 \in Ram /\ sp - 2 \in Ram
  BY <1>2, StackSpace
<1>4. at[Len(frames) + 1] + 2 <= StackRoom
  BY SMTT(30), <1>1
<1>. DEFINE m == WordPushed(w)
<1>5. /\ m \in [Ram -> Bytes] /\ m[sp] = High(w) /\ m[sp - 1] = Low(w)
      /\ \A a \in Ram : a > sp => m[a] = mem[a]
  BY <1>4, WordIsPushed, MemoryTypes
<1>. HIDE DEF m
<1>6. /\ Written(m, sp - 2, f)[sp - 2] = f
      /\ \A a \in Ram : a # sp - 2 => Written(m, sp - 2, f)[a] = m[a]
  BY <1>3, <1>5, WrittenBytes
<1>7. FramePushed(w, f) = Written(m, sp - 2, f)
  BY <1>1 DEF FramePushed, m
<1>8. \A a \in Ram : a > sp => a # sp - 2
  <2>1. Ram \subseteq Words
    BY CpuAssumption
  <2>2. \A a \in Ram : a \in Nat
    BY <2>1, WordBytes DEF Words
  <2>. QED
    BY <1>1, <2>2
<1>. QED
  BY <1>2, <1>3, <1>5, <1>6, <1>7, <1>8

\* The flags in the frames stay those that an instruction left behind.
LEMMA FlagsKept ==
  ASSUME TypeOK, SavedFlagsClean
  PROVE  /\ UNCHANGED frames => SavedFlagsClean'
         /\ \A x \in Frames :
              /\ frames' = Append(frames, x)
              /\ x.kind = "interrupt" => ClearReserved(x.flags) = x.flags
              => SavedFlagsClean'
         /\ frames # <<>> /\ frames' = SubSeq(frames, 1, Len(frames) - 1) => SavedFlagsClean'
<1>1. frames \in Seq(Frames) /\ Len(frames) \in Nat
  BY DEF TypeOK
<1>2. UNCHANGED frames => SavedFlagsClean'
  BY DEF SavedFlagsClean
<1>3. ASSUME NEW x \in Frames, frames' = Append(frames, x),
             x.kind = "interrupt" => ClearReserved(x.flags) = x.flags
      PROVE  SavedFlagsClean'
  <2>1. /\ Len(frames') = Len(frames) + 1 /\ frames'[Len(frames) + 1] = x
        /\ \A i \in 1 .. Len(frames) : frames'[i] = frames[i]
    BY <1>1, <1>3
  <2>. QED
    BY <1>1, <1>3, <2>1 DEF SavedFlagsClean
<1>4. ASSUME frames # <<>>, frames' = SubSeq(frames, 1, Len(frames) - 1)
      PROVE  SavedFlagsClean'
  <2>1. /\ Len(frames') = Len(frames) - 1
        /\ \A i \in 1 .. (Len(frames) - 1) : frames'[i] = frames[i]
    BY <1>1, <1>4, ShorterSeq
  <2>. QED
    BY <1>1, <2>1 DEF SavedFlagsClean
<1>. QED
  BY <1>2, <1>3, <1>4

\* Every step of a trusted guest, of an interrupt and of main leaves the frames
\* in memory.
LEMMA StackInvStep ==
  ASSUME TypeOK, StackInv, TypeOK', [Next]_vars
  PROVE  StackInv'
<1>. SUFFICES ASSUME Trusted PROVE StackInv'
  BY DEF StackInv
<1>. DEFINE Stacked == \E new \in Depths' : StackHolds(new)'
            last(at) == at[Len(frames) + 1]
<1>1. /\ (frames # <<>> \/ IFlag(csr0)) => stackSet
      /\ stackSet => \E at \in Depths : StackHolds(at)
      /\ SavedFlagsClean
  BY DEF StackInv
<1>2. SUFFICES /\ (frames' # <<>> \/ IFlag(csr0')) => stackSet'
               /\ stackSet' => Stacked
               /\ SavedFlagsClean'
  BY DEF StackInv
<1>. HIDE DEF Stacked
<1>3. /\ frames \in Seq(Frames) /\ pc \in Words /\ sp \in Words
      /\ frames # <<>> => frames[Len(frames)] \in Frames
  BY DEF TypeOK
<1>4. CASE UNCHANGED <<csr0, sp, mem, frames, stackSet>>
  <2>1. ASSUME stackSet PROVE Stacked
    <3>1. PICK at \in Depths : StackHolds(at)
      BY <1>1, <2>1
    <3>2. IFlag(csr0') => at[Len(frames) + 1] + 3 <= StackRoom
      BY <1>4, <3>1 DEF StackHolds
    <3>. QED
      BY <1>4, <3>1, <3>2, StackKept DEF Stacked
  <2>. QED
    BY <1>1, <1>4, <2>1, FlagsKept
<1>5. ASSUME StackFits, stackSet', NEW d \in Nat, sp' = StackTop - d
      PROVE  d <= StackRoom /\ (IFlag(csr0') => d + 3 <= StackRoom)
  <2>1. StackTop \in Nat /\ StackRoom \in Nat /\ StackTop - sp' = d
    <3>1. StackTop \in Words /\ StackRoom \in Nat
      BY CpuAssumption
    <3>. QED
      BY <1>5, <3>1, WordBytes DEF Words
  <2>2. CASE IFlag(csr0')
    BY <1>5, <2>1, <2>2 DEF StackFits
  <2>3. CASE ~IFlag(csr0')
    BY <1>5, <2>1, <2>3 DEF StackFits
  <2>. QED
    BY <2>1, <2>2, <2>3
<1>6. ASSUME StackFits, UNCHANGED <<sp, mem, frames, stackSet>>, IFlag(csr0') => stackSet
      PROVE  /\ (frames' # <<>> \/ IFlag(csr0')) => stackSet'
             /\ stackSet' => Stacked
             /\ SavedFlagsClean'
  <2>1. ASSUME stackSet PROVE Stacked
    <3>1. PICK at \in Depths : StackHolds(at)
      BY <1>1, <2>1
    <3>2. last(at) \in Nat /\ sp' = StackTop - last(at)
      BY <1>6, <3>1, StackSpace
    <3>3. IFlag(csr0') => last(at) + 3 <= StackRoom
      BY <1>5, <1>6, <2>1, <3>2
    <3>. QED
      BY <1>6, <3>1, <3>3, StackKept DEF Stacked
  <2>. QED
    BY <1>1, <1>6, <2>1, FlagsKept
<1>7. ASSUME NEW x \in Frames, StackFits, Push(x), UNCHANGED stackSet,
             sp' = Below(sp, Size(x)),
             x.kind = "interrupt" => ClearReserved(x.flags) = x.flags,
             \A at \in Depths :
               StackHolds(at) /\ last(at) + Size(x) <= StackRoom =>
                 /\ Holds(mem', sp, x)
                 /\ \A a \in Ram : a > sp => mem'[a] = mem[a]
      PROVE  /\ (frames' # <<>> \/ IFlag(csr0')) => stackSet'
             /\ stackSet' => Stacked
             /\ SavedFlagsClean'
  <2>1. stackSet /\ stackSet' /\ frames' = Append(frames, x)
    BY <1>7 DEF Push
  <2>2. PICK at \in Depths : StackHolds(at)
    BY <1>1, <2>1
  <2>3. Size(x) \in 1 .. 3
    BY FrameSizes
  <2>4. /\ last(at) \in 0 .. StackRoom /\ StackTop \in Nat /\ StackRoom \in Nat
        /\ sp = StackTop - last(at) /\ sp \in Nat /\ sp' = sp - Size(x)
    BY <1>7, <2>2, <2>3, StackSpace
  <2>5. last(at) + Size(x) \in Nat /\ sp' = StackTop - (last(at) + Size(x))
    BY SMTT(30), <2>3, <2>4
  <2>6. /\ last(at) + Size(x) <= StackRoom
        /\ IFlag(csr0') => last(at) + Size(x) + 3 <= StackRoom
    BY <1>5, <1>7, <2>1, <2>5
  <2>7. Stacked
    BY <1>7, <2>1, <2>2, <2>4, <2>6, FramePushes DEF Stacked
  <2>. QED
    BY <1>1, <1>7, <2>1, <2>7, FlagsKept
<1>8. ASSUME NEW k, k = frames[Len(frames)].kind, StackFits, OnTop(k), Pop,
             UNCHANGED <<mem, stackSet>>,
             \A at \in Depths : StackHolds(at) => sp' = sp + Size(frames[Len(frames)])
      PROVE  /\ (frames' # <<>> \/ IFlag(csr0')) => stackSet'
             /\ stackSet' => Stacked
             /\ SavedFlagsClean'
  <2>1. frames # <<>> /\ stackSet /\ stackSet' /\ frames' = SubSeq(frames, 1, Len(frames) - 1)
    BY <1>1, <1>8 DEF OnTop, Pop
  <2>2. PICK at \in Depths : StackHolds(at)
    BY <1>1, <2>1
  <2>3. /\ at[Len(frames)] \in Nat /\ sp' = StackTop - at[Len(frames)]
        /\ sp' = sp + Size(frames[Len(frames)])
    BY <1>8, <2>1, <2>2, TopOfStack
  <2>4. IFlag(csr0') => at[Len(frames)] + 3 <= StackRoom
    BY <1>5, <1>8, <2>1, <2>3
  <2>5. Stacked
    BY <1>8, <2>1, <2>2, <2>3, <2>4, FramePops DEF Stacked
  <2>. QED
    BY <1>1, <2>1, <2>5, FlagsKept
<1>9. /\ \A f \in Bytes : IFlag(ClearReserved(f)) <=> IFlag(f)
      /\ \A f \in Bytes : ClearReserved(ClearReserved(f)) = ClearReserved(f)
  BY Flags
<1>10. Instruction => csr0 \in Bytes /\ ClearReserved(csr0) = csr0
  BY DEF Instruction, Plain, Branch, MovFlags, MovSp, PushReg, PopReg, BranchLink,
         Ret, Reti, Wfi, Swi, StoreControl, LoadData, Retire, NextTurn, TypeOK
<1>11. Following \in Words
  BY Addresses DEF Following, TypeOK
<1>12. CASE StackFits /\ csr0 \in Bytes /\ ClearReserved(csr0) = csr0
            /\ (Plain \/ Branch \/ Wfi \/ StoreControl
                \/ \E r \in Rings \cap Sources : LoadData(r))
  <2>1. /\ UNCHANGED <<sp, mem, frames, stackSet>>
        /\ csr0' = ClearReserved(csr0) \/ \E f \in SoftFlags : csr0' = ClearReserved(f)
    BY <1>12 DEF Plain, Branch, Wfi, StoreControl, LoadData, Retire
  <2>2. IFlag(csr0') => IFlag(csr0)
    BY <1>9, <1>12, <2>1 DEF SoftFlags
  <2>. QED
    BY <1>1, <1>6, <1>12, <2>1, <2>2
<1>13. CASE MovFlags /\ StackFits
  <2>1. PICK f \in Bytes : (Trusted /\ IFlag(f) => stackSet) /\ csr0' = ClearReserved(f)
    BY <1>13 DEF MovFlags, Retire
  <2>2. IFlag(csr0') => stackSet
    BY <1>9, <2>1
  <2>. QED
    BY <1>6, <1>13, <2>2 DEF MovFlags
<1>14. CASE MovSp /\ StackFits /\ ClearReserved(csr0) = csr0
  <2>1. /\ ~stackSet /\ stackSet' = (sp' = StackTop) /\ csr0' = csr0
        /\ frames = <<>> /\ frames' = frames /\ ~IFlag(csr0')
    BY <1>1, <1>14 DEF MovSp, Retire
  <2>2. ASSUME stackSet' PROVE Stacked
    <3>1. StackTop \in Nat /\ StackRoom \in Nat
      <4>1. StackTop \in Words /\ StackRoom \in Nat
        BY CpuAssumption
      <4>. QED
        BY <4>1, WordBytes DEF Words
    <3>2. frames' = <<>> /\ Len(frames') = 0 /\ 1 .. Len(frames') = {} /\ Len(frames') + 1 = 1
      BY <2>1
    <3>3. PICK new \in Depths' : new[1] = 0
      <4>1. PICK new \in [1 .. 1 -> 0 .. StackRoom] : new[1] = 0
        <5>1. /\ [i \in 1 .. 1 |-> 0] \in [1 .. 1 -> 0 .. StackRoom]
              /\ [i \in 1 .. 1 |-> 0][1] = 0
          BY <3>1
        <5>. QED
          BY <5>1
      <4>2. Depths' = [1 .. 1 -> 0 .. StackRoom]
        BY <3>2 DEF Depths
      <4>. QED
        BY <4>1, <4>2
    <3>4. stackSet' => sp' = StackTop
      BY <1>14 DEF MovSp
    <3>5. StackHolds(new)'
      <4>1. Layout(new, frames')
        BY <3>2, <3>3 DEF Layout
      <4>2. sp' = StackTop - new[1]
        BY <2>2, <3>1, <3>3, <3>4
      <4>. QED
        BY <2>1, <3>2, <4>1, <4>2 DEF StackHolds
    <3>. QED
      BY <3>3, <3>5 DEF Stacked
  <2>. QED
    BY <1>1, <2>1, <2>2, FlagsKept
<1>15. CASE PushReg /\ StackFits
  <2>1. PICK b \in RegValues :
          mem' = Written(mem, sp, b) /\ sp' = Below(sp, 1) /\ Push(ByteFrame(b))
    BY <1>15 DEF PushReg
  <2>2. b \in Bytes /\ ByteFrame(b) \in Frames /\ ByteFrame(b).value = b
        /\ ByteFrame(b).kind = "byte" /\ Size(ByteFrame(b)) = 1
    <3>1. b \in Bytes
      BY CpuAssumption
    <3>. QED
      BY <3>1, FrameTypes, FrameSizes DEF ByteFrame
  <2>3. ASSUME NEW at \in Depths, StackHolds(at), last(at) + 1 <= StackRoom
        PROVE  /\ Holds(mem', sp, ByteFrame(b))
               /\ \A a \in Ram : a > sp => mem'[a] = mem[a]
    <3>1. /\ last(at) \in 0 .. StackRoom /\ StackRoom \in Nat /\ StackTop \in Nat
          /\ sp \in Nat /\ sp = StackTop - last(at)
      BY <2>3, StackSpace
    <3>2. sp \in Nat /\ sp <= StackTop /\ sp > StackTop - StackRoom
      BY <2>3, <3>1
    <3>3. sp \in Ram /\ mem \in [Ram -> Bytes]
      <4>1. mem \in [Ram -> Bytes]
        BY DEF TypeOK
      <4>. QED
        BY <2>3, <3>2, <4>1, StackSpace
    <3>4. mem'[sp] = b /\ \A a \in Ram : a # sp => mem'[a] = mem[a]
      BY <2>1, <2>2, <3>3, WrittenBytes
    <3>5. \A a \in Ram : a > sp => a # sp
      BY <3>1
    <3>. QED
      BY <2>2, <3>4, <3>5 DEF Holds
  <2>. QED
    BY <1>7, <1>15, <2>1, <2>2, <2>3 DEF PushReg
<1>16. CASE PopReg /\ StackFits
  <2>1. \A at \in Depths : StackHolds(at) => sp' = sp + Size(frames[Len(frames)])
    BY <1>16, FrameRead DEF PopReg, OnTop
  <2>. QED
    BY <1>8, <1>16, <2>1 DEF PopReg, OnTop
<1>17. CASE BranchLink /\ StackFits
  <2>1. /\ mem' = WordPushed(Following) /\ sp' = Below(sp, 2) /\ Push(CallFrame(Following))
        /\ UNCHANGED stackSet
    BY <1>17 DEF BranchLink
  <2>2. /\ CallFrame(Following) \in Frames /\ CallFrame(Following).pc = Following
        /\ CallFrame(Following).kind = "call" /\ Size(CallFrame(Following)) = 2
    BY <1>11, FrameTypes, FrameSizes DEF CallFrame
  <2>3. ASSUME NEW at \in Depths, StackHolds(at), last(at) + 2 <= StackRoom
        PROVE  /\ Holds(mem', sp, CallFrame(Following))
               /\ \A a \in Ram : a > sp => mem'[a] = mem[a]
    BY <1>11, <2>1, <2>2, <2>3, WordIsPushed DEF Holds
  <2>. QED
    BY <1>7, <1>17, <2>1, <2>2, <2>3
<1>18. CASE Ret /\ StackFits
  <2>1. \A at \in Depths : StackHolds(at) => sp' = sp + Size(frames[Len(frames)])
    BY <1>18, FrameRead DEF Ret, OnTop
  <2>. QED
    BY <1>8, <1>18, <2>1 DEF Ret, OnTop
<1>19. CASE Reti /\ StackFits
  <2>1. \A at \in Depths : StackHolds(at) => sp' = sp + Size(frames[Len(frames)])
    BY <1>19, FrameRead DEF Reti, OnTop
  <2>. QED
    BY <1>8, <1>19, <2>1 DEF Reti, OnTop
<1>20. ASSUME NEW w \in Words, csr0 \in Bytes, mem' = FramePushed(w, csr0)
       PROVE  LET x == IntFrame(w, csr0)
              IN  /\ x \in Frames /\ x.kind = "interrupt" /\ x.flags = csr0 /\ Size(x) = 3
                  /\ \A at \in Depths : StackHolds(at) /\ last(at) + 3 <= StackRoom =>
                       /\ Holds(mem', sp, x)
                       /\ \A a \in Ram : a > sp => mem'[a] = mem[a]
  <2>. DEFINE x == IntFrame(w, csr0)
  <2>1. /\ x \in Frames /\ x.kind = "interrupt" /\ x.flags = csr0 /\ x.pc = w
        /\ Size(x) = 3
    BY <1>20, FrameTypes, FrameSizes DEF IntFrame
  <2>. HIDE DEF x
  <2>2. ASSUME NEW at \in Depths, StackHolds(at), last(at) + 3 <= StackRoom
        PROVE  /\ Holds(mem', sp, x)
               /\ \A a \in Ram : a > sp => mem'[a] = mem[a]
    BY <1>20, <2>1, <2>2, FrameIsPushed DEF Holds
  <2>. QED
    BY <2>1, <2>2 DEF x
<1>21. ASSUME NEW id \in SwiIds, Swi(id), StackFits, csr0 \in Bytes, ClearReserved(csr0) = csr0
       PROVE  /\ (frames' # <<>> \/ IFlag(csr0')) => stackSet'
              /\ stackSet' => Stacked
              /\ SavedFlagsClean'
  <2>1. /\ mem' = FramePushed(Following, csr0) /\ sp' = Below(sp, 3)
        /\ Push(IntFrame(Following, csr0)) /\ UNCHANGED stackSet
    BY <1>21 DEF Swi
  <2>. QED
    BY <1>7, <1>11, <1>20, <1>21, <2>1
<1>22. ASSUME NEW s \in Sources, Dispatch(s)
       PROVE  /\ (frames' # <<>> \/ IFlag(csr0')) => stackSet'
              /\ stackSet' => Stacked
              /\ SavedFlagsClean'
  <2>. DEFINE x == IntFrame(pc, csr0)
  <2>1. /\ IFlag(csr0) /\ mem' = FramePushed(pc, csr0) /\ sp' = Below(sp, 3)
        /\ csr0' = ClearI(csr0) /\ frames' = Append(frames, x) /\ UNCHANGED stackSet
        /\ csr0 \in Bytes /\ ClearReserved(csr0) = csr0
    BY <1>22 DEF Dispatch, MayDispatch, TypeOK
  <2>2. stackSet /\ stackSet' /\ ~IFlag(csr0')
    BY <1>1, <2>1, Flags
  <2>3. PICK at \in Depths : StackHolds(at)
    BY <1>1, <2>2
  <2>4. last(at) + 3 <= StackRoom /\ Below(sp, 3) = sp - 3
    BY <2>1, <2>3, StackSpace DEF StackHolds
  <2>5. /\ x \in Frames /\ x.kind = "interrupt" /\ x.flags = csr0 /\ Size(x) = 3
        /\ Holds(mem', sp, x) /\ \A a \in Ram : a > sp => mem'[a] = mem[a]
    BY <1>3, <1>20, <2>1, <2>3, <2>4
  <2>. HIDE DEF x
  <2>6. Stacked
    BY <2>1, <2>2, <2>3, <2>4, <2>5, FramePushes DEF Stacked
  <2>7. SavedFlagsClean'
    BY <1>1, <2>1, <2>5, FlagsKept
  <2>. QED
    BY <2>2, <2>6, <2>7
<1>23. CASE Exit \/ NoDispatch \/ Sleep \/ TimerElapses \/ Stop \/ UNCHANGED vars
            \/ \E r \in Rings \cap Sources : Input(r)
  BY <1>4, <1>23 DEF Exit, NoDispatch, Sleep, TimerElapses, Stop, Input, vars, machine
<1>24. ~Illegal
  BY DEF Illegal
<1>25. CASE Instruction /\ StackFits
  BY <1>10, <1>12, <1>13, <1>14, <1>15, <1>16, <1>17, <1>18, <1>19, <1>21, <1>25
  DEF Instruction
<1>. QED
  BY <1>22, <1>23, <1>24, <1>25 DEF Next, CpuStep, Execute

\* The frames of a trusted guest are in memory, whatever it executes and
\* whenever an interrupt comes.
THEOREM CpuInvariant == Spec => []CpuInv
<1>1. Init => CpuInv
  <2>. SUFFICES ASSUME Init PROVE TypeOK /\ StackInv
    BY DEF CpuInv
  <2>1. ~IFlag(csr0)
    <3>1. Radix \div 2 \in Nat /\ Radix \div 2 > 0
      BY CpuAssumption
    <3>. QED
      BY <3>1 DEF Init, IFlag
  <2>. QED
    BY <2>1, TypeInit DEF Init, StackInv, SavedFlagsClean
<1>2. CpuInv /\ [Next]_vars => CpuInv'
  BY TypeStep, StackInvStep DEF CpuInv
<1>. QED
  BY <1>1, <1>2, PTL DEF Spec

\* Every step of a trusted guest is a step of the stack of frames, or leaves it
\* alone.
LEMMA ContractStep ==
  ASSUME Trusted, TypeOK, StackInv, TypeOK', [Next]_vars
  PROVE  [Contract!Next]_(Contract!vars)
<1>1. pc' \in Words /\ pc \in Words /\ Following \in Words
  BY Addresses DEF Following, TypeOK
<1>2. Instruction => /\ csr0 \in Bytes /\ ClearReserved(csr0) = csr0
                     /\ csr0' \in Bytes
  BY DEF Instruction, Plain, Branch, MovFlags, MovSp, PushReg, PopReg, BranchLink,
         Ret, Reti, Wfi, Swi, StoreControl, LoadData, Retire, NextTurn, TypeOK
<1>3. ASSUME NEW k, OnTop(k), Pop
      PROVE  /\ frames # <<>> /\ Contract!Top.kind = k /\ frames' = Contract!Below
             /\ \E at \in Depths : StackHolds(at)
  BY <1>3 DEF OnTop, Pop, StackInv, Contract!Top, Contract!Below
<1>4. ASSUME NEW s \in Sources, Dispatch(s) PROVE Contract!Interrupt
  BY <1>1, <1>4 DEF Dispatch, MayDispatch, Contract!Interrupt, Contract!IntFrame, IntFrame
<1>5. CASE Plain \/ Branch \/ MovFlags \/ MovSp \/ Wfi \/ StoreControl
           \/ \E r \in Rings \cap Sources : LoadData(r)
  <2>1. UNCHANGED frames /\ Instruction
    BY <1>5 DEF Plain, Branch, MovFlags, MovSp, Wfi, StoreControl, LoadData, Instruction
  <2>. QED
    BY <1>1, <1>2, <2>1 DEF Contract!Next, Contract!Run
<1>6. CASE PushReg
  <2>1. PICK b \in RegValues : Push(ByteFrame(b)) /\ csr0' = csr0
    BY <1>2, <1>6 DEF PushReg, Retire, Instruction
  <2>2. b \in Bytes
    BY CpuAssumption
  <2>3. Contract!Push(b)
    BY <1>1, <2>1 DEF Push, Contract!Push, Contract!ByteFrame, ByteFrame
  <2>. QED
    BY <2>2, <2>3 DEF Contract!Next
<1>7. CASE PopReg
  BY <1>1, <1>2, <1>3, <1>7 DEF PopReg, Instruction, Contract!Next, Contract!Pop
<1>8. CASE BranchLink
  <2>1. Contract!Call(Following)
    BY <1>1, <1>2, <1>8
    DEF BranchLink, Retire, Instruction, Push, Contract!Call, Contract!CallFrame, CallFrame
  <2>. QED
    BY <1>1, <2>1 DEF Contract!Next
<1>9. CASE Ret
  <2>1. OnTop("call") /\ Pop /\ csr0' = csr0
    BY <1>2, <1>9 DEF Ret, Retire, Instruction
  <2>2. pc' = frames[Len(frames)].pc
    BY <1>3, <1>9, <2>1, FrameRead DEF Ret, OnTop
  <2>. QED
    BY <1>3, <2>1, <2>2 DEF Contract!Next, Contract!Return, Contract!Top
<1>10. CASE Reti
  <2>1. OnTop("interrupt") /\ Pop
    BY <1>10 DEF Reti
  <2>2. pc' = frames[Len(frames)].pc /\ Read(Above(sp, 1)) = frames[Len(frames)].flags
    BY <1>3, <1>10, <2>1, FrameRead DEF Reti, OnTop
  <2>3. ClearReserved(frames[Len(frames)].flags) = frames[Len(frames)].flags
    <3>1. Len(frames) \in 1 .. Len(frames)
      BY <1>3, <2>1 DEF TypeOK
    <3>. QED
      BY <2>1, <3>1 DEF StackInv, SavedFlagsClean, OnTop
  <2>4. csr0' = frames[Len(frames)].flags
    BY <1>10, <2>2, <2>3 DEF Reti, Retire
  <2>. QED
    BY <1>3, <2>1, <2>2, <2>4 DEF Contract!Next, Contract!InterruptReturn, Contract!Top
<1>11. ASSUME NEW id \in SwiIds, Swi(id) PROVE Contract!Next
  <2>1. csr0' = ClearI(csr0)
    BY <1>2, <1>11, Flags DEF Swi, Retire, Instruction
  <2>2. Contract!SoftwareInterrupt(Following)
    BY <1>1, <1>11, <2>1
    DEF Swi, Push, Contract!SoftwareInterrupt, Contract!IntFrame, IntFrame
  <2>. QED
    BY <1>1, <2>2 DEF Contract!Next
<1>12. CASE Exit \/ NoDispatch \/ Sleep \/ TimerElapses \/ Stop \/ UNCHANGED vars
            \/ \E r \in Rings \cap Sources : Input(r)
  BY <1>12
  DEF Exit, NoDispatch, Sleep, TimerElapses, Stop, Input, vars, machine, Contract!vars
<1>13. ~Illegal
  BY DEF Illegal
<1>14. CASE Instruction
  BY <1>5, <1>6, <1>7, <1>8, <1>9, <1>10, <1>11, <1>14 DEF Instruction
<1>. QED
  BY <1>4, <1>12, <1>13, <1>14 DEF Next, CpuStep, Execute, Contract!Next

\* For a guest that keeps the stack discipline, interrupts, calls and pushes
\* implement a stack of frames: RETI and RET bring back exactly the program
\* counter and flags that were saved, however deep interrupts nest
\* (trigger_interrupt in io.c; BL, RET, RETI, SWI, PUSH and POP in cpu.c).
THEOREM CpuImplementsContract == Trusted => (Spec => ImplementsContract)
<1>. SUFFICES ASSUME Trusted PROVE Spec => ImplementsContract
  OBVIOUS
<1>1. Init => Contract!Init
  <2>. SUFFICES ASSUME Init PROVE Contract!Init
    OBVIOUS
  <2>. TypeOK
    BY TypeInit
  <2>. QED
    BY DEF Init, TypeOK, Contract!Init
<1>2. CpuInv /\ CpuInv' /\ [Next]_vars => [Contract!Next]_(Contract!vars)
  BY ContractStep DEF CpuInv
<1>. QED
  BY <1>1, <1>2, CpuInvariant, PTL DEF Spec, ImplementsContract, Contract!Spec
=============================================================================
