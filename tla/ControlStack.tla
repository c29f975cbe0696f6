----------------------------- MODULE ControlStack -----------------------------
(***************************************************************************)
(* What interrupts, calls and returns promise the guest program, free of   *)
(* memory and stack pointer: a stack of frames, where an interrupt or a    *)
(* call can only push, a return can only pop the frame its own kind of     *)
(* entry pushed, and popping brings back exactly what was interrupted.     *)
(***************************************************************************)
EXTENDS Naturals, Sequences

CONSTANTS
  Addresses,    \* values of the program counter
  FlagBytes,    \* values of the flags register
  Bytes,        \* values of a pushed register
  Enabled(_),   \* the flags let hardware interrupts in
  Masked(_)     \* the flags with hardware interrupts shut out

VARIABLES pc, flags, frames

vars == <<pc, flags, frames>>

Top == frames[Len(frames)]
Below == SubSeq(frames, 1, Len(frames) - 1)

IntFrame(p, f) == [kind |-> "interrupt", pc |-> p, flags |-> f]
CallFrame(p) == [kind |-> "call", pc |-> p]
ByteFrame(b) == [kind |-> "byte", value |-> b]

Init == pc \in Addresses /\ flags \in FlagBytes /\ frames = <<>>

\* An instruction that leaves the stack alone, a branch, or a change of flags.
Run ==
  /\ pc' \in Addresses /\ flags' \in FlagBytes
  /\ UNCHANGED frames

Push(b) ==
  /\ frames' = Append(frames, ByteFrame(b))
  /\ pc' \in Addresses /\ UNCHANGED flags

Pop ==
  /\ frames # <<>> /\ Top.kind = "byte"
  /\ frames' = Below
  /\ pc' \in Addresses /\ flags' \in FlagBytes

Call(next) ==
  /\ frames' = Append(frames, CallFrame(next))
  /\ pc' \in Addresses /\ UNCHANGED flags

Return ==
  /\ frames # <<>> /\ Top.kind = "call"
  /\ pc' = Top.pc
  /\ frames' = Below
  /\ UNCHANGED flags

\* A hardware interrupt comes between two instructions, only when enabled.
Interrupt ==
  /\ Enabled(flags)
  /\ frames' = Append(frames, IntFrame(pc, flags))
  /\ flags' = Masked(flags)
  /\ pc' \in Addresses

\* A software interrupt resumes behind the instruction that raised it.
SoftwareInterrupt(next) ==
  /\ frames' = Append(frames, IntFrame(next, flags))
  /\ flags' = Masked(flags)
  /\ pc' \in Addresses

InterruptReturn ==
  /\ frames # <<>> /\ Top.kind = "interrupt"
  /\ pc' = Top.pc
  /\ flags' = Top.flags
  /\ frames' = Below

Next ==
  \/ Run
  \/ Pop
  \/ \E b \in Bytes : Push(b)
  \/ \E p \in Addresses : Call(p) \/ SoftwareInterrupt(p)
  \/ Return
  \/ Interrupt
  \/ InterruptReturn

Spec == Init /\ [][Next]_vars
=============================================================================
