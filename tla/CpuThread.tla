------------------------------ MODULE CpuThread ------------------------------
(***************************************************************************)
(* The CPU thread of the emulator: the loop of cpu_thread_worker (main.c), *)
(* check_and_dispatch_interrupts and trigger_interrupt (io.c), and the     *)
(* instructions of cpu.c that move the program counter, the stack pointer  *)
(* or the interrupt flag, next to a main thread that fills the input rings *)
(* and may stop the machine.                                               *)
(*                                                                         *)
(* The guest program is arbitrary: every iteration executes any            *)
(* instruction.  When Trusted, the guest keeps a stack discipline: it sets *)
(* the stack pointer before using it, pops what it pushed, and leaves room *)
(* for an interrupt whenever it lets one in.  A byte has Radix values (256 *)
(* in the code) and an address is two bytes.  Registers, the ALU and the   *)
(* addresses of data are left to the guest's choice.                       *)
(***************************************************************************)
EXTENDS Naturals, Sequences, FiniteSets

CONSTANTS
  Radix,        \* values of a byte; a multiple of 4
  Ram,          \* addresses that a write reaches; the others are ROM
  RomByte,      \* what every ROM address holds
  Vector,       \* contents of the vector table, written by the guest before
  Sources,      \* the interrupt sources of the run, out of Priority's
  RegValues,    \* bound: values the guest pushes
  SwiIds,       \* software interrupts the guest raises
  CodeTop,      \* the guest's code lies at the even addresses 0 .. CodeTop
  IllegalPc,    \* 0x0F04
  PollEvery,    \* loop turns between two looks at the sources (1000)
  RingCapacity, \* data an input ring can hold (63)
  Trusted,      \* TRUE when the guest keeps the stack discipline
  StackTop,     \* where a trusted guest starts its stack
  StackRoom     \* bytes of RAM a trusted guest has for it, address 0 far below

Bytes == 0 .. (Radix - 1)
WordCount == Radix * Radix
Words == 0 .. (WordCount - 1)
Code == {a \in 0 .. CodeTop : a % 2 = 0}
Rings == {"key", "uart"}
Ids == [timer |-> 16, key |-> 17, uart |-> 18]
Priority == <<"timer", "key", "uart">>
IllegalId == 2
HaltId == 0

ASSUME CpuAssumption ==
  /\ Radix \in Nat /\ Radix >= 4 /\ Radix % 4 = 0
  /\ Ram \subseteq Words /\ RomByte \in Bytes /\ RegValues \subseteq Bytes
  /\ Sources \subseteq DOMAIN Ids
  /\ \A id \in SwiIds \cup {IllegalId} \cup {Ids[s] : s \in Sources} :
       Vector[id] \in Words
  /\ CodeTop \in Words /\ IllegalPc \in Words
  /\ PollEvery \in Nat \ {0} /\ RingCapacity \in Nat \ {0}
  /\ Trusted \in BOOLEAN
  /\ StackTop \in Words /\ StackTop # 0
  /\ StackRoom \in Nat
  /\ Trusted => StackRoom + 3 <= StackTop
  /\ \A k \in 0 .. (StackRoom - 1) : StackTop - k \in Ram

VARIABLES
  phase,     \* "top" of the while loop, "execute", or "done"
  running,   \* shared with the main thread
  loop,      \* loop_count % PollEvery
  wait,      \* wait_for_interrupt
  pc, sp, csr0, mem,
  enabled,   \* sources enabled in HW_CTRL and UART_CTRL
  queued,    \* data in each input ring
  timerDue,  \* a timer period has passed since the latest timer interrupt
  frames,    \* what a trusted guest has on its stack (not in the program)
  stackSet   \* a trusted guest has set its stack pointer (not in the program)

machine == <<pc, sp, csr0, mem>>
devices == <<enabled, queued, timerDue>>
vars == <<phase, running, loop, wait, pc, sp, csr0, mem,
          enabled, queued, timerDue, frames, stackSet>>

-----------------------------------------------------------------------------
(* Bytes, flags and memory. *)

\* csr[0] holds the interrupt flag in its top bit, then reserved bits, then the
\* condition flags, here one: & 0x80, & 0x7F and & 0x8F.
IFlag(b) == b >= Radix \div 2
ClearI(b) == b % (Radix \div 2)
ClearReserved(b) == (b - ClearI(b)) + (b % 2)

High(w) == w \div Radix
Low(w) == w % Radix
Word(hi, lo) == hi * Radix + lo
Below(a, k) == (a + WordCount - k) % WordCount
Above(a, k) == (a + k) % WordCount

Read(a) == IF a \in Ram THEN mem[a] ELSE RomByte

\* memory_write: a window on ROM drops the byte.
Written(m, a, b) == IF a \in Ram THEN [m EXCEPT ![a] = b] ELSE m

\* push_word, and the three writes of trigger_interrupt.
WordPushed(w) == Written(Written(mem, sp, High(w)), Below(sp, 1), Low(w))
FramePushed(w, f) == Written(WordPushed(w), Below(sp, 2), f)

Init ==
  /\ phase = "top" /\ running = TRUE /\ loop = 0 /\ wait = FALSE
  /\ pc = 0 /\ sp = 0 /\ csr0 = 0
  /\ mem = [a \in Ram |-> 0]
  /\ enabled = {} /\ queued = [r \in Rings |-> 0] /\ timerDue = FALSE
  /\ frames = <<>> /\ stackSet = FALSE

-----------------------------------------------------------------------------
(* The frames of a trusted guest, only ever compared with the memory. *)

IntFrame(p, f) == [kind |-> "interrupt", pc |-> p, flags |-> f]
CallFrame(p) == [kind |-> "call", pc |-> p]
ByteFrame(b) == [kind |-> "byte", value |-> b]

OnTop(kind) ==
  Trusted => /\ frames # <<>>
             /\ frames[Len(frames)].kind = kind
Push(frame) ==
  /\ Trusted => stackSet
  /\ frames' = IF Trusted THEN Append(frames, frame) ELSE <<>>
Pop == frames' = IF Trusted THEN SubSeq(frames, 1, Len(frames) - 1) ELSE <<>>

-----------------------------------------------------------------------------
(* The top of the loop: while (running), and the look at the sources. *)

\* Seeded bugs, each to show that a property notices; none is in the code.
AwakePolls == loop = 0 /\ ~wait
ParkedExit ==
  /\ phase = "top" /\ ~running /\ ~wait
  /\ phase' = "done"
  /\ UNCHANGED <<running, loop, wait, machine, devices, frames, stackSet>>

Polls == loop = 0 \/ wait
Pending(s) ==
  /\ s \in enabled
  /\ IF s = "timer" THEN timerDue ELSE queued[s] > 0
UnmaskedMayDispatch(s) == Polls /\ Pending(s)   \* seeded bug
MayDispatch(s) ==
  /\ Polls /\ IFlag(csr0) /\ Pending(s)
  /\ \A i, j \in 1 .. Len(Priority) :
       (i < j /\ Priority[j] = s) => ~Pending(Priority[i])

Exit ==
  /\ phase = "top" /\ ~running
  /\ phase' = "done"
  /\ UNCHANGED <<running, loop, wait, machine, devices, frames, stackSet>>

\* trigger_interrupt for the first source that has something to say.
Dispatch(s) ==
  /\ phase = "top" /\ running
  /\ MayDispatch(s)
  /\ mem' = FramePushed(pc, csr0)
  /\ sp' = Below(sp, 3)
  /\ csr0' = ClearI(csr0)
  /\ pc' = Vector[Ids[s]]
  /\ wait' = FALSE
  /\ timerDue' = (timerDue /\ s # "timer")
  /\ frames' = IF Trusted THEN Append(frames, IntFrame(pc, csr0)) ELSE <<>>
  /\ phase' = "execute"
  /\ UNCHANGED <<running, loop, enabled, queued, stackSet>>

NoDispatch ==
  /\ phase = "top" /\ running
  /\ ~\E s \in Sources : MayDispatch(s)
  /\ phase' = "execute"
  /\ UNCHANGED <<running, loop, wait, machine, devices, frames, stackSet>>

-----------------------------------------------------------------------------
(* The rest of the turn: sleep, or fetch and execute one instruction. *)

NextTurn ==
  /\ phase = "execute" /\ phase' = "top"
  /\ loop' = (loop + 1) % PollEvery

\* usleep while parked in WFI.
Sleep ==
  /\ wait /\ NextTurn
  /\ UNCHANGED <<running, wait, machine, devices, frames, stackSet>>

\* Every instruction retires with csr[0] &= 0x8F; "f" is csr[0] before that.
Retire(f) ==
  /\ ~wait /\ NextTurn
  /\ csr0' = ClearReserved(f)
Following == Above(pc, 2)
SoftFlags == {f \in Bytes : IFlag(f) = IFlag(csr0) /\ ClearReserved(f) = f}

\* ALU, load and store instructions, and branches not taken.  The guest's code
\* ends with a branch.
Plain ==
  /\ pc # CodeTop
  /\ pc' = Following
  /\ \E f \in SoftFlags : Retire(f)
  /\ UNCHANGED <<running, wait, sp, mem, devices, frames, stackSet>>

Branch ==
  /\ pc' \in Code
  /\ Retire(csr0)
  /\ UNCHANGED <<running, wait, sp, mem, devices, frames, stackSet>>

\* MOV csr0, reg writes all bits, I and the reserved ones included.
MovFlags ==
  /\ pc # CodeTop
  /\ pc' = Following
  /\ \E f \in Bytes : /\ (Trusted /\ IFlag(f)) => stackSet
                      /\ Retire(f)
  /\ UNCHANGED <<running, wait, sp, mem, devices, frames, stackSet>>

\* MOV spl, reg and MOV sph, reg set half of the stack pointer each.
MovSp ==
  /\ pc # CodeTop
  /\ pc' = Following
  /\ \E b \in Bytes : sp' \in {Word(b, Low(sp)), Word(High(sp), b)}
  /\ Trusted => /\ ~stackSet
                /\ sp' \in {Word(High(StackTop), Low(sp)),
                            Word(High(sp), Low(StackTop))}
  /\ stackSet' = (Trusted /\ sp' = StackTop)
  /\ Retire(csr0)
  /\ UNCHANGED <<running, wait, mem, devices, frames>>

PushReg ==
  \E b \in RegValues :
    /\ pc # CodeTop
    /\ pc' = Following
    /\ mem' = Written(mem, sp, b)
    /\ sp' = Below(sp, 1)
    /\ Push(ByteFrame(b))
    /\ Retire(csr0)
    /\ UNCHANGED <<running, wait, devices, stackSet>>

\* POP reg: what it reads only shows in the flags, and, when a trusted guest
\* pops, must be what it pushed.
PopReg ==
  /\ pc # CodeTop
  /\ OnTop("byte")
  /\ pc' = Following
  /\ sp' = Above(sp, 1)
  /\ Pop
  /\ \E f \in SoftFlags : Retire(f)
  /\ UNCHANGED <<running, wait, mem, devices, stackSet>>

BranchLink ==
  /\ pc # CodeTop
  /\ pc' \in Code
  /\ mem' = WordPushed(Following)
  /\ sp' = Below(sp, 2)
  /\ Push(CallFrame(Following))
  /\ Retire(csr0)
  /\ UNCHANGED <<running, wait, devices, stackSet>>

Ret ==
  /\ OnTop("call")
  /\ pc' = Word(Read(Above(sp, 2)), Read(Above(sp, 1)))
  /\ sp' = Above(sp, 2)
  /\ Pop
  /\ Retire(csr0)
  /\ UNCHANGED <<running, wait, mem, devices, stackSet>>

\* Seeded bug: the two bytes of the program counter change places.
SwappedReti ==
  /\ OnTop("interrupt")
  /\ pc' = Word(Read(Above(sp, 2)), Read(Above(sp, 3)))
  /\ sp' = Above(sp, 3)
  /\ Pop
  /\ Retire(Read(Above(sp, 1)))
  /\ UNCHANGED <<running, wait, mem, devices, stackSet>>

Reti ==
  /\ OnTop("interrupt")
  /\ pc' = Word(Read(Above(sp, 3)), Read(Above(sp, 2)))
  /\ sp' = Above(sp, 3)
  /\ Pop
  /\ Retire(Read(Above(sp, 1)))
  /\ UNCHANGED <<running, wait, mem, devices, stackSet>>

Wfi ==
  /\ pc # CodeTop
  /\ pc' = Following
  /\ wait' = TRUE
  /\ Retire(csr0)
  /\ UNCHANGED <<running, sp, mem, devices, frames, stackSet>>

\* SWI: trigger_interrupt whatever the interrupt flag says; id 0 stops.
Swi(id) ==
  /\ pc # CodeTop
  /\ mem' = FramePushed(Following, csr0)
  /\ sp' = Below(sp, 3)
  /\ pc' = Vector[id]
  /\ Push(IntFrame(Following, csr0))
  /\ running' = (running /\ id # HaltId)
  /\ Retire(ClearI(csr0))
  /\ UNCHANGED <<wait, devices, stackSet>>

\* An instruction decode_execute does not know: trigger_interrupt(2), then the
\* program counter is overwritten and the loop is left at once.
Illegal ==
  /\ phase = "execute" /\ ~wait /\ ~Trusted
  /\ mem' = FramePushed(Following, csr0)
  /\ sp' = Below(sp, 3)
  /\ csr0' = ClearI(csr0)
  /\ pc' = IllegalPc
  /\ running' = FALSE
  /\ phase' = "done"
  /\ UNCHANGED <<loop, wait, devices, frames, stackSet>>

\* SB to HW_CTRL or UART_CTRL, and LB from a DATA register (memory_read).
StoreControl ==
  /\ pc # CodeTop
  /\ pc' = Following
  /\ enabled' \in SUBSET Sources
  /\ \E register \in {{"timer", "key"}, {"uart"}} :
       enabled' \ register = enabled \ register
  /\ Retire(csr0)
  /\ UNCHANGED <<running, wait, sp, mem, queued, timerDue, frames, stackSet>>

LoadData(r) ==
  /\ pc # CodeTop
  /\ pc' = Following
  /\ queued' = [queued EXCEPT ![r] = IF @ > 0 THEN @ - 1 ELSE 0]
  /\ \E f \in SoftFlags : Retire(f)
  /\ UNCHANGED <<running, wait, sp, mem, enabled, timerDue, frames, stackSet>>

Instruction ==
  \/ Plain \/ Branch \/ MovFlags \/ MovSp \/ PushReg \/ PopReg
  \/ BranchLink \/ Ret \/ Reti \/ Wfi \/ (\E id \in SwiIds : Swi(id))
  \/ StoreControl \/ (\E r \in Rings \cap Sources : LoadData(r))

\* A trusted guest stays in its stack, with three bytes to spare while a
\* hardware interrupt may come.
StackFits ==
  (Trusted /\ stackSet') =>
    StackTop - sp' + (IF IFlag(csr0') THEN 3 ELSE 0) <= StackRoom

Execute == Sleep \/ Illegal \/ (Instruction /\ StackFits)

CpuStep == Exit \/ (\E s \in Sources : Dispatch(s)) \/ NoDispatch \/ Execute

-----------------------------------------------------------------------------
(* The main thread and the clock. *)

Input(r) ==
  /\ queued[r] < RingCapacity
  /\ queued' = [queued EXCEPT ![r] = @ + 1]
  /\ UNCHANGED <<phase, running, loop, wait, machine,
                 enabled, timerDue, frames, stackSet>>

TimerElapses ==
  /\ "timer" \in Sources /\ ~timerDue
  /\ timerDue' = TRUE
  /\ UNCHANGED <<phase, running, loop, wait, machine,
                 enabled, queued, frames, stackSet>>

\* SIGINT or a closed window.
Stop ==
  /\ running
  /\ running' = FALSE
  /\ UNCHANGED <<phase, loop, wait, machine, devices, frames, stackSet>>

Next ==
  \/ CpuStep
  \/ \E r \in Rings \cap Sources : Input(r)
  \/ TimerElapses
  \/ Stop

Spec == Init /\ [][Next]_vars

\* The operating system runs the CPU thread; the main thread owes nothing.
FairSpec == Spec /\ WF_vars(CpuStep)
-----------------------------------------------------------------------------
(* Properties. *)

Frames ==
  [kind : {"interrupt"}, pc : Words, flags : Bytes]
  \cup [kind : {"call"}, pc : Words] \cup [kind : {"byte"}, value : Bytes]

\* The machine stays in range; between two instructions the reserved bits of
\* csr[0] are clear, whatever MOV and RETI brought into them.
TypeOK ==
  /\ phase \in {"top", "execute", "done"}
  /\ running \in BOOLEAN /\ wait \in BOOLEAN /\ stackSet \in BOOLEAN
  /\ loop \in 0 .. (PollEvery - 1)
  /\ pc \in Words /\ sp \in Words
  /\ csr0 \in {f \in Bytes : ClearReserved(f) = f} \/ phase = "done"
  /\ mem \in [Ram -> Bytes]
  /\ enabled \subseteq Sources
  /\ queued \in [Rings -> 0 .. RingCapacity]
  /\ timerDue \in BOOLEAN
  /\ frames \in Seq(Frames)

\* For a guest that keeps the stack discipline, the bytes that interrupts,
\* calls and pushes leave in memory amount to a stack of frames: every RETI and
\* RET brings back exactly the program counter and flags that were saved,
\* however interrupts nest and wherever between two instructions they come.
Contract == INSTANCE ControlStack
              WITH Addresses <- Words, FlagBytes <- Bytes, flags <- csr0,
                   Enabled <- IFlag, Masked <- ClearI
ImplementsContract == Contract!Spec

\* A program that executes WFI with interrupts shut out sleeps until the
\* machine is stopped: no input, timer or store can wake it.
DeafParkLasts == [][(wait /\ ~IFlag(csr0)) => (wait' /\ UNCHANGED machine)]_vars

\* Looking at the sources only every PollEvery turns starves nobody: a source
\* cannot stay pending for ever while interrupts stay let in.
Ignored(s) == running /\ IFlag(csr0) /\ Pending(s)
NeverIgnoredForever == \A s \in Sources : ~<>[]Ignored(s)

\* Once running is FALSE, the CPU thread leaves its loop, parked or not.
StopStops == ~running ~> phase = "done"

-----------------------------------------------------------------------------
(* The inductive invariant behind the refinement. *)

Size(frame) ==
  IF frame.kind = "byte" THEN 1 ELSE IF frame.kind = "call" THEN 2 ELSE 3

\* The memory m holds a frame whose first byte was pushed at address a.
Holds(m, a, frame) ==
  /\ frame.kind = "byte" => m[a] = frame.value
  /\ frame.kind # "byte" => m[a] = High(frame.pc) /\ m[a - 1] = Low(frame.pc)
  /\ frame.kind = "interrupt" => m[a - 2] = frame.flags

\* at[i] bytes lie between the top of the stack and frame i, and the stack
\* pointer is below the last one.
Layout(at, fs) ==
  /\ at[1] = 0
  /\ \A i \in 1 .. Len(fs) : at[i + 1] = at[i] + Size(fs[i])
  /\ \A i, j \in 1 .. (Len(fs) + 1) : i <= j => at[i] <= at[j]

\* The frames of a trusted guest are in memory, one below the other, within
\* the room it has, and there is room for another one while interrupts may come.
StackHolds(at) ==
  /\ Layout(at, frames)
  /\ \A i \in 1 .. Len(frames) : Holds(mem, StackTop - at[i], frames[i])
  /\ sp = StackTop - at[Len(frames) + 1]
  /\ IFlag(csr0) => at[Len(frames) + 1] + 3 <= StackRoom

Depths == [1 .. (Len(frames) + 1) -> 0 .. StackRoom]
SavedFlagsClean ==
  \A i \in 1 .. Len(frames) :
    frames[i].kind = "interrupt" => ClearReserved(frames[i].flags) = frames[i].flags
StackInv ==
  Trusted =>
    /\ (frames # <<>> \/ IFlag(csr0)) => stackSet
    /\ stackSet => \E at \in Depths : StackHolds(at)
    /\ SavedFlagsClean

CpuInv == TypeOK /\ StackInv
=============================================================================
