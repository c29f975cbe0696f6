------------------------- MODULE MultiCycleSequence -------------------------
(***************************************************************************)
(* Why the clocks of the multi-cycle core come to whole words: how far     *)
(* each clock has brought the machine that was there at the last boundary, *)
(* last.machine, towards the one that will be there at the next.  For each *)
(* stage of each kind of instruction, and of the entry to an interrupt,    *)
(* SequenceInv says what the registers, the memory and the store under way *)
(* amount to together (View), and which byte is being read.                *)
(***************************************************************************)
EXTENDS MultiCycle

\* The machine once the store asked for or under way has been made.
Storing == (request.req /\ request.we) \/ (bus.stb /\ bus.we)
View == [Now EXCEPT !.mem = IF Storing THEN Manual!Store(mem, r_address, r_data) ELSE mem]
Reads(a) == r_address = a /\ ~Storing

Going == Past(last.machine)
Here == WordAt(last.machine)
Named(id) == Kind(Here) = "ILLEGAL" \/ (Kind(Here) = "SWI" /\ id = last.machine.gpr[src(Here)] % 128)

\* The pc when the lower byte of its new value has come.
HalfPc(pc, b) == 256 * (pc \div 256) + 2 * (b \div 2)

FetchInv ==
    /\ cu.stage \in 1..2 => View = last.machine
    /\ cu.stage = 1 => Reads(last.machine.pc)
    /\ cu.stage = 2 => /\ Reads((last.machine.pc + 1) % 65536)
                       /\ r_instruction % 256 = Manual!Load(last.machine.mem, last.machine.pc)
    /\ cu.stage = 3 => View = Going
    /\ cu.stage > 2 => r_instruction = Here

\* The machine m when an instruction of a kind has taken k bytes off its stack
\* and used those before the last of them.
HalfBack(m, kind, k) ==
    CASE kind = "RET" /\ k = 2 -> HalfPc(m.pc, Manual!Popped(m, 1))
      [] kind = "RETI" /\ k = 3 -> HalfPc(m.pc, Manual!Popped(m, 2))
      [] OTHER -> m.pc
FlagsBack(m, kind, k) ==
    IF kind = "RETI" /\ k > 1 THEN Kept(Manual!Popped(m, 1)) + Cleared ELSE m.csr[0]
PulledOff(m, kind, k) ==
    [Manual!Dropped(m, k) EXCEPT !.pc = HalfBack(m, kind, k), !.csr[0] = FlagsBack(m, kind, k)]
PullInv ==
    cu.stage > 3 /\ InDecode \in DOMAIN Pulls =>
        /\ Reads((Manual!StackPointer(Going) + done) % 65536)
        /\ View = PulledOff(Going, InDecode, done)

SingleInv ==
    cu.stage = 4 =>
        /\ InDecode = "PUSH" => View = Manual!Pushed(Going, s)
        /\ InDecode = "SB" =>
              View = [Going EXCEPT !.mem = Manual!Store(@, (Pair + Immediate("SB", r_instruction)) % 65536, s)]
        /\ InDecode = "LB" =>
              View = Going /\ Reads((Pair + Immediate("LB", r_instruction)) % 65536)

LinkInv ==
    InDecode = "BL" =>
        /\ cu.stage = 4 => IF w_cond THEN View = Manual!Pushed(Going, Going.pc \div 256)
                                     ELSE ~request.req /\ ~bus.stb
        /\ cu.stage = 5 =>
              /\ w_cond
              /\ View = [Manual!Pushed(Manual!Pushed(Going, Going.pc \div 256), Going.pc % 256)
                            EXCEPT !.pc = IF Relative(r_instruction) THEN @ ELSE 2 * Target]

\* An interrupt of the device finds the machine between two instructions, one
\* of the program finds it behind its instruction.
Found == IF taken = last.taken THEN Going ELSE last.machine
Saved1 == Manual!Pushed(Found, Found.pc \div 256)
Saved2 == Manual!Pushed(Saved1, Found.pc % 256)
Saved3 == [Manual!Pushed(Saved2, Found.csr[0]) EXCEPT !.csr[0] = Cleared]
Saving(n) == CASE n = 1 -> Saved1 [] n = 2 -> Saved2 [] OTHER -> Saved3
VectorLow == Manual!Load(Saved3.mem, Vector)
OnTheWay(pc, n, b) == IF n = 5 THEN HalfPc(pc, b) ELSE pc
Awake(m, n, b) == [m EXCEPT !.wait_for_interrupt = FALSE, !.pc = OnTheWay(@, n, b)]
EnterInv ==
    cu.int_stage > 0 =>
        /\ ~cu.internal
        /\ IF taken = last.taken THEN ~last.machine.wait_for_interrupt /\ Named(r_int_id)
           ELSE taken = last.taken + 1 /\ r_int_id = DeviceId /\ last.machine.csr[0] >= 128
        /\ cu.int_stage > 3 => Reads(Vector + (cu.int_stage - 4))
        /\ View = Awake(Saving(cu.int_stage), cu.int_stage, VectorLow)

IdleInv ==
    /\ Idle => IF cu.internal
               THEN /\ View = Going /\ ~last.machine.wait_for_interrupt
                    /\ last.taken = taken /\ Named(r_int_id)
               ELSE last = [machine |-> View, taken |-> taken]
    /\ cu.stage > 0 => /\ ~cu.internal /\ last.taken = taken
                       /\ ~last.machine.wait_for_interrupt

\* No interrupt is entered that the device did not ask for.
RequestInv ==
    /\ taken \in Nat /\ raised \in Nat /\ taken + (IF line /\ ~ack THEN 1 ELSE 0) <= raised
    /\ line \in BOOLEAN /\ ack \in BOOLEAN /\ (ack => cu.int_stage = 1)

AByte == 0..255
Bytes == [0..7 -> AByte]
FlagBytes == {Kept(b) : b \in AByte}
ShownFlags == {f + 16 * Reserved : f \in FlagBytes}
Addresses == 0..65535
WordAddresses == 0..32767
Ids == 0..127
MachineTypes(m) ==
    /\ m \in [gpr : Bytes, csr : Bytes, pc : Addresses, mem : {m.mem},
              wait_for_interrupt : BOOLEAN, running : {TRUE}, debug_mode : {FALSE}]
    /\ m.csr[0] \in ShownFlags
    /\ m.pc % 2 = 0
    /\ \A a \in DOMAIN m.mem : m.mem[a] \in AByte

RegisterTypes ==
    /\ gpr \in Bytes /\ csr \in Bytes /\ csr[0] \in FlagBytes
    /\ r_pc \in WordAddresses /\ r_instruction \in Addresses /\ r_int_id \in Ids
    /\ \A a \in DOMAIN mem : mem[a] \in AByte
    /\ r_address \in Addresses /\ r_data \in AByte
    /\ MachineTypes(last.machine) /\ last.taken \in Nat

SequenceInv ==
    /\ BusInv /\ RegisterTypes /\ RequestInv
    /\ IdleInv /\ FetchInv /\ PullInv /\ SingleInv /\ LinkInv /\ EnterInv
=============================================================================
