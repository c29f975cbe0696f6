---------------------------- MODULE MultiCycle -----------------------------
(***************************************************************************)
(* The multi-cycle core (src/verilog/multicycle): its control unit, the    *)
(* Wishbone master and a slave that may take its time to acknowledge       *)
(* (wb_ram_slave.sv takes none), one clock at a time.                      *)
(*                                                                         *)
(* An action is what the control unit does in one clock; with it move the  *)
(* master, the slave and the device.  ready is o_ready: the transfer under *)
(* way is acknowledged in this clock.  Registers keep the names of cpu.sv. *)
(* tgc_o is lock_o, and the unassigned control registers 1 to 5 are left   *)
(* out.  The upper byte of r_pc is x between the two bytes of an address;  *)
(* it keeps its value here, and nothing reads it.                          *)
(***************************************************************************)
EXTENDS WordMachine

CONSTANTS Lines, DeviceId,
          Machines,      \* what registers and memory may hold at reset
          MaxInterrupts  \* how often the device asks: a bound of the model

ASSUME MultiCycleAssumption ==
    DeviceId \in 0..127 /\ Reserved \in 0..7 /\ MaxInterrupts \in Nat

\* Registers and memory hold bytes, and csr_file keeps bits 7 and 3..0 of the flags.
ASSUME MachinesAssumption ==
    \A m \in Machines :
        /\ m.gpr \in [0..7 -> 0..255] /\ m.csr \in [0..7 -> 0..255] /\ m.csr[0] = Kept(m.csr[0])
        /\ \A a \in DOMAIN m.mem : m.mem[a] \in 0..255

VARIABLES
    r_pc, r_instruction, r_address, r_data, r_int_id,
    gpr, csr, mem,
    cu,       \* r_stage, r_interrupt_stage, r_interrupt_internal, r_wfi
    request,  \* r_wb_req, r_wb_we, r_wb_lock
    bus,      \* cyc_o, stb_o, we_o, lock_o
    line, ack, raised,
    taken,    \* interrupts entered for the device (history)
    last      \* the machine as it was between two instructions (history)

registers == <<r_pc, r_instruction, r_int_id, gpr, csr, cu, ack, taken>>
vars == <<registers, r_address, r_data, mem, request, bus, line, raised, last>>

-----------------------------------------------------------------------------
\* The Wishbone master and the slave.  A request counts only while no
\* transfer is under way, and lasts one clock.
Closed == [cyc |-> FALSE, stb |-> FALSE, we |-> FALSE, lock |-> FALSE]
Opened == [cyc |-> TRUE, stb |-> TRUE, we |-> request.we, lock |-> request.lock]
\* Seeded bugs: the cycle is given up after each transfer; a locked cycle takes
\* no second request.
Unlocked(ready) ==
    CASE bus.stb -> IF ready THEN [bus EXCEPT !.stb = FALSE, !.cyc = FALSE] ELSE bus
      [] ~bus.stb /\ request.req -> Opened
      [] OTHER -> [bus EXCEPT !.cyc = FALSE, !.lock = FALSE]
OneAtATime(ready) ==
    CASE bus.stb -> IF ready THEN [bus EXCEPT !.stb = FALSE, !.cyc = bus.lock] ELSE bus
      [] ~bus.stb /\ ~bus.cyc /\ request.req -> Opened
      [] OTHER -> [bus EXCEPT !.cyc = FALSE, !.lock = FALSE]
NextBus(ready) ==
    CASE bus.stb -> IF ready THEN [bus EXCEPT !.stb = FALSE, !.cyc = bus.lock] ELSE bus
      [] ~bus.stb /\ request.req -> Opened
      [] ~bus.stb /\ ~request.req -> [bus EXCEPT !.cyc = FALSE, !.lock = FALSE]
NextMem(ready) ==
    IF ready /\ bus.we /\ r_address \in DOMAIN mem THEN [mem EXCEPT ![r_address] = r_data] ELSE mem
w_wb_data_o == Manual!Load(mem, r_address)

\* What a clock asks of the bus.
NoRequest == [req |-> FALSE, we |-> FALSE, lock |-> FALSE]
Silent == request' = NoRequest /\ UNCHANGED <<r_address, r_data>>
Ask(a, lock) ==
    /\ request' = [req |-> TRUE, we |-> FALSE, lock |-> lock]
    /\ r_address' = a
    /\ UNCHANGED r_data
Send(a, b, lock) ==
    /\ request' = [req |-> TRUE, we |-> TRUE, lock |-> lock]
    /\ r_address' = a
    /\ r_data' = b

-----------------------------------------------------------------------------
InDecode == Kind(r_instruction)
s == gpr[src(r_instruction)]
Pair == PairAt([gpr |-> gpr], r_instruction)
Sp == csr[6] + 256 * csr[7]
Shown == csr[0] + 16 * Reserved
WithSp(a) == [csr EXCEPT ![6] = a % 256, ![7] = a \div 256]
w_cond == Condition(r_instruction, csr[0])
\* Seeded bug: the device is heard whatever the flags say.
Unmasked == line \/ cu.internal
w_interrupt == (line /\ csr[0] >= 128) \/ cu.internal
Upper == r_pc \div 128
Lower == (2 * r_pc) % 256
WithLower(b) == 128 * (r_pc \div 128) + (b \div 2)
WithUpper(b) == (r_pc % 128) + 128 * b
Target == IF Relative(r_instruction) THEN (r_pc + (Immediate("B", r_instruction) \div 2)) % 2^15
          ELSE Pair \div 2
To(stage) == cu' = [cu EXCEPT !.stage = stage]

\* The second operand: a register, or the immediate.
w_alu_b == CASE InDecode \in {"ALU", "COMPARE"} -> gpr[mod(r_instruction)]
             [] OTHER -> Immediate(InDecode, r_instruction)
Result(junk) == Alu(AluOp(InDecode, r_instruction), s, w_alu_b, csr[0] % 2, FALSE, junk)
Junk == IF AluOp(InDecode, r_instruction) \in Logical THEN 0..1 ELSE {0}
WithFlags(f) == [csr EXCEPT ![0] = 128 * (@ \div 128) + f]

-----------------------------------------------------------------------------
\* Fetch: two locked reads, and the pc moves on.
Idle == cu.stage = 0 /\ cu.int_stage = 0
FetchLow ==
    /\ Idle /\ ~w_interrupt /\ ~cu.wfi
    /\ Ask(2 * r_pc, TRUE)
    /\ To(1)
    /\ UNCHANGED <<r_pc, r_instruction, r_int_id, gpr, csr, ack, taken>>
FetchHigh ==
    /\ cu.stage = 1
    /\ Ask(2 * r_pc + 1, TRUE)
    /\ r_instruction' = 256 * (r_instruction \div 256) + w_wb_data_o
    /\ To(2)
    /\ UNCHANGED <<r_pc, r_int_id, gpr, csr, ack, taken>>
Fetched ==
    /\ cu.stage = 2
    /\ Silent
    /\ r_instruction' = (r_instruction % 256) + 256 * w_wb_data_o
    /\ r_pc' = (r_pc + 1) % 2^15
    /\ To(3)
    /\ UNCHANGED <<r_int_id, gpr, csr, ack, taken>>

\* The instructions of one clock.
InStage3(kinds) == cu.stage = 3 /\ InDecode \in kinds
Calculate ==
    /\ InStage3({"ALU", "SHIFT", "ADD", "LI", "CARRY", "COMPARE"})
    /\ Silent /\ To(0)
    /\ \E junk \in Junk :
         /\ csr' = WithFlags(Result(junk).f)
         /\ gpr' = IF InDecode = "COMPARE" THEN gpr
                   ELSE [gpr EXCEPT ![dst(r_instruction)] = Result(junk).r % 256]
    /\ UNCHANGED <<r_pc, r_instruction, r_int_id, ack, taken>>
MoveFromCsr ==
    /\ InStage3({"FROM CSR"})
    /\ Silent /\ To(0)
    /\ gpr' = [gpr EXCEPT ![dst(r_instruction)] =
                  IF src(r_instruction) = 0 THEN Shown ELSE csr[src(r_instruction)]]
    /\ UNCHANGED <<r_pc, r_instruction, r_int_id, csr, ack, taken>>
MoveToCsr ==
    /\ InStage3({"TO CSR"})
    /\ Silent /\ To(0)
    /\ csr' = [csr EXCEPT ![dst(r_instruction)] = IF dst(r_instruction) = 0 THEN Kept(s) ELSE s]
    /\ UNCHANGED <<r_pc, r_instruction, r_int_id, gpr, ack, taken>>
Branch ==
    /\ InStage3({"B"})
    /\ Silent /\ To(0)
    /\ r_pc' = IF w_cond THEN Target ELSE r_pc
    /\ UNCHANGED <<r_instruction, r_int_id, gpr, csr, ack, taken>>
\* NOP, WFI, SWI and what no pattern matches.
Control ==
    /\ InStage3({"NOP", "WFI", "SWI", "ILLEGAL"})
    /\ Silent
    /\ cu' = [cu EXCEPT !.stage = 0, !.wfi = @ \/ InDecode = "WFI",
                        !.internal = @ \/ InDecode \in {"SWI", "ILLEGAL"}]
    /\ r_int_id' = IF InDecode = "SWI" THEN s % 128 ELSE r_int_id
    /\ UNCHANGED <<r_pc, r_instruction, gpr, csr, ack, taken>>

-----------------------------------------------------------------------------
\* Transfers: the first clock of a kind asks, each later one takes an
\* acknowledgement; done counts the bytes that have come or gone.
done == cu.stage - 3
\* Seeded bug: no byte is waited for.
Hasty(ready) == cu.stage >= 3
Answered(ready) == cu.stage = 3 \/ (cu.stage > 3 /\ ready)

\* Seeded bug: the flags of a frame are taken for the lower byte of the pc.
Shuffled(kind, k) == IF k = 0 THEN "nothing"
    ELSE [POP |-> <<"register">>, RET |-> <<"lower", "upper">>, RETI |-> <<"lower", "flags", "upper">>][kind][k]
\* What the byte that has just come is.
Pulled(kind, k) == IF k = 0 THEN "nothing"
    ELSE [POP |-> <<"register">>, RET |-> <<"lower", "upper">>, RETI |-> <<"flags", "lower", "upper">>][kind][k]
Pulls == [POP |-> 1, RET |-> 2, RETI |-> 3]
Pull(ready) ==
    /\ InDecode \in DOMAIN Pulls /\ Answered(ready)
    /\ LET what == Pulled(InDecode, done)
           more == done < Pulls[InDecode]
           moved == IF more THEN WithSp((Sp + 1) % 65536) ELSE csr
       IN  /\ IF more THEN Ask((Sp + 1) % 65536, InDecode # "POP") ELSE Silent
           /\ To(IF more THEN cu.stage + 1 ELSE 0)
           /\ csr' = IF what = "flags" THEN [moved EXCEPT ![0] = Kept(w_wb_data_o)] ELSE moved
           /\ gpr' = IF what = "register" THEN [gpr EXCEPT ![dst(r_instruction)] = w_wb_data_o] ELSE gpr
           /\ r_pc' = CASE what = "lower" -> WithLower(w_wb_data_o)
                        [] what = "upper" -> WithUpper(w_wb_data_o)
                        [] OTHER -> r_pc
    /\ UNCHANGED <<r_instruction, r_int_id, ack, taken>>

PushByte(b, lock) == Send(Sp, b, lock) /\ csr' = WithSp((Sp - 1) % 65536)

\* PUSH, SB and LB: one transfer.
Single(ready) ==
    /\ InDecode \in {"PUSH", "SB", "LB"} /\ Answered(ready)
    /\ IF done = 0
       THEN /\ CASE InDecode = "PUSH" -> PushByte(s, FALSE)
                 [] InDecode = "SB" -> Send((Pair + Immediate("SB", r_instruction)) % 65536, s, FALSE) /\ csr' = csr
                 [] OTHER -> Ask((Pair + Immediate("LB", r_instruction)) % 65536, FALSE) /\ csr' = csr
            /\ To(4)
            /\ UNCHANGED gpr
       ELSE /\ Silent /\ To(0)
            /\ gpr' = IF InDecode = "LB" THEN [gpr EXCEPT ![dst(r_instruction)] = w_wb_data_o] ELSE gpr
            /\ UNCHANGED csr
    /\ UNCHANGED <<r_pc, r_instruction, r_int_id, ack, taken>>

\* BL pushes the pc, upper byte first.  To a pair of registers it jumps with
\* the second request, and goes on to stage 4 even if it does not jump at all.
Link(ready) ==
    /\ InDecode = "BL" /\ Answered(ready)
    /\ CASE done = 0 /\ w_cond -> PushByte(Upper, TRUE) /\ To(4)
         [] done = 0 /\ ~w_cond -> Silent /\ csr' = csr /\ To(IF Relative(r_instruction) THEN 0 ELSE 4)
         [] done = 1 -> PushByte(Lower, TRUE) /\ To(5)
         [] done = 2 -> Silent /\ csr' = csr /\ To(0)
    /\ r_pc' = IF done = IF Relative(r_instruction) THEN 2 ELSE 1 THEN Target ELSE r_pc
    /\ UNCHANGED <<r_instruction, r_int_id, gpr, ack, taken>>

-----------------------------------------------------------------------------
\* Interrupt entry: three pushes and the two bytes of the vector.
Enter ==
    /\ Idle /\ w_interrupt
    /\ PushByte(Upper, TRUE)
    /\ cu' = [cu EXCEPT !.int_stage = 1, !.wfi = FALSE, !.internal = FALSE]
    /\ r_int_id' = IF cu.internal THEN r_int_id ELSE DeviceId
    /\ ack' = (ack \/ ~cu.internal)
    /\ taken' = taken + (IF cu.internal THEN 0 ELSE 1)
    /\ UNCHANGED <<r_pc, r_instruction, gpr>>
Vector == 65280 + 2 * r_int_id
EnterOn ==
    /\ cu.int_stage > 0
    /\ CASE cu.int_stage = 1 -> PushByte(Lower, TRUE)
         [] cu.int_stage = 2 -> /\ Send(Sp, Shown, TRUE)
                                /\ csr' = [WithSp((Sp - 1) % 65536) EXCEPT ![0] = 0]
         [] cu.int_stage = 3 -> Ask(Vector, TRUE) /\ csr' = csr
         [] cu.int_stage = 4 -> Ask(Vector + 1, TRUE) /\ csr' = csr
         [] cu.int_stage = 5 -> Silent /\ csr' = csr
    /\ r_pc' = CASE cu.int_stage = 4 -> WithLower(w_wb_data_o)
                 [] cu.int_stage = 5 -> WithUpper(w_wb_data_o)
                 [] OTHER -> r_pc
    /\ cu' = [cu EXCEPT !.int_stage = (@ + 1) % 6]
    /\ ack' = (ack /\ cu.int_stage # 1)
    /\ UNCHANGED <<r_instruction, r_int_id, gpr, taken>>

\* Asleep, or waiting for the bus.
Wait(ready) ==
    /\ \/ Idle /\ cu.wfi /\ ~w_interrupt
       \/ ~ready /\ (cu.stage \in {1, 2} \/ cu.stage > 3 \/ cu.int_stage > 0)
    /\ Silent
    /\ UNCHANGED registers

-----------------------------------------------------------------------------
Off == [stage |-> 0, int_stage |-> 0, internal |-> FALSE, wfi |-> FALSE]
Boundary == Idle /\ ~cu.internal
Now == [gpr |-> gpr, csr |-> [csr EXCEPT ![0] = Shown], pc |-> 2 * r_pc, mem |-> mem,
        wait_for_interrupt |-> cu.wfi, running |-> TRUE, debug_mode |-> FALSE]
Init ==
    /\ \E m \in Machines : gpr = m.gpr /\ csr = m.csr /\ mem = m.mem
    /\ r_pc = 0 /\ r_instruction = 0 /\ r_address = 0 /\ r_data = 0 /\ r_int_id = DeviceId
    /\ cu = Off /\ request = NoRequest /\ bus = Closed
    /\ line = FALSE /\ ack = FALSE /\ raised = 0 /\ taken = 0
    /\ last = [machine |-> Now, taken |-> 0]

\* One clock, in which the slave acknowledges if asked, or not yet.
Clock(answer) ==
    LET ready == answer /\ bus.stb
    IN  /\ \/ FetchLow \/ Calculate \/ MoveFromCsr \/ MoveToCsr \/ Branch \/ Control \/ Enter
           \/ ready /\ (FetchHigh \/ Fetched \/ EnterOn)
           \/ Pull(ready) \/ Single(ready) \/ Link(ready) \/ Wait(ready)
        /\ bus' = NextBus(ready)
        /\ mem' = NextMem(ready)
        /\ line' = (line /\ ~ack)
        /\ last' = IF Boundary' THEN [machine |-> Now', taken |-> taken'] ELSE last
        /\ UNCHANGED raised

\* A device asks whenever it likes, and takes its line back on the
\* acknowledgement, as testbench.sv does.
Raise ==
    /\ ~line /\ raised < MaxInterrupts
    /\ line' = TRUE
    /\ raised' = raised + 1
    /\ UNCHANGED <<registers, r_address, r_data, mem, request, bus, last>>

Next == (\E answer \in BOOLEAN : Clock(answer)) \/ Raise
Spec == Init /\ [][Next]_vars
\* The clock runs, and a slave that is asked answers in the end.
FairSpec == Spec /\ WF_vars(Clock(TRUE))

-----------------------------------------------------------------------------
\* The machine as it was between two instructions last, and how often the
\* device had been served.
Whole == IF Boundary THEN Now ELSE last.machine
Served == IF Boundary THEN taken ELSE last.taken

\* Clocks, waits of the bus and interrupts at any moment come to a sequence of
\* whole instructions and whole interrupt entries: the registers, the flags,
\* the stack and the memory are those of isa.md's machine after each of them.
Promise == INSTANCE Sequential WITH machine <- Whole, taken <- Served, asked <- raised
RunsInSequence == Promise!Spec

\* And whatever words the memory holds, each of them does what its stages do
\* together: nothing is left out, done twice or taken from a machine that an
\* interrupt or a late acknowledgement has changed in between; a device is
\* served where its interrupts are enabled and no oftener than it asks.
WordDone == /\ ~Whole.wait_for_interrupt
            /\ Whole' \in After(Past(Whole), WordAt(Whole))
            /\ Served' = Served
InterruptDone == /\ Whole.csr[0] >= 128 /\ Served < raised
                 /\ Whole' = Entered(Whole, DeviceId, Cleared)
                 /\ Served' = Served + 1
WordsAreWhole == [][WordDone \/ InterruptDone]_<<Whole, Served>>

\* Between the bytes of an instruction, a return address, a frame or a vector
\* the bus is not given up, so no other master can change half of it.
Halfway == \/ cu.stage = 2 \/ cu.int_stage \in 2..5
           \/ cu.stage > 4 /\ InDecode \in {"RET", "RETI", "BL"}
Undivided == Halfway => bus.cyc

\* A request is never made while a transfer is under way, when the master
\* would not see it; and a transfer keeps its address, data and direction.
Handshake == [][bus.stb => /\ ~request.req
                           /\ bus'.stb => UNCHANGED <<r_address, r_data, bus>>]_vars

\* Every instruction and every interrupt entry ends, and a sleeping core wakes
\* up for an interrupt that is enabled.  Except that a BL to a pair of
\* registers that is not taken waits for ever for a transfer it never asked for.
Stuck == cu.stage = 4 /\ InDecode = "BL" /\ ~w_cond
GetsOn == []<>(Stuck \/ (Boundary /\ ~w_interrupt))

-----------------------------------------------------------------------------
\* The inductive invariant.

\* The control unit's registers and the bus; only instructions that transfer
\* go past stage 3, and few of them past stages 4 and 5.
Transfers == {"POP", "RET", "RETI", "PUSH", "SB", "LB", "BL"}
ControlInv ==
    /\ cu \in [stage : 0..6, int_stage : 0..5, internal : BOOLEAN, wfi : BOOLEAN]
    /\ request \in [req : BOOLEAN, we : BOOLEAN, lock : BOOLEAN]
    /\ bus \in [cyc : BOOLEAN, stb : BOOLEAN, we : BOOLEAN, lock : BOOLEAN]
    /\ cu.stage = 0 \/ cu.int_stage = 0
    /\ cu.stage > 3 => InDecode \in Transfers
    /\ cu.stage > 4 => InDecode \in {"RET", "RETI", "BL"}
    /\ cu.stage > 5 => InDecode = "RETI"

\* A transfer is asked for or under way, never both, just while the control
\* unit waits for it; but for the BL that waits for nothing.
Waiting == cu.stage \in {1, 2} \/ cu.stage > 3 \/ cu.int_stage > 0
OneTransfer ==
    /\ ~(request.req /\ bus.stb)
    /\ request.req \/ bus.stb => Waiting
    /\ Waiting => request.req \/ bus.stb \/ (cu.stage = 4 /\ InDecode = "BL")

\* Where several transfers belong together, the lock is asked for from the
\* first of them on, and the cycle lasts from there.
Together == cu.stage \in {1, 2} \/ cu.int_stage > 0
            \/ (cu.stage > 3 /\ InDecode \in {"RET", "RETI", "BL"})
LockInv ==
    /\ bus.stb => bus.cyc
    /\ Together => (request.req => request.lock) /\ (bus.stb => bus.lock)
    /\ Undivided

BusInv == ControlInv /\ OneTransfer /\ LockInv
=============================================================================
