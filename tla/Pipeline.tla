------------------------------ MODULE Pipeline ------------------------------
(***************************************************************************)
(* The pipelined core (src/verilog/pipelined): one clock at a time, with   *)
(* ram.sv, whose stall outputs are 0.  The registers between the stages    *)
(* are records of one shape: what is still to be done of an instruction.   *)
(* The ALU's inputs are all latched with them, so its result is computed   *)
(* as the instruction leaves decode.  Program counters count words.        *)
(*                                                                         *)
(* cpu is the machine of InstructionSet: it takes each instruction whole,  *)
(* when the core issues it.  spoilt becomes TRUE where the core does       *)
(* something its own hazard logic gets wrong; the cases are the disjuncts  *)
(* of Mishandled, and the promises below hold up to the first of them.     *)
(***************************************************************************)
EXTENDS Core

CONSTANTS Undriven,      \* what a build reads from w_mem_rdata, which nothing drives
          DeviceId,      \* the interrupt the device asks for
          Programs,      \* what the memory the core fetches from may hold
          Machines,      \* what registers and memory may hold at reset
          MaxInterrupts  \* how often the device asks: a bound of the model
ASSUME UndrivenAssumption == Undriven \in 0..255
ASSUME DeviceAssumption == DeviceId \in 0..127 /\ MaxInterrupts \in Nat

VARIABLES code,          \* the program: an instruction for each word address
          r_pc, ifid,
          ahead,         \* the registers ID/EX, EX/MEM and MEM/WB
          gpr, csr, mem,
          cu,            \* the registers of the control unit
          int_id, line, ack, raised, cpu, spoilt,
          waited         \* clocks since an instruction issued
vars == <<code, r_pc, ifid, ahead, gpr, csr, mem, cu, int_id, line, ack, raised, cpu, spoilt, waited>>
idex == ahead[1]
exmem == ahead[2]
memwb == ahead[3]

-----------------------------------------------------------------------------
InDecode == ifid.kind

\* The transfers that take several clocks in decode, and the last of them.
LastStage == [RET |-> 1, RETI |-> 3, BL |-> 2]
Several(kind) == kind \in DOMAIN LastStage

-----------------------------------------------------------------------------
\* Forwarding.  The instructions in EX, MEM and WB are 1, 2 and 3.
\* Seeded bug: the oldest of several writers.
Oldest(S) == CHOOSE i \in S : \A j \in S : j <= i
Youngest(S) == CHOOSE i \in S : \A j \in S : i <= j
GprWriters(r) == {i \in 1..3 : ahead[i].rf /\ ahead[i].d = r}
CsrWriters(c) == {i \in 1..3 : ahead[i].cf /\ ahead[i].cd = c}
SpWriters == {i \in 1..3 : ahead[i].sp}
FlagWriters == {i \in 1..3 : ahead[i].fl}
Byte(S, otherwise) == IF S = {} THEN otherwise ELSE ahead[Youngest(S)].byte

Gpr(r) == Byte(GprWriters(r), gpr[r])
GprPair(n) == Gpr(2 * n) + 256 * Gpr(2 * n + 1)
\* A write of one half lies over the youngest whole pointer, whichever is younger.
StackPointer ==
    LET whole == IF SpWriters = {} THEN csr[6] + 256 * csr[7] ELSE ahead[Youngest(SpWriters)].adata
    IN  Byte(CsrWriters(6), whole % 256) + 256 * Byte(CsrWriters(7), whole \div 256)
Flags == LET written == CsrWriters(0)
         IN  IF written # {} THEN Kept(Byte(written, 0))
             ELSE IF FlagWriters # {} THEN ahead[Youngest(FlagWriters)].flags ELSE csr[0]
\* A pending change of the pointer is found if its own bits 15..13 are 6 or 7.
Csr(c) ==
    LET of(n) == {i \in SpWriters : ahead[i].cd = n}
    IN  IF of(6) # {} THEN ahead[Youngest(of(6))].adata % 256
        ELSE IF of(7) # {} THEN ahead[Youngest(of(7))].adata \div 256
        ELSE IF c = 0 THEN Flags ELSE Byte(CsrWriters(c), csr[c])

\* What an instruction in decode reads, as the forwarding unit sees it.
w_rsel1_read == InDecode \notin {"NOP", "RET", "WFI", "RETI", "B", "BL", "LI", "FROM CSR"}
w_rsel2_read == InDecode \in {"ALU", "COMPARE", "SB", "LB"}
w_is_sp_op == \/ InDecode \in {"PUSH", "POP"}
              \/ InDecode \in {"RET", "BL"} /\ cu.stage < 2
              \/ InDecode = "RETI" /\ cu.stage < 3
w_flags_read == \/ InDecode \in {"B", "BL"} /\ dst(ifid.inst) # 7 /\ ifid.inst % 256 # 112
                \/ InDecode = "FROM CSR" /\ src(ifid.inst) = 0
w_interrupt == cu.internal \/ (line /\ Flags >= 128)
TakesSp == cu.int_stage <= 2 /\ (w_is_sp_op \/ w_interrupt \/ cu.int_stage > 0)
TakesPair == cu.int_stage <= 2 /\ ~TakesSp

\* The stall for a load that is still in EX.
o_stall ==
    LET two == 2 * Field(ifid.inst, 8, 2)
        matched == (IF w_rsel1_read THEN {src(ifid.inst)} ELSE {})
                   \cup (IF w_rsel2_read THEN {mod(ifid.inst)} ELSE {})
                   \cup (IF TakesPair THEN {two, two + 1} ELSE {})
    IN  idex.re /\ \/ idex.rf /\ idex.d \in matched
                   \/ idex.cf /\ idex.cd = 0 /\ w_flags_read

High(npc) == (2 * npc) \div 256
Low(npc) == (2 * npc) % 256
o_id_a ==
    LET saved(n) == CASE n = 0 -> High(ifid.npc) [] n = 1 -> Low(ifid.npc) [] OTHER -> gpr[src(ifid.inst)]
    IN  CASE InDecode = "FROM CSR" -> Csr(src(ifid.inst))
          [] w_rsel1_read -> Gpr(src(ifid.inst))
          [] InDecode = "BL" -> saved(cu.stage)
          [] cu.int_stage = 2 -> Flags
          [] OTHER -> IF w_interrupt \/ cu.int_stage > 0 THEN saved(cu.int_stage) ELSE gpr[src(ifid.inst)]
o_id_b == IF w_rsel2_read THEN Gpr(mod(ifid.inst)) ELSE gpr[mod(ifid.inst)]
o_id_adata == CASE TakesSp -> StackPointer
                [] TakesPair -> GprPair(Field(ifid.inst, 8, 2))
                [] OTHER -> 65280 + 2 * int_id + (cu.int_stage - 3)
w_cond == Condition(ifid.inst, Flags)

-----------------------------------------------------------------------------
\* What is left to do of an instruction: nothing, or the writes whose enables
\* are set.
Nothing == [rf |-> FALSE, d |-> 0, cf |-> FALSE, cd |-> 0, fl |-> FALSE, sp |-> FALSE, re |-> FALSE,
            we |-> FALSE, pcl |-> FALSE, pcu |-> FALSE, pc |-> FALSE, byte |-> 0, wdata |-> 0,
            adata |-> 0, adr |-> 0, flags |-> 0]
\* Through the ALU: the result is written, and is the address if "to" says so.
Through(op, x, y, junk) ==
    LET res == Alu(op, x, y, Flags % 2, TRUE, junk)
    IN  [Nothing EXCEPT !.d = dst(ifid.inst), !.cd = dst(ifid.inst), !.byte = res.r % 256,
                        !.wdata = res.r % 256, !.adata = res.r, !.adr = res.r,
                        !.flags = 128 * (Flags \div 128) + res.f]
SetsFlags(op, x, y, junk) == [Through(op, x, y, junk) EXCEPT !.fl = TRUE]
Computes(op, x, y, junk) == [SetsFlags(op, x, y, junk) EXCEPT !.rf = TRUE]
Pull == [Through(0, o_id_adata, 1, 0) EXCEPT !.sp = TRUE, !.re = TRUE]
\* Seeded bug: the byte is stored below the pointer.
PushBelow == [Through(2, o_id_adata, 1, 0) EXCEPT !.sp = TRUE, !.we = TRUE, !.wdata = o_id_a]
Push == [Through(2, o_id_adata, 1, 0) EXCEPT !.sp = TRUE, !.we = TRUE, !.adr = o_id_adata, !.wdata = o_id_a]
Jump ==
    LET to == IF Relative(ifid.inst) THEN (2 * ifid.npc + Immediate("B", ifid.inst)) % 65536 ELSE o_id_adata
    IN  [Nothing EXCEPT !.pc = TRUE, !.adata = to]

-----------------------------------------------------------------------------
\* The control unit.  Deciding: it looks at the instruction; Starts: a
\* transfer takes the first of its clocks.
Deciding == cu.stage > 0 \/ (cu.int_stage = 0 /\ ~w_interrupt /\ ~cu.wfi)
Entering == cu.stage = 0 /\ cu.int_stage = 0 /\ w_interrupt
Starts == Several(InDecode) /\ cu.stage = 0 /\ ~cu.held /\ (InDecode = "BL" => w_cond)
Working == Starts \/ (cu.stage > 0 /\ cu.stage < LastStage[InDecode])

Operation(junk) ==
    LET a == o_id_a
        b == o_id_b
        imm == Immediate(InDecode, ifid.inst)
        op == AluOp(InDecode, ifid.inst)
        at == cu.stage
    IN  CASE InDecode = "ALU" -> Computes(op, a, b, junk)
          [] InDecode \in {"SHIFT", "ADD", "LI", "CARRY"} -> Computes(op, a, imm, junk)
          [] InDecode = "COMPARE" -> SetsFlags(op, a, b, junk)
          [] InDecode = "FROM CSR" -> Computes(11, a, b, junk)
          [] InDecode = "TO CSR" -> [Through(11, a, b, junk) EXCEPT !.cf = TRUE]
          [] InDecode = "SB" -> [Through(0, o_id_adata, imm, 0) EXCEPT !.we = TRUE, !.wdata = a]
          [] InDecode = "LB" -> [Through(0, o_id_adata, imm, 0) EXCEPT !.rf = TRUE, !.re = TRUE]
          [] InDecode = "PUSH" -> Push
          [] InDecode = "POP" -> [Pull EXCEPT !.rf = TRUE]
          [] InDecode = "RET" /\ (Starts \/ at > 0) -> [Pull EXCEPT !.pcl = Starts, !.pcu = ~Starts]
          [] InDecode = "RETI" /\ Working ->
               [Pull EXCEPT !.cf = (at = 0), !.cd = 0, !.pcl = (at = 1), !.pcu = (at = 2)]
          [] InDecode = "BL" /\ Working -> Push
          [] \/ InDecode = "BL" /\ at = LastStage.BL
             \/ InDecode = "B" /\ w_cond -> Jump
          [] OTHER -> Nothing
Issued(junk) ==
    CASE Entering \/ cu.int_stage \in {1, 2} -> Push
      [] cu.int_stage \in {3, 4} ->
           [Nothing EXCEPT !.re = TRUE, !.adr = o_id_adata, !.pcl = (cu.int_stage = 3), !.pcu = (cu.int_stage = 4)]
      [] OTHER -> IF Deciding THEN Operation(junk) ELSE Nothing

\* Whether fetch waits and decode keeps its instruction.
Leaves == Deciding /\ \/ InDecode \in {"WFI", "SWI", "ILLEGAL"}
                      \/ InDecode = "B" /\ w_cond
                      \/ Starts \/ cu.stage > 0
o_if_stall == cu.if_stall > 0 \/ Leaves \/ cu.wfi \/ w_interrupt \/ cu.int_stage > 0
o_hold == cu.stage > 0 \/ cu.int_stage > 0 \/ Entering \/ (Deciding /\ Starts)

\* Whether fetch has to wait for a new pc, and for how long: three clocks.
Restarts == \/ Entering \/ cu.int_stage = 4
            \/ Deciding /\ \/ InDecode \in {"SWI", "ILLEGAL"} \/ (InDecode = "B" /\ w_cond)
                           \/ Starts \/ (cu.stage > 0 /\ ~Working)
\* Seeded bugs: a clock too few; a counter that does not count.
TwoBubbles == CASE Restarts -> 2 [] ~Restarts /\ cu.if_stall > 0 -> cu.if_stall - 1 [] OTHER -> 0
StallsOn == IF Restarts THEN 3 ELSE cu.if_stall
NextStall == CASE Restarts -> 3 [] ~Restarts /\ cu.if_stall > 0 -> cu.if_stall - 1 [] OTHER -> 0
NextWfi == (cu.wfi \/ (Deciding /\ InDecode = "WFI")) /\ ~Entering
NextControl ==
    [stage |-> CASE Deciding /\ Working -> cu.stage + 1 [] ~Deciding -> cu.stage [] OTHER -> 0,
     held |-> (Deciding /\ Starts) \/ (cu.held /\ ~(cu.stage = 0 /\ cu.if_stall = 0)),
     if_stall |-> NextStall,
     wfi |-> NextWfi,
     internal |-> (cu.internal \/ (Deciding /\ InDecode \in {"SWI", "ILLEGAL"})) /\ ~Entering,
     int_stage |-> CASE Entering -> 1 [] cu.int_stage \in 1..3 -> cu.int_stage + 1 [] OTHER -> 0]
NextIntId ==
    CASE o_stall -> int_id
      [] Entering /\ ~cu.internal -> DeviceId
      [] Deciding /\ InDecode = "SWI" -> o_id_a % 128
      [] Deciding /\ InDecode = "ILLEGAL" -> 2
      [] OTHER -> int_id

-----------------------------------------------------------------------------
\* The registers at the clock's edge.  real: not a NOP put in by a flush.
Sleep == [word |-> 16384, kind |-> "WFI", line |-> <<[t |-> "instr", v |-> "WFI"]>>]
InstructionAt(p) == IF p \in DOMAIN code THEN code[p] ELSE Sleep
NextPc ==
    CASE memwb.pcl -> 128 * (r_pc \div 128) + (memwb.byte \div 2)
      [] memwb.pcu -> (r_pc % 128) + 128 * memwb.byte
      [] memwb.pc -> memwb.adata \div 2
      [] OTHER -> IF o_stall \/ o_if_stall THEN r_pc ELSE (r_pc + 1) % 2^15
NextFetched ==
    IF o_if_stall /\ ~o_hold THEN [ifid EXCEPT !.inst = 0, !.kind = "NOP", !.real = FALSE]
    ELSE IF o_stall \/ o_hold THEN ifid
    ELSE [inst |-> InstructionAt(r_pc).word, kind |-> InstructionAt(r_pc).kind, npc |-> (r_pc + 1) % 2^15, real |-> TRUE]
\* A load's byte in MEM comes from the wire that nothing drives.
InMem == [idex EXCEPT !.byte = IF idex.re THEN Undriven ELSE idex.wdata]
Loaded == IF exmem.re THEN IF exmem.adr \in DOMAIN mem THEN mem[exmem.adr] ELSE Elsewhere(exmem.adr) ELSE exmem.wdata
NextCsr ==
    [c \in 0..7 |->
        CASE c = 0 /\ memwb.fl -> memwb.flags
          [] c = 6 /\ memwb.sp -> memwb.adata % 256
          [] c = 7 /\ memwb.sp -> memwb.adata \div 256
          [] OTHER -> IF memwb.cf /\ memwb.cd = c THEN IF c = 0 THEN Kept(memwb.byte) ELSE memwb.byte
                      ELSE csr[c]]

-----------------------------------------------------------------------------
\* The reference.  An instruction issues once: in the clock in which the
\* control unit acts on it.
Here == (ifid.npc - 1) % 2^15
Issuing == ifid.real /\ ~cu.held /\ cu.stage = 0 /\ Deciding /\ ~o_stall
AfterIssue(own) ==
    LET written == InstructionAt(Here).line
    IN  IF written[1].t = "bad" THEN Entered(Past(cpu), 2, cpu.csr[0])
        ELSE Promised(cpu, written, written[1].v \in {"LB", "POP"}, own)

\* The operands an instruction uses, and whether a load in MEM is the
\* youngest writer of one of them.
UsesA == InDecode \in {"ALU", "SHIFT", "ADD", "CARRY", "COMPARE", "TO CSR", "SB", "PUSH", "SWI"}
UsesB == InDecode \in {"ALU", "COMPARE"}
UsesPair == InDecode \in {"LB", "SB"} \/ (InDecode = "B" /\ w_cond /\ ifid.inst % 16 = 0)
UsedGprs == LET two == 2 * Field(ifid.inst, 8, 2)
            IN  (IF UsesA THEN {src(ifid.inst)} ELSE {}) \cup (IF UsesB THEN {mod(ifid.inst)} ELSE {})
                \cup (IF UsesPair THEN {two, two + 1} ELSE {})
OlderThan(S, T) == \E i \in S, j \in T : j < i
Mishandled ==
    \/ o_stall
    \/ \E r \in UsedGprs : GprWriters(r) # {} /\ Youngest(GprWriters(r)) = 2 /\ exmem.re
    \/ OlderThan(CsrWriters(0), FlagWriters)
    \/ TakesSp /\ OlderThan(CsrWriters(6) \cup CsrWriters(7), SpWriters)
    \/ InDecode = "FROM CSR" /\ SpWriters # {}
    \/ Entering /\ ~cu.internal /\ ~cu.wfi

-----------------------------------------------------------------------------
Off == [stage |-> 0, held |-> FALSE, if_stall |-> 0, wfi |-> FALSE, internal |-> FALSE, int_stage |-> 0]
Init ==
    /\ code \in Programs
    /\ cpu \in Machines
    /\ gpr = cpu.gpr /\ csr = cpu.csr /\ mem = cpu.mem
    /\ r_pc = 0 /\ ifid = [inst |-> 0, kind |-> "NOP", npc |-> 0, real |-> FALSE]
    /\ ahead = <<Nothing, Nothing, Nothing>>
    /\ cu = Off /\ int_id = 0 /\ line = FALSE /\ ack = FALSE /\ raised = 0 /\ spoilt = FALSE /\ waited = 0

\* One clock.  The device takes its line back at the edge that follows the
\* acknowledgement.
Clock ==
    /\ \E junk \in IF InDecode \in {"ALU", "SHIFT", "COMPARE"} THEN 0..1 ELSE {0} :
         LET work == Issued(junk)
         IN  /\ ahead' = <<IF o_stall THEN idex ELSE work, InMem, [exmem EXCEPT !.byte = Loaded]>>
             /\ cpu' = IF Issuing THEN AfterIssue(IF work.fl THEN work.flags ELSE Flags)
                       ELSE IF Entering /\ ~cu.internal THEN Entered(cpu, DeviceId, cpu.csr[0]) ELSE cpu
    /\ ifid' = NextFetched
    /\ r_pc' = NextPc
    /\ gpr' = IF memwb.rf THEN [gpr EXCEPT ![memwb.d] = memwb.byte] ELSE gpr
    /\ csr' = NextCsr
    /\ mem' = IF exmem.we /\ exmem.adr \in DOMAIN mem THEN [mem EXCEPT ![exmem.adr] = exmem.wdata] ELSE mem
    /\ cu' = NextControl
    /\ int_id' = NextIntId
    /\ ack' = IF Entering THEN ack \/ ~cu.internal ELSE ack /\ cu.int_stage # 1
    /\ line' = (line /\ ~ack)
    /\ spoilt' = (spoilt \/ Mishandled)
    /\ waited' = IF Issuing \/ spoilt \/ Mishandled \/ (cu.wfi /\ ~w_interrupt) THEN 0 ELSE waited + 1
    /\ UNCHANGED <<code, raised>>

\* A device asks whenever it likes (that of tb_cpu.sv only while the core sleeps).
Raise ==
    /\ ~line /\ raised < MaxInterrupts
    /\ line' = TRUE
    /\ raised' = raised + 1
    /\ UNCHANGED <<code, r_pc, ifid, ahead, gpr, csr, mem, cu, int_id, ack, cpu, spoilt, waited>>

Next == Clock \/ Raise
Spec == Init /\ [][Next]_vars

-----------------------------------------------------------------------------
\* The core takes no instruction but the one the program is at: none is lost
\* in a flush, issued twice in a hold, or fetched behind a transfer, across
\* branches, calls, returns, software and hardware interrupts.
InOrder == Issuing /\ ~spoilt => 2 * Here = cpu.pc

\* What decode reads, from the register files or from an instruction still in
\* EX, MEM or WB, is what the program has there by then: registers, pairs, the
\* stack pointer, the control registers and the flags.
OperandsCurrent ==
    Issuing /\ ~spoilt /\ ~Mishandled =>
        /\ UsesA => o_id_a = cpu.gpr[src(ifid.inst)]
        /\ UsesB => o_id_b = cpu.gpr[mod(ifid.inst)]
        /\ UsesPair => o_id_adata = PairAt(cpu, ifid.inst)
        /\ TakesSp => o_id_adata = sp(cpu)
        /\ InDecode = "FROM CSR" => o_id_a = cpu.csr[src(ifid.inst)]
        /\ Flags = cpu.csr[0]

\* With nothing in flight, the registers, the flags and the memory are what
\* isa.md makes of the instructions issued so far and the interrupts taken.
Enables(e) == e.rf \/ e.cf \/ e.fl \/ e.sp \/ e.re \/ e.we \/ e.pcl \/ e.pcu \/ e.pc
Drained == /\ ~Enables(idex) /\ ~Enables(exmem) /\ ~Enables(memwb)
           /\ cu.stage = 0 /\ cu.int_stage = 0 /\ ~cu.internal
CommittedState ==
    Drained /\ ~spoilt => gpr = cpu.gpr /\ mem = cpu.mem /\ \A c \in {0, 6, 7} : csr[c] = cpu.csr[c]

\* The core gets on: it issues an instruction in one clock of ten at least,
\* unless it sleeps and nobody wakes it, and it answers the device that does.
GetsOn == waited <= 9
\* Nothing is promised of a behaviour past the first mishandled clock.
Unspoilt == ~spoilt

-----------------------------------------------------------------------------
(* Why it gets on: where the control unit may be between two instructions, *)
(* and how long it can have been waiting there.                            *)

Resting == cu.stage = 0 /\ cu.int_stage = 0 /\ ~cu.wfi /\ ~cu.internal
\* An instruction is in decode and nothing keeps it from issuing.
Ready == Resting /\ ifid.real /\ ~cu.held /\ cu.if_stall = 0 /\ waited <= 9
\* A transfer of several clocks holds its instruction in decode.
Transferring ==
    /\ cu.stage > 0 /\ cu.held /\ Several(InDecode) /\ cu.stage <= LastStage[InDecode]
    /\ cu.int_stage = 0 /\ ~cu.wfi /\ ~cu.internal /\ waited < cu.stage
\* Fetch waits for the pc that is on its way, decode has nothing new.
Refilling == Resting /\ (~ifid.real \/ (cu.held /\ Several(InDecode))) /\ waited + cu.if_stall <= 8
\* Asleep, or about to enter a software interrupt.
Stopped == cu.stage = 0 /\ cu.int_stage = 0 /\ (cu.wfi \/ cu.internal) /\ ~cu.held /\ ~ifid.real /\ waited = 0
EnteringOn == cu.stage = 0 /\ cu.int_stage > 0 /\ ~cu.wfi /\ ~cu.internal /\ ~cu.held /\ ~ifid.real
              /\ waited <= cu.int_stage

ControlTypes ==
    /\ cu \in [stage : 0..3, held : BOOLEAN, if_stall : 0..3, wfi : BOOLEAN, internal : BOOLEAN, int_stage : 0..4]
    /\ ifid = [inst |-> ifid.inst, kind |-> ifid.kind, npc |-> ifid.npc, real |-> ifid.real]
    /\ ifid.real \in BOOLEAN
    /\ ~ifid.real => InDecode = "NOP"
ProgressInv ==
    /\ spoilt \in BOOLEAN /\ waited \in Nat
    /\ spoilt => waited = 0
    /\ ~spoilt => ControlTypes /\ (Ready \/ Transferring \/ Refilling \/ Stopped \/ EnteringOn)
=============================================================================
