--------------------------- MODULE InstructionSet ---------------------------
(***************************************************************************)
(* What isa.md promises of an instruction as it is written, in ordinary    *)
(* arithmetic: the specification that the assembler's encoding and the     *)
(* CPU's decoding are compared with.  A line is a sequence of tokens, the  *)
(* mnemonic first; commas are left out.                                    *)
(*                                                                         *)
(* isa.md marks each flag of an instruction m (modified) or x (unknown),   *)
(* and says nothing of flags where none changes: "sure" holds the bits     *)
(* that have a promised value.  Shift counts are below 8, the width of a   *)
(* register.                                                               *)
(***************************************************************************)
EXTENDS Integers, Sequences, ByteLogic

CONSTANT Elsewhere(_)   \* what a load finds outside the modelled memory

Byte == 0..255
Signed8(b) == IF b > 127 THEN b - 256 ELSE b
Flag(b, weight) == IF b THEN weight ELSE 0
CarryBit == 1
ZeroBit == 2
NegativeBit == 4
OverflowBit == 8
InterruptBit == 128
LogicFlags == {ZeroBit, NegativeBit, InterruptBit}
AllFlags == LogicFlags \cup {CarryBit, OverflowBit}
Bit(b, weight) == (b \div weight) % 2

\* The number a pair of registers or the stack pointer makes.
Pair(low, high) == low + 256 * high
StackPointer(cpu) == Pair(cpu.csr[6], cpu.csr[7])
Carry(cpu) == Bit(cpu.csr[0], CarryBit)

Sum(x, y, c) == [r |-> (x + y + c) % 256, c |-> x + y + c > 255,
                 v |-> Signed8(x) + Signed8(y) + c \notin -128..127]
Difference(x, y, b) == [r |-> (x - y - b) % 256, c |-> x >= y + b,
                        v |-> Signed8(x) - Signed8(y) - b \notin -128..127]
Plain8(r) == [r |-> r % 256, c |-> FALSE, v |-> FALSE]

\* ">label" is the high byte of an address, "<label" or "label" the low one.
Immediate(token) == IF token.t = "high" THEN token.v \div 256 ELSE token.v % 256
Value(cpu, token) == IF token.t = "reg" THEN cpu.gpr[token.v] ELSE Immediate(token)

\* The condition codes 0 to 7 against the flags.
Holds(cond, flags) ==
    LET bit == CASE cond \in {0, 1} -> ZeroBit [] cond \in {2, 3} -> CarryBit
                 [] cond \in {4, 5} -> NegativeBit [] OTHER -> OverflowBit
        on == Bit(flags, bit) = 1
    IN  cond = 7 \/ (IF cond \in {0, 2, 4, 6} THEN on ELSE ~on)

\* Result and flags of the instructions that compute one.
Computed(name, x, y, c) ==
    CASE name \in {"ADD"} -> Sum(x, y, 0)
      [] name = "ADC" -> Sum(x, y, c)
      [] name \in {"SUB", "CMP"} -> Difference(x, y, 0)
      [] name = "SBB" -> Difference(x, y, 1 - c)
      [] name = "INCC" -> Sum(x, 0, c)
      [] name = "DECB" -> Difference(x, 0, 1 - c)
      [] name \in {"AND", "CMA"} -> Plain8(x & y)
      [] name = "OR" -> Plain8(x | y)
      [] name = "NOR" -> Plain8(255 - (x | y))
      [] name = "XOR" -> Plain8(x ^^ y)
      [] name = "SLL" -> Plain8(x * 2^(y % 8))
      [] name = "SRL" -> Plain8(x \div 2^(y % 8))
      [] name = "SRA" -> Plain8(Signed8(x) \div 2^(y % 8))
      [] OTHER -> Plain8(x)

ThreeOperand == {"ADD", "ADC", "SUB", "SBB", "AND", "OR", "NOR", "XOR", "SLL", "SRL", "SRA"}
TwoOperand == {"INCC", "DECB"}
Compare == {"CMP", "CMA"}
WithCarry == {"ADD", "ADC", "SUB", "SBB", "CMP", "INCC", "DECB"}

FlagsOf(res) == Flag(res.c, CarryBit) + Flag(res.r = 0, ZeroBit)
              + Flag(res.r > 127, NegativeBit) + Flag(res.v, OverflowBit)
Interrupts(b) == InterruptBit * Bit(b, InterruptBit)

\* The operand [aN +- offset], or aN alone.
Address(cpu, line) ==
    LET base == CHOOSE k \in 2..Len(line) : line[k].t = "reg" /\ line[k].v >= 10
        n == 2 * (line[base].v - 10)
        offset == IF \E k \in base..Len(line) : line[k].t = "num"
                  THEN line[CHOOSE k \in base..Len(line) : line[k].t = "num"].v ELSE 0
    IN  (Pair(cpu.gpr[n], cpu.gpr[n + 1]) + offset) % 65536

Load(mem, a) == IF a \in DOMAIN mem THEN mem[a] ELSE Elsewhere(a)
Store(mem, a, b) == IF a \in DOMAIN mem THEN [mem EXCEPT ![a] = b] ELSE mem
WithStack(cpu, sp) == [cpu EXCEPT !.csr[6] = sp % 256, !.csr[7] = (sp \div 256) % 256]
Pushed(cpu, b) == WithStack([cpu EXCEPT !.mem = Store(@, StackPointer(cpu), b)],
                            (StackPointer(cpu) - 1) % 65536)
Popped(cpu, n) == Load(cpu.mem, (StackPointer(cpu) + n) % 65536)
Dropped(cpu, n) == WithStack(cpu, (StackPointer(cpu) + n) % 65536)

\* The instruction a line stands for, executed with pc already behind it:
\* the new state, flags apart, the flags, and those of them that are sure.
Meaning(line, cpu) ==
    LET name == line[1].v
        arg(k) == line[k + 1]
        enabled == Interrupts(cpu.csr[0])
        sure == IF name \in WithCarry THEN AllFlags ELSE LogicFlags
        Quiet(c) == [cpu |-> c, flags |-> cpu.csr[0], sure |-> AllFlags]
        Flagged(c, res) == [cpu |-> c, flags |-> FlagsOf(res) + enabled, sure |-> sure]
        Writes(c, d, res) == Flagged([c EXCEPT !.gpr[d] = res.r], res)
        Restores(c, b) == [cpu |-> c, flags |-> (b % 16) + Interrupts(b), sure |-> AllFlags]
        target == CASE arg(2).t = "num" -> (cpu.pc + 2 * (arg(2).v \div 2)) % 65536
                    [] arg(2).t = "sym" -> arg(2).v
                    [] OTHER -> Address(cpu, line)
        linked == Pushed(Pushed(cpu, cpu.pc \div 256), cpu.pc % 256)
        id == cpu.gpr[arg(1).v] % 128
        vector == 65280 + 2 * id
        entered == Pushed(linked, cpu.csr[0])
    IN  CASE name \in ThreeOperand ->
              Writes(cpu, arg(1).v, Computed(name, cpu.gpr[arg(2).v], Value(cpu, arg(3)), Carry(cpu)))
          [] name \in TwoOperand ->
              Writes(cpu, arg(1).v, Computed(name, cpu.gpr[arg(2).v], 0, Carry(cpu)))
          [] name \in Compare -> Flagged(cpu, Computed(name, cpu.gpr[arg(1).v], cpu.gpr[arg(2).v], 0))
          [] name = "LI" -> Writes(cpu, arg(1).v, Plain8(Immediate(arg(2))))
          [] name = "MOV" /\ arg(1).v < 10 /\ arg(2).v < 10 ->
              Writes(cpu, arg(1).v, Plain8(cpu.gpr[arg(2).v]))
          [] name = "MOV" /\ arg(2).v >= 20 -> Writes(cpu, arg(1).v, Plain8(cpu.csr[arg(2).v - 20]))
          [] name = "MOV" /\ arg(1).v = 20 -> Restores(cpu, cpu.gpr[arg(2).v])
          [] name = "MOV" /\ arg(1).v > 20 -> Quiet([cpu EXCEPT !.csr[arg(1).v - 20] = cpu.gpr[arg(2).v]])
          [] name = "PUSH" -> Quiet(Pushed(cpu, cpu.gpr[arg(1).v]))
          [] name = "POP" -> Writes(Dropped(cpu, 1), arg(1).v, Plain8(Popped(cpu, 1)))
          [] name = "LB" -> Writes(cpu, arg(1).v, Plain8(Load(cpu.mem, Address(cpu, line))))
          [] name = "SB" -> Quiet([cpu EXCEPT !.mem = Store(@, Address(cpu, line), cpu.gpr[arg(1).v])])
          [] name = "B" -> Quiet(IF Holds(arg(1).v, cpu.csr[0]) THEN [cpu EXCEPT !.pc = target] ELSE cpu)
          [] name = "BL" -> Quiet(IF Holds(arg(1).v, cpu.csr[0]) THEN [linked EXCEPT !.pc = target] ELSE cpu)
          [] name = "RET" -> Quiet([Dropped(cpu, 2) EXCEPT !.pc = Pair(Popped(cpu, 1), Popped(cpu, 2))])
          [] name = "RETI" -> Restores([Dropped(cpu, 3) EXCEPT !.pc = Pair(Popped(cpu, 2), Popped(cpu, 3))],
                                       Popped(cpu, 1))
          [] name = "SWI" ->
              [cpu |-> [entered EXCEPT
                          !.pc = Pair(Load(entered.mem, vector), Load(entered.mem, vector + 1)),
                          !.running = id # 0, !.debug_mode = id = 1],
               flags |-> cpu.csr[0], sure |-> AllFlags \ {InterruptBit}]
          [] name = "WFI" -> Quiet([cpu EXCEPT !.wait_for_interrupt = TRUE])
          [] name = "NOP" -> Quiet(cpu)
=============================================================================
