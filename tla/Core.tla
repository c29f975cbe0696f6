-------------------------------- MODULE Core --------------------------------
(***************************************************************************)
(* What the pipelined and the multi-cycle core have in common: the         *)
(* patterns of the control unit, the immediates, the ALU, and how either   *)
(* core departs from isa.md.  Program counters count words in the cores    *)
(* and bytes in isa.md.  Memory is a sample of addresses, DOMAIN mem;      *)
(* elsewhere stores are dropped and every word is a WFI.                   *)
(***************************************************************************)
EXTENDS Encoding, Execution, FiniteSets

Elsewhere(a) == 64 * (a % 2)
Manual == INSTANCE InstructionSet

\* What a word is: the patterns of the control unit.
Kind(w) ==
    LET op == w % 16
        low == w % 1024
    IN  CASE w = 0 -> "NOP"      [] w = 8192 -> "RET"   [] w = 16384 -> "WFI"  [] w = 1024 -> "RETI"
          [] low = 128 /\ dst(w) = 0 -> "SWI"           [] low = 128 /\ dst(w) = 1 -> "PUSH"
          [] w % 8192 = 256 -> "POP"                    [] low = 16 -> "FROM CSR"
          [] low = 144 -> "TO CSR"                      [] low \in {272, 400} -> "CARRY"
          [] w % 128 = 32 /\ dst(w) \in {0, 1} -> "COMPARE"
          [] w % 256 = 112 /\ src(w) = 0 -> "B"         [] w % 256 = 240 /\ src(w) = 0 -> "BL"
          [] op = 1 \/ (op = 2 /\ Field(w, 4, 3) < 3) -> "ALU"
          [] op = 2 /\ Field(w, 4, 3) \in 4..6 -> "SHIFT"
          [] op = 10 /\ Field(w, 4, 1) = 0 -> "LI"      [] op = 11 -> "ADD"
          [] op = 12 -> "SB"  [] op = 13 -> "LB"  [] op = 14 -> "B"  [] op = 15 -> "BL"
          [] OTHER -> "ILLEGAL"

\* A branch over an offset, not to a pair of registers.
Relative(w) == w % 16 \in {14, 15}
Immediate(kind, w) ==
    CASE kind \in {"SHIFT", "ADD"} -> sign_extend(Field(w, 4, 3) * 8 + mod(w), 6) % 65536
      [] kind = "LI" -> sign_extend(Field(w, 5, 8), 8) % 65536
      [] kind = "SB" -> Offset7(dst(w), w) % 65536
      [] kind = "LB" -> Offset7(src(w), w) % 65536
      [] kind \in {"B", "BL"} -> (2 * sign_extend(Field(w, 4, 9), 9)) % 65536
      [] OTHER -> 0

Condition(w, flags) ==
    LET bit == Field(flags, <<1, 0, 2, 3>>[(dst(w) \div 2) + 1], 1)
    IN  dst(w) = 7 \/ (bit = 1 <=> dst(w) % 2 = 0)
\* csr_file keeps bits 7 and 3..0 of the flags.
Kept(b) == (b % 16) + 128 * (b \div 128)

-----------------------------------------------------------------------------
\* The ALU: 16 bits, and the flags C, Z, N, V.  c is the carry, and signed
\* says whether SRA keeps the sign.  The high byte of a logical result is x:
\* its lowest bit, the carry, is junk.
AluOp(kind, w) ==
    LET n == Field(w, 4, 3)
    IN  CASE kind \in {"ALU", "SHIFT"} -> IF w % 16 = 2 THEN 8 + (n % 4) ELSE <<2, 3, 0, 1, 4, 5, 6, 7>>[n + 1]
          [] kind = "CARRY" -> IF w % 1024 = 272 THEN 1 ELSE 3
          [] kind = "COMPARE" -> IF dst(w) = 0 THEN 2 ELSE 4
          [] kind = "LI" -> 12
          [] OTHER -> 0
Logical == 4..10
Alu(op, x, y, c, signed, junk) ==
    LET a == x % 256
        b == y % 256
        low == CASE op = 4 -> a & b [] op = 5 -> a | b [] op = 6 -> 255 - (a | b) [] op = 7 -> a ^^ b
                 [] op = 8 -> (a * 2^(b % 8)) % 256
                 [] OTHER -> ((IF op = 10 /\ signed THEN sign_extend(a, 8) ELSE a) \div 2^(b % 8)) % 256
        r == CASE op = 0 -> (x + y) % 65536     [] op = 1 -> (x + y + c) % 65536
               [] op = 2 -> (x - y) % 65536     [] op = 3 -> (x - y - (1 - c)) % 65536
               [] op = 11 -> x [] op = 12 -> y  [] OTHER -> low + 256 * junk
        minus == op \in {2, 3}
    IN  [r |-> r,
         f |-> SetIf((Field(r, 8, 1) = 1) # minus, 1) + SetIf(r % 256 = 0, 2) + SetIf(Top(r) = 1, 4)
               + SetIf((Top(x) # Top(y)) = minus /\ Top(x) # Top(r), 8)]

-----------------------------------------------------------------------------
\* The reference: isa.md's machine, where the cores follow it.  An interrupt
\* saves the pc and the flags; the handler starts with the flags given.
Entered(c, id, flags) ==
    LET vector == 65280 + 2 * id
        saved == Manual!Pushed(Manual!Pushed(Manual!Pushed(c, c.pc \div 256), c.pc % 256), c.csr[0])
    IN  [saved EXCEPT !.pc = 2 * (Manual!Pair(Manual!Load(saved.mem, vector), Manual!Load(saved.mem, vector + 1)) \div 2),
                      !.csr[0] = flags, !.wait_for_interrupt = FALSE]
Past(c) == [c EXCEPT !.pc = (@ + 2) % 65536]
\* Flags that isa.md leaves open are the core's own; the lowest bit of an
\* instruction's address does not exist.  Both cores invert the carry of an
\* added negative number; keeps: of a load that leaves the flags alone.
Promised(c, line, keeps, own) ==
    LET meant == Manual!Meaning(line, Past(c))
        negative == line[1].v = "ADD" /\ line[4].t = "num" /\ line[4].v < 0
        flags == IF keeps THEN c.csr[0] ELSE meant.flags
        sure == CASE keeps -> Manual!AllFlags
                  [] negative -> Manual!AllFlags \ {Manual!CarryBit}
                  [] OTHER -> meant.sure
        part(bit) == bit * Manual!Bit(IF bit \in sure THEN flags ELSE own, bit)
    IN  [meant.cpu EXCEPT !.pc = 2 * (@ \div 2), !.running = TRUE, !.debug_mode = FALSE,
                          !.csr[0] = part(1) + part(2) + part(4) + part(8) + part(128)]
=============================================================================
