---------------------------- MODULE Disassembly -----------------------------
(***************************************************************************)
(* debugger.c: the line that the debugger lists for a word, as the tokens  *)
(* the assembler's lexer makes of it.  "???" and "Unknown" are NoName.     *)
(***************************************************************************)
EXTENDS Integers, Sequences

Part(w, low, n) == (w \div 2^low) % 2^n
Extended(v, bits) == IF v >= 2^(bits - 1) THEN v - 2^bits ELSE v

NoName == [t |-> "unknown", v |-> "???"]
Reg(n) == [t |-> "reg", v |-> n]
Adr(n) == [t |-> "reg", v |-> 10 + n]
Csr(n) == IF n \in {0, 6, 7} THEN [t |-> "reg", v |-> 20 + n] ELSE NoName
Num(n) == [t |-> "num", v |-> n]
Cond(n) == [t |-> "cond", v |-> n]
Mark(s) == [t |-> s, v |-> 0]
Name(s) == IF s = "???" THEN NoName ELSE [t |-> "instr", v |-> s]
Unlisted == <<NoName>>

\* Seeded bug: the offset as it lies in its field.
BracketedUnsigned(base, offset) ==
    <<Mark("open"), Adr(base), Mark("plus"), Num(offset % 64), Mark("close")>>

\* A sign is printed, then the offset's magnitude.
Bracketed(base, offset) ==
    IF offset < 0 THEN <<Mark("open"), Adr(base), Num(offset), Mark("close")>>
    ELSE <<Mark("open"), Adr(base), Mark("plus"), Num(offset), Mark("close")>>

disassemble_loadstore(w, store) ==
    LET base == Part(w, 8, 2)
    IN  IF store THEN <<Name("SB"), Reg(Part(w, 10, 3))>>
                        \o Bracketed(base, Extended(Part(w, 13, 3) * 16 + Part(w, 4, 4), 7))
        ELSE <<Name("LB"), Reg(Part(w, 13, 3))>>
                        \o Bracketed(base, Extended(Part(w, 10, 3) * 16 + Part(w, 4, 4), 7))

disassemble_mov(w) ==
    IF Part(w, 0, 10) = 16 THEN <<Name("MOV"), Reg(Part(w, 13, 3)), Csr(Part(w, 10, 3))>>
    ELSE <<Name("MOV"), Csr(Part(w, 13, 3)), Reg(Part(w, 10, 3))>>

disassemble_branch(w, onPair) ==
    LET name == IF onPair THEN IF Part(w, 7, 1) = 0 THEN "B" ELSE "BL"
                ELSE IF w % 16 = 14 THEN "B" ELSE "BL"
        over == 2 * Extended(Part(w, 4, 9), 9)
    IN  <<Name(name), Cond(Part(w, 13, 3))>>
        \o (IF onPair THEN <<Mark("open"), Adr(Part(w, 8, 2)), Mark("close")>> ELSE <<Num(over)>>)

\* The last operand of a shift is a number if bit 4 is set: the test is
\* "& (0x7 > 3)".
ShiftLine(w) ==
    LET names == <<"SLL", "SRL", "SRA", "???", "SLL", "SRL", "SRA", "???">>
        last == Part(w, 7, 3)
    IN  <<Name(names[Part(w, 4, 3) + 1]), Reg(Part(w, 13, 3)), Reg(Part(w, 10, 3)),
          IF Part(w, 4, 1) = 1 THEN Num(last) ELSE Reg(last)>>

\* Words whose lower four bits are 0.
PlainLine(w) ==
    LET op1 == Part(w, 13, 3)
        op10 == Part(w, 0, 10)
    IN  CASE w = 0 -> <<Name("NOP")>>       [] w = 8192 -> <<Name("RET")>>
          [] w = 16384 -> <<Name("WFI")>>   [] w = 1024 -> <<Name("RETI")>>
          [] op10 = 128 /\ op1 = 0 -> <<Name("SWI"), Reg(op1)>>
          [] op10 = 128 /\ op1 = 1 -> <<Name("PUSH"), Reg(op1)>>
          [] op10 = 272 -> <<Name("INCC"), Reg(op1)>>
          [] op10 = 400 -> <<Name("DECB"), Reg(op1)>>
          [] Part(w, 0, 13) = 256 -> <<Name("POP"), Reg(op1)>>
          [] op10 \in {16, 144} -> disassemble_mov(w)
          [] Part(w, 0, 7) = 32 -> <<Name(<<"CMP", "CMA", "???", "???", "???", "???", "???", "???">>[op1 + 1]),
                                     Reg(Part(w, 10, 3)), Reg(Part(w, 7, 3))>>
          [] Part(w, 0, 7) = 112 /\ Part(w, 10, 3) = 0 -> disassemble_branch(w, TRUE)
          [] OTHER -> Unlisted

disassemble(w) ==
    LET op == w % 16
        alu == <<"SUB", "SBB", "ADD", "ADC", "AND", "OR", "NOR", "XOR">>
        d == Reg(Part(w, 13, 3))
        s == Reg(Part(w, 10, 3))
    IN  CASE op = 0 -> PlainLine(w)
          [] op = 1 -> <<Name(alu[Part(w, 4, 3) + 1]), d, s, Reg(Part(w, 7, 3))>>
          [] op = 2 -> ShiftLine(w)
          [] op = 10 /\ Part(w, 4, 1) = 0 -> <<Name("LI"), d, Num(Part(w, 5, 8))>>
          [] op = 11 -> <<Name("ADD"), d, s, Num(Extended(Part(w, 4, 3) * 8 + Part(w, 7, 3), 6))>>
          [] op \in {12, 13} -> disassemble_loadstore(w, op = 12)
          [] op \in {14, 15} -> disassemble_branch(w, FALSE)
          [] OTHER -> Unlisted
=============================================================================
