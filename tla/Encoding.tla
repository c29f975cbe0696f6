------------------------------ MODULE Encoding ------------------------------
(***************************************************************************)
(* handle.c and encode.c: how the assembler puts a line into a word.       *)
(*                                                                         *)
(* Words are numbers.  A "<<" and a "|" of disjoint fields are a product   *)
(* and a sum.  Tokens are records of a kind t and a value v; registers     *)
(* have the numbers of globals.h (r0 = 0, a0 = 10, flags = 20).  Commas    *)
(* and warnings are left out, "<" or ">" and its symbol are one token, and *)
(* a symbol carries its address (the table is AssemblerPasses'), Unknown   *)
(* if it has none.                                                         *)
(***************************************************************************)
EXTENDS Integers, Sequences

CONSTANT Unknown

None == [t |-> "none", v |-> 0]
At(toks, i) == IF i \in 1..Len(toks) THEN toks[i] ELSE None
IsRegister(token) == token.t = "reg"
IsGeneral(token) == token.t = "reg" /\ token.v <= 9
IsAddress(token) == token.t = "reg" /\ token.v \in 10..19
IsCsr(token) == token.t = "reg" /\ token.v >= 20

\* What a handler makes of the tokens after position i: a word and the
\* position of the last token it has used.
Refused == [ok |-> FALSE, word |-> 0, next |-> 0]
Encoded(word, next) == [ok |-> TRUE, word |-> word, next |-> next]
Fields(base, d, s, m) == base + d * 2^13 + s * 2^10 + m * 2^7

\* The next n operands are r0 to r7.
handle_errors(toks, i, n) == \A k \in 1..n : IsGeneral(At(toks, i + k))

\* Eight bits of an immediate operand, or Unknown.
handle_immediate(token) ==
    CASE token.t = "num" -> token.v % 256
      [] token.t \in {"sym", "low"} /\ token.v # Unknown -> token.v % 256
      [] token.t = "high" /\ token.v # Unknown -> token.v \div 256
      [] OTHER -> Unknown

handle_ss(toks, i, base) ==
    IF handle_errors(toks, i, 1) THEN Encoded(Fields(base, 0, toks[i+1].v, 0), i + 1) ELSE Refused
handle_sd(toks, i, base) ==
    IF handle_errors(toks, i, 1) THEN Encoded(Fields(base, toks[i+1].v, 0, 0), i + 1) ELSE Refused
handle_sdss(toks, i, base) ==
    IF handle_errors(toks, i, 2) THEN Encoded(Fields(base, toks[i+1].v, toks[i+2].v, 0), i + 2)
    ELSE Refused
handle_ds(toks, i, base) ==
    IF handle_errors(toks, i, 2) THEN Encoded(Fields(base, 0, toks[i+1].v, toks[i+2].v), i + 2)
    ELSE Refused
handle_rrr(toks, i, base) ==
    IF handle_errors(toks, i, 3)
    THEN Encoded(Fields(base, toks[i+1].v, toks[i+2].v, toks[i+3].v), i + 3) ELSE Refused

handle_mov(toks, i) ==
    LET d == At(toks, i + 1)  s == At(toks, i + 2)
    IN  CASE ~IsRegister(d) \/ ~IsRegister(s) \/ IsAddress(d) \/ IsAddress(s)
               \/ (IsCsr(d) /\ IsCsr(s)) -> Refused
          [] IsCsr(d) -> Encoded(Fields(144, d.v - 20, s.v, 0), i + 2)
          [] IsCsr(s) -> Encoded(Fields(16, d.v, s.v - 20, 0), i + 2)
          [] OTHER -> Encoded(Fields(65, d.v, s.v, s.v), i + 2)

\* Seeded bug: the halves of the immediate in their natural order.
AddInOrder(toks, i) ==
    IF IsRegister(At(toks, i + 3)) THEN handle_rrr(toks, i, 33)
    ELSE IF ~handle_errors(toks, i, 2) \/ At(toks, i + 3).t # "num" THEN Refused
    ELSE Encoded(Fields(11, toks[i+1].v, toks[i+2].v, 0) + (toks[i+3].v % 64) * 2^4, i + 3)

\* The six bits of an added immediate lie swapped: 2..0 above 5..3.
handle_add(toks, i) ==
    LET third == At(toks, i + 3)
        imm == handle_immediate(third)
        number == third.t = "num" \/ (third.t \notin {"low", "high"} /\ At(toks, i + 4).t = "num")
    IN  IF IsRegister(third) THEN handle_rrr(toks, i, 33)
        ELSE IF ~handle_errors(toks, i, 2) \/ ~number \/ imm = Unknown THEN Refused
        ELSE Encoded(Fields(11, toks[i+1].v, toks[i+2].v, imm % 8) + ((imm \div 8) % 8) * 2^4, i + 3)

handle_shift(toks, i, base) ==
    LET third == At(toks, i + 3)
    IN  IF IsRegister(third) THEN handle_rrr(toks, i, base)
        ELSE IF ~handle_errors(toks, i, 2) \/ third.t # "num" THEN Refused
        ELSE Encoded(Fields(64 + base, toks[i+1].v, toks[i+2].v, third.v % 8), i + 3)

handle_li(toks, i) ==
    LET imm == handle_immediate(At(toks, i + 2))
    IN  IF ~handle_errors(toks, i, 1) \/ imm = Unknown THEN Refused
        ELSE Encoded(Fields(10, toks[i+1].v, 0, 0) + imm * 2^5, i + 2)

\* An address operand at position k: aN, [aN], [aN imm] or [aN + imm].
handle_bracketparse(toks, k) ==
    LET at == IF At(toks, k + 2).t = "plus" THEN k + 3 ELSE k + 2
        imm == handle_immediate(At(toks, at))
        Operand(base, offset, last) == [ok |-> TRUE, base |-> base - 10, offset |-> offset, next |-> last]
    IN  CASE IsAddress(At(toks, k)) -> Operand(toks[k].v, 0, k)
          [] At(toks, k).t # "open" \/ ~IsAddress(At(toks, k + 1)) -> Refused
          [] At(toks, k + 2).t = "close" -> Operand(toks[k + 1].v, 0, k + 2)
          [] imm = Unknown \/ At(toks, at + 1).t # "close" -> Refused
          [] OTHER -> Operand(toks[k + 1].v, imm % 128, at + 1)

handle_loadstore(toks, i, load) ==
    LET operand == handle_bracketparse(toks, i + 2)
        low == (operand.offset % 16) * 2^4 + operand.base * 2^8
        high == operand.offset \div 16
    IN  IF ~handle_errors(toks, i, 1) \/ ~operand.ok THEN Refused
        ELSE IF load THEN Encoded(Fields(13, toks[i+1].v, high, 0) + low, operand.next)
        ELSE Encoded(Fields(12, high, toks[i+1].v, 0) + low, operand.next)

\* A branch at address here: to a symbol, over a number of bytes, or to aN.
handle_branch_cond(toks, i, link, here) ==
    LET cond == At(toks, i + 1)
        to == At(toks, i + 2)
        bytes == IF to.t = "sym" THEN to.v - here - 2 ELSE to.v
        offset == (bytes \div 2) % 512
    IN  CASE cond.t # "cond" -> Refused
          [] to.t = "num" \/ (to.t = "sym" /\ to.v # Unknown) ->
               Encoded(Fields(IF link THEN 15 ELSE 14, cond.v, 0, 0) + offset * 2^4, i + 2)
          [] IsAddress(to) -> Encoded(Fields(IF link THEN 240 ELSE 112, cond.v, 0, 0) + (to.v - 10) * 2^8, i + 2)
          [] to.t = "open" /\ IsAddress(At(toks, i + 3)) /\ At(toks, i + 4).t = "close" ->
               Encoded(Fields(IF link THEN 240 ELSE 112, cond.v, 0, 0) + (toks[i+3].v - 10) * 2^8, i + 4)
          [] OTHER -> Refused

\* encode_instructions (encode.c), for the mnemonic at position i.
encode_instructions(toks, i, here) ==
    LET name == toks[i].v
    IN  CASE name = "NOP" -> Encoded(0, i)       [] name = "RET" -> Encoded(8192, i)
          [] name = "WFI" -> Encoded(16384, i)   [] name = "RETI" -> Encoded(1024, i)
          [] name = "SWI" -> handle_ss(toks, i, 128)
          [] name = "INCC" -> handle_sdss(toks, i, 272)
          [] name = "DECB" -> handle_sdss(toks, i, 400)
          [] name = "POP" -> handle_sd(toks, i, 256)
          [] name = "PUSH" -> handle_ss(toks, i, 8320)
          [] name = "MOV" -> handle_mov(toks, i)
          [] name = "CMP" -> handle_ds(toks, i, 32)
          [] name = "CMA" -> handle_ds(toks, i, 8224)
          [] name = "SUB" -> handle_rrr(toks, i, 1)
          [] name = "SBB" -> handle_rrr(toks, i, 17)
          [] name = "ADD" -> handle_add(toks, i)
          [] name = "ADC" -> handle_rrr(toks, i, 49)
          [] name = "AND" -> handle_rrr(toks, i, 65)
          [] name = "OR" -> handle_rrr(toks, i, 81)
          [] name = "NOR" -> handle_rrr(toks, i, 97)
          [] name = "XOR" -> handle_rrr(toks, i, 113)
          [] name = "SLL" -> handle_shift(toks, i, 2)
          [] name = "SRL" -> handle_shift(toks, i, 18)
          [] name = "SRA" -> handle_shift(toks, i, 34)
          [] name = "LI" -> handle_li(toks, i)
          [] name = "SB" -> handle_loadstore(toks, i, FALSE)
          [] name = "LB" -> handle_loadstore(toks, i, TRUE)
          [] name = "B" -> handle_branch_cond(toks, i, FALSE, here)
          [] name = "BL" -> handle_branch_cond(toks, i, TRUE, here)
          [] OTHER -> Refused
=============================================================================
