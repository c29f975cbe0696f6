---------------------------- MODULE WordMachine ----------------------------
(***************************************************************************)
(* The multi-cycle core without its clock: what each word of a program     *)
(* does as a whole.  The control unit's patterns and the ALU are the       *)
(* core's; the stages, the bus, and the order in which the bytes of a      *)
(* return address or a frame come and go are not here.  Nor is assembly    *)
(* language: what a word stands for is the business of Sequential.         *)
(***************************************************************************)
EXTENDS Core

CONSTANT Reserved   \* what a build reads from bits 6..4 of the flags, which are x: 0..7

Cleared == 16 * Reserved
WordAt(m) == Manual!Load(m.mem, m.pc) + 256 * Manual!Load(m.mem, (m.pc + 1) % 65536)
Even(a) == 2 * (a \div 2)

-----------------------------------------------------------------------------
\* What a word w makes of the machine m that has fetched it.
Source(m, w) == m.gpr[src(w)]
Operand(m, w) == IF Kind(w) \in {"ALU", "COMPARE"} THEN m.gpr[mod(w)] ELSE Immediate(Kind(w), w)
Choices(w) == IF AluOp(Kind(w), w) \in Logical THEN 0..1 ELSE {0}
Calculated(m, w, junk) ==
    LET res == Alu(AluOp(Kind(w), w), Source(m, w), Operand(m, w), m.csr[0] % 2, FALSE, junk)
    IN  [m EXCEPT !.gpr = IF Kind(w) = "COMPARE" THEN @ ELSE [@ EXCEPT ![dst(w)] = res.r % 256],
                  !.csr[0] = 128 * (@ \div 128) + res.f + Cleared]
Place(m, w) == (PairAt(m, w) + Immediate(Kind(w), w)) % 65536
Goal(m, w) == IF Relative(w) THEN (m.pc + Immediate("B", w)) % 65536 ELSE Even(PairAt(m, w))
Linked(m) == Manual!Pushed(Manual!Pushed(m, m.pc \div 256), m.pc % 256)
Back(m, n) == Even(Manual!Pair(Manual!Popped(m, n), Manual!Popped(m, n + 1)))

After(m, w) ==
    CASE Kind(w) \in {"ALU", "SHIFT", "ADD", "LI", "CARRY", "COMPARE"} ->
           {Calculated(m, w, junk) : junk \in Choices(w)}
      [] Kind(w) = "FROM CSR" -> {[m EXCEPT !.gpr[dst(w)] = m.csr[src(w)]]}
      [] Kind(w) = "TO CSR" ->
           {[m EXCEPT !.csr[dst(w)] = IF dst(w) = 0 THEN Kept(Source(m, w)) + Cleared ELSE Source(m, w)]}
      [] Kind(w) = "LB" -> {[m EXCEPT !.gpr[dst(w)] = Manual!Load(m.mem, Place(m, w))]}
      [] Kind(w) = "SB" -> {[m EXCEPT !.mem = Manual!Store(@, Place(m, w), Source(m, w))]}
      [] Kind(w) = "PUSH" -> {Manual!Pushed(m, Source(m, w))}
      [] Kind(w) = "POP" -> {[Manual!Dropped(m, 1) EXCEPT !.gpr[dst(w)] = Manual!Popped(m, 1)]}
      [] Kind(w) = "B" -> {IF Condition(w, m.csr[0]) THEN [m EXCEPT !.pc = Goal(m, w)] ELSE m}
      [] Kind(w) = "BL" -> {IF Condition(w, m.csr[0]) THEN [Linked(m) EXCEPT !.pc = Goal(m, w)] ELSE m}
      [] Kind(w) = "RET" -> {[Manual!Dropped(m, 2) EXCEPT !.pc = Back(m, 1)]}
      [] Kind(w) = "RETI" -> {[Manual!Dropped(m, 3) EXCEPT !.pc = Back(m, 2),
                                                         !.csr[0] = Kept(Manual!Popped(m, 1)) + Cleared]}
      [] Kind(w) = "SWI" -> {Entered(m, Source(m, w) % 128, Cleared)}
      [] Kind(w) = "ILLEGAL" -> {Entered(m, id, Cleared) : id \in 0..127}
      [] Kind(w) = "WFI" -> {[m EXCEPT !.wait_for_interrupt = TRUE]}
      [] Kind(w) = "NOP" -> {m}

=============================================================================
