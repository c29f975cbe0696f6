---------------------------- MODULE MCMultiCycle ----------------------------
(* Programs for the multi-cycle core, in the memory it fetches them from.   *)
EXTENDS MultiCycleSequence

D == INSTANCE Disassembly
I(name) == D!Name(name)
R(n) == D!Reg(n)
N(n) == D!Num(n)
Csrs(n) == D!Csr(n)
Bracket(n, k) == <<D!Mark("open"), D!Adr(n), N(k), D!Mark("close")>>
Pointed(n) == <<D!Mark("open"), D!Adr(n), D!Mark("close")>>
IllegalLine == <<[t |-> "bad", v |-> 3]>>
Word(written) == IF written = IllegalLine THEN 3 ELSE encode_instructions(written, 1, 0).word

Main ==
    {<<I("LI"), R(0), N(66)>>, <<I("ADC"), R(0), R(0), R(1)>>, <<I("XOR"), R(5), R(0), R(0)>>,
     <<I("SB"), R(0)>> \o Bracket(1, 1), <<I("LB"), R(2)>> \o Bracket(1, -1),
     <<I("PUSH"), R(0)>>, <<I("POP"), R(4)>>,
     <<I("MOV"), Csrs(6), R(1)>>, <<I("MOV"), Csrs(0), R(5)>>,
     <<I("B"), D!Cond(1), N(2)>>, <<I("BL"), D!Cond(7), N(2)>>, <<I("BL"), D!Cond(0), N(2)>>, <<I("RET")>>,
     <<I("CMP"), R(0), R(1)>>, <<I("MOV"), R(4), Csrs(0)>>, <<I("SWI"), R(1)>>, <<I("WFI")>>,
     <<I("ADD"), R(0), R(0), N(-1)>>, <<I("SUB"), R(4), R(2), R(0)>>, <<I("SRA"), R(0), R(0), N(1)>>,
     <<I("INCC"), R(0), R(4)>>, <<I("MOV"), R(4), Csrs(6)>>, <<I("MOV"), R(0), R(5)>>,
     <<I("B"), D!Cond(2)>> \o Pointed(3), <<I("BL"), D!Cond(7)>> \o Pointed(3), <<I("BL"), D!Cond(5)>> \o Pointed(3),
     <<I("RETI")>>, <<I("NOP")>>, IllegalLine}
Handlers == <<<<I("LI"), R(4), N(9)>>, <<I("RETI")>>>>
Sleep == <<I("WFI")>>
MCLines == [w \in {Word(l) : l \in Main \cup {Sleep} \cup {Handlers[1], Handlers[2]}} |->
               CHOOSE l \in Main \cup {Sleep, Handlers[1], Handlers[2]} : Word(l) = w]

\* Two instructions at 0, the handler at 16, data and stack from 48 to 80, and
\* the vectors of interrupts 2, 4 and 72.
Handler == 8
Beyond == 6
Code(program, a) ==
    LET p == a \div 2
        w == CASE p < Len(program) -> Word(program[p + 1])
               [] p \in {Handler, Handler + 1} -> Word(Handlers[p - Handler + 1])
               [] OTHER -> Word(Sleep)
    IN  IF a % 2 = 0 THEN w % 256 ELSE w \div 256
Ram == 0..19 \cup 48..80 \cup {65280 + n : n \in {4, 5, 8, 9, 144, 145}}
Machine(program, flags) ==
    [gpr |-> [r \in 0..7 |-> <<255, 72, 60, 0, 200, 131, 2 * Beyond, 0>>[r + 1]],
     csr |-> [r \in 0..7 |-> CASE r = 0 -> flags [] r = 6 -> 64 [] OTHER -> 0],
     mem |-> [a \in Ram |-> CASE a < 48 -> Code(program, a)
                              [] a >= 65280 -> IF a % 2 = 0 THEN 2 * Handler ELSE 0
                              [] OTHER -> IF a % 2 = 1 THEN 2 * Beyond ELSE 0]]
MCMachines == {Machine(<<a, b>>, f) : a \in Main, b \in Main, f \in {1, 130}}
=============================================================================
