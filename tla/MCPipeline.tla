----------------------------- MODULE MCPipeline -----------------------------
EXTENDS Pipeline

D == INSTANCE Disassembly
I(name) == D!Name(name)
R(n) == D!Reg(n)
N(n) == D!Num(n)
Csrs(n) == D!Csr(n)
Bracket(n, k) == <<D!Mark("open"), D!Adr(n), N(k), D!Mark("close")>>
IllegalLine == <<[t |-> "bad", v |-> 3]>>
Word(written) == IF written = IllegalLine THEN 3 ELSE encode_instructions(written, 1, 0).word
Entry(written) == [word |-> Word(written), kind |-> Kind(Word(written)), line |-> written]

\* RAM around the data and the stack, and the interrupt vectors.
Ram == 48..80 \cup {65280 + n : n \in {4, 5, 8, 9, 144, 145}}
Handler == 8
Beyond == 6
Machine(flags) ==
    [gpr |-> [r \in 0..7 |-> <<255, 72, 60, 0, 200, 131, 2 * Beyond, 0>>[r + 1]],
     csr |-> [r \in 0..7 |-> CASE r = 0 -> flags [] r = 6 -> 64 [] OTHER -> 0],
     pc |-> 0,
     mem |-> [a \in Ram |-> IF a >= 65280 THEN IF a % 2 = 0 THEN 2 * Handler ELSE 0
                            ELSE IF a % 2 = 1 THEN 2 * Beyond ELSE 0],
     wait_for_interrupt |-> FALSE, running |-> TRUE, debug_mode |-> FALSE]

Core ==
    {<<I("LI"), R(0), N(66)>>, <<I("LI"), R(2), N(66)>>,
     <<I("ADC"), R(0), R(0), R(1)>>, <<I("XOR"), R(5), R(0), R(0)>>,
     <<I("SB"), R(0)>> \o Bracket(1, 1), <<I("LB"), R(2)>> \o Bracket(1, -1),
     <<I("PUSH"), R(0)>>, <<I("POP"), R(4)>>,
     <<I("MOV"), Csrs(6), R(1)>>, <<I("MOV"), Csrs(0), R(5)>>,
     <<I("B"), D!Cond(1), N(2)>>, <<I("BL"), D!Cond(7), N(2)>>, <<I("RET")>>,
     <<I("CMP"), R(0), R(1)>>, <<I("MOV"), R(4), Csrs(0)>>, <<I("SWI"), R(1)>>, <<I("WFI")>>}
Rest ==
    {<<I("ADD"), R(0), R(0), N(-1)>>, <<I("SUB"), R(4), R(2), R(0)>>, <<I("SRL"), R(0), R(1), N(1)>>,
     <<I("INCC"), R(0), R(4)>>, <<I("MOV"), R(4), Csrs(6)>>, <<I("MOV"), R(0), R(5)>>,
     <<I("B"), D!Cond(2), D!Mark("open"), D!Adr(3), D!Mark("close")>>,
     <<I("BL"), D!Cond(5), D!Mark("open"), D!Adr(3), D!Mark("close")>>,
     <<I("RETI")>>, <<I("NOP")>>, IllegalLine}
Nop == <<I("NOP")>>
Ldi(r, n) == <<I("LI"), R(r), N(n)>>

\* A countdown, a call that saves a register, a stack set up and used.
Longer ==
    {<<Ldi(0, 2), <<I("ADD"), R(0), R(0), N(-1)>>, <<I("B"), D!Cond(1), N(-4)>>, <<I("SWI"), R(1)>>>>,
     <<<<I("BL"), D!Cond(7), N(4)>>, <<I("SB"), R(1)>> \o Bracket(1, 0), <<I("WFI")>>,
       <<I("PUSH"), R(1)>>, Ldi(1, 7), Nop, <<I("RET")>>>>,
     <<<<I("MOV"), Csrs(6), R(1)>>, Ldi(2, 66), Nop, <<I("PUSH"), R(2)>>, <<I("PUSH"), R(1)>>,
       <<I("POP"), R(2)>>, <<I("POP"), R(4)>>>>}
Mains == {<<a, b, c>> : a \in Core, b \in Core, c \in Core}
         \cup {<<a, b>> : a \in Core \cup Rest, b \in Core \cup Rest}
         \cup {<<a, Nop, b>> : a \in Core \cup Rest, b \in Core \cup Rest}
         \cup {<<a, Nop, Nop, b>> : a \in Core \cup Rest, b \in Core \cup Rest}
         \cup Longer
Handlers == <<Ldi(4, 9), <<I("RETI")>>>>
\* Memory beyond the program holds WFI.
MCPrograms ==
    {[p \in 0..Handler + 1 |-> IF p < Len(main) THEN Entry(main[p + 1])
                               ELSE IF p >= Handler THEN Entry(Handlers[p - Handler + 1]) ELSE Sleep] :
        main \in Mains}
MCMachines == {Machine(f) : f \in {1, 130}}
=============================================================================
