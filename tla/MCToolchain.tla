---------------------------- MODULE MCToolchain -----------------------------
EXTENDS Toolchain

D == INSTANCE Disassembly
B == INSTANCE Bitwise
C == INSTANCE ByteLogic
\* The operators on bytes are those of the community modules.
ASSUME ByteLogicIsBitwise == \A x, y \in 0..255 :
    C!&(x, y) = B!&(x, y) /\ C!|(x, y) = B!|(x, y) /\ C!^^(x, y) = B!^^(x, y)

I(name) == D!Name(name)
R(n) == D!Reg(n)
A(n) == D!Adr(n)
N(n) == D!Num(n)
Csr(n) == D!Csr(n)
Sym(kind, v) == [t |-> kind, v |-> v]
Inc(file) == [t |-> "include", v |-> file]
Bracket(n, k) == <<D!Mark("open"), A(n), N(k), D!Mark("close")>>

\* Bytes at the edges of sign, carry and shift counts.
Bytes == {0, 1, 7, 15, 127, 128, 129, 255}

\* RAM around one page edge and the top of memory, and some vectors.
Ram == {16318, 16320, 16321, 16382, 16383, 16384, 16385, 16386, 16387, 16447, 16448,
        65280, 65281, 65282, 65283, 65284, 65533, 65534, 65535}
Machine(gpr, flags, stack) ==
    [gpr |-> [r \in 0..7 |-> gpr[r + 1]],
     csr |-> [r \in 0..7 |-> CASE r = 0 -> flags [] r = 6 -> stack % 256
                               [] r = 7 -> stack \div 256 [] OTHER -> 0],
     pc |-> 0, mem |-> [a \in Ram |-> (a * 37 + 11) % 256],
     wait_for_interrupt |-> FALSE, running |-> TRUE, debug_mode |-> FALSE]
Usual == Machine(<<3, 130, 5, 64, 250, 16, 0, 64>>, 129, 16384)

ArithmeticMachines ==
    {Machine(<<x, y, x, 0, 0, 0, 0, 0>>, f, 16384) : x \in Bytes, y \in Bytes, f \in {14, 129}}
ControlMachines ==
    {Machine(<<0, 1, 130, 8, 255, 255, p[1], p[2]>>, f, stack) :
        p \in {<<0, 64>>, <<255, 63>>, <<63, 0>>}, f \in 0..15, stack \in {16384, 65535}}
MCMachines(written) ==
    IF Len(written) # 1 THEN {Usual}
    ELSE IF written[1].line[1].v \in Isa!WithCarry \cup Isa!ThreeOperand
                                     \cup {"CMA", "MOV", "LI", "PUSH", "POP"}
    THEN ArithmeticMachines ELSE ControlMachines

ArithmeticLines ==
    {<<I(n), R(0), R(s), R(m)>> : n \in Isa!ThreeOperand, s \in 0..1, m \in 0..2}
    \cup {<<I(n), R(0), R(s)>> : n \in Isa!TwoOperand \cup Isa!Compare \cup {"MOV"}, s \in 0..1}
    \cup {<<I("ADD"), R(0), R(s), N(n)>> : s \in 0..1, n \in {-33, -32, -1, 0, 7, 8, 31, 32}}
    \cup {<<I(n), R(0), R(1), N(k)>> : n \in {"SLL", "SRL", "SRA"}, k \in {0, 1, 7, 8}}
    \cup {<<I("LI"), R(0), N(n)>> : n \in {-128, -1, 0, 127, 128, 255, 256}}
    \cup {<<I("LI"), R(0), Sym(kind, 16639)>> : kind \in {"sym", "low", "high"}}
    \cup {<<I("MOV"), Csr(c), R(1)>> : c \in {0, 6, 7}}
    \cup {<<I("MOV"), R(1), Csr(c)>> : c \in {0, 6, 7}}
    \cup {<<I("PUSH"), R(1)>>, <<I("POP"), R(0)>>}
ControlLines ==
    {<<I(n), R(2)>> \o Bracket(3, k) : n \in {"LB", "SB"}, k \in {-65, -64, -1, 0, 1, 63, 64}}
    \cup {<<I(n), R(2), A(3)>> : n \in {"LB", "SB"}}
    \cup {<<I(n), D!Cond(c), to>> : n \in {"B", "BL"}, c \in 0..7,
            to \in {N(-512), N(-3), N(510), N(512), Sym("sym", 0), A(1), A(2)}}
    \cup {<<I("SWI"), R(s)>> : s \in 0..4}
    \cup {<<I(n)>> : n \in {"NOP", "RET", "RETI", "WFI"}}
RefusedLines ==
    {<<I("LI"), R(0), Sym("sym", Unknown)>>, <<I("B"), D!Cond(7), Sym("sym", Unknown)>>,
     <<I("ADD"), R(0), A(0), N(1)>>, <<I("MOV"), Csr(0), Csr(6)>>, <<I("SLL"), R(0), R(1)>>,
     <<I("LB"), R(0), R(1)>>, <<I("CMN"), R(0), R(1)>>, <<I("PUSH")>>, <<I("B"), N(2)>>}

\* A countdown, a call that saves a register, and a store loaded back.
Programs ==
    {<<<<I("LI"), R(0), N(3)>>, <<I("ADD"), R(0), R(0), N(-1)>>, <<I("B"), D!Cond(1), N(-4)>>,
       <<I("SWI"), R(0)>>>>,
     <<<<I("BL"), D!Cond(7), Sym("sym", 4)>>, <<I("WFI")>>,
       <<I("PUSH"), R(1)>>, <<I("SUB"), R(1), R(1), R(2)>>, <<I("POP"), R(1)>>, <<I("RET")>>>>,
     <<<<Sym("colon", 0), I("SB"), R(1)>> \o Bracket(3, -1), <<I("LB"), R(4)>> \o Bracket(3, -1),
       <<I("CMP"), R(1), R(4)>>, <<I("B"), D!Cond(0), N(-2)>>>>}

\* Files that include each other, themselves, a missing file or garbage; an
\* include that is not alone on its line; a file of too many lines.
Contents == [m |-> {<<<<Inc("a")>>, <<I("NOP")>>>>, <<<<I("NOP")>>, <<Inc("b")>>, <<Inc("a")>>>>, <<<<Inc("x")>>>>},
             a |-> {<<>>, <<<<I("LI"), R(1), N(-1)>>, <<Inc("b")>>>>, <<<<Inc("c")>>, <<Inc("c")>>>>,
                    <<<<Inc("m")>>>>, <<<<Inc("b"), I("NOP")>>>>},
             b |-> {[i \in 1..7 |-> <<I("LI"), R(i), N(-i)>>], <<<<Inc("c")>>>>, <<<<Inc("a")>>>>,
                    <<<<I("LI"), R(1)>>, <<N(5)>>>>, <<<<I("NOP"), Sym("bad", 0)>>>>},
             c |-> {<<>>, <<<<I("WFI")>>>>, <<<<Inc("c")>>>>}]
Chosen == {[m |-> s, a |-> t, b |-> u, c |-> v] :
             s \in Contents.m, t \in Contents.a, u \in Contents.b, v \in Contents.c}
One(line) == [m |-> <<line>>]
Sources == {One(line) : line \in ArithmeticLines \cup ControlLines \cup RefusedLines}
           \cup {[m |-> p] : p \in Programs} \cup Chosen \cup {[a |-> <<>>]}

\* A word that no line made is taken for its listing, where that is true.
Listed(w) == LET line == D!disassemble(w)
                 again == encode_instructions(line, 1, 0)
             IN  IF again.ok /\ again.word = w THEN line ELSE <<>>

MCInit ==
    \/ /\ LexerInit(Sources)
       /\ phase = "lexing" /\ cursor = 1 /\ code = <<>> /\ cpu = Usual /\ turns = 0
    \/ /\ source = One(<<>>) /\ open = <<>> /\ tokens = <<>> /\ lexed = "read"
       /\ phase = "running" /\ cursor = 1 /\ cpu = Usual /\ turns = 0
       /\ \E w \in 0..65535 : code = <<[word |-> w, line |-> Listed(w)]>>

MCSpec == MCInit /\ [][Next]_vars
=============================================================================
