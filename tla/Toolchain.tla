----------------------------- MODULE Toolchain ------------------------------
(***************************************************************************)
(* From a source text to what it does: the lexer's tokens (Lexer), encoded *)
(* one instruction after the other (Encoding), executed by the emulator    *)
(* from address 0 (Execution) and listed by the debugger (Disassembly).    *)
(* What a line should do is InstructionSet's.                              *)
(*                                                                         *)
(* A behaviour may also start with a word in memory that no line made.     *)
(* Labels, directives and banks are AssemblerPasses', interrupts and       *)
(* waiting CpuThread's: a run ends when the program is left, waits,        *)
(* breaks or halts.                                                        *)
(***************************************************************************)
EXTENDS Lexer, Encoding

CONSTANTS
    Machines(_),    \* states of the machine in which code may start
    MaxTurns        \* bound: instructions executed in one run

Zero(a) == 0
Isa == INSTANCE InstructionSet WITH Elsewhere <- Zero
Cpu == INSTANCE Execution
Debugger == INSTANCE Disassembly

VARIABLES
    phase,      \* "lexing", "encoding", "running", "stopped"
    cursor,     \* current_token of encode_and_write
    code,       \* the words written, with the lines they come from (history)
    cpu,
    turns       \* instructions executed

vars == <<source, open, tokens, lexed, phase, cursor, code, cpu, turns>>

Lex == phase = "lexing" /\ LexerNext /\ UNCHANGED <<phase, cursor, code, cpu, turns>>

\* The assembler's main: the lexer's verdict.
StartEncoding ==
    /\ phase = "lexing"
    /\ lexed \in {"read", "refused"}
    /\ phase' = IF lexed = "read" THEN "encoding" ELSE "stopped"
    /\ UNCHANGED <<source, open, tokens, lexed, cursor, code, cpu, turns>>

Here == 2 * Len(code)
AtInstruction == phase = "encoding" /\ cursor <= Len(tokens) /\ tokens[cursor].t = "instr"
Result == encode_instructions(tokens, cursor, Here)

\* encode_and_write, at an instruction, and at a token it takes no notice of.
EncodeInstruction ==
    /\ AtInstruction
    /\ Result.ok
    /\ code' = Append(code, [word |-> Result.word, line |-> SubSeq(tokens, cursor, Result.next)])
    /\ cursor' = Result.next + 1
    /\ UNCHANGED <<source, open, tokens, lexed, phase, cpu, turns>>

RefuseInstruction ==
    /\ AtInstruction
    /\ ~Result.ok
    /\ phase' = "stopped"
    /\ UNCHANGED <<source, open, tokens, lexed, cursor, code, cpu, turns>>

PassToken ==
    /\ phase = "encoding"
    /\ cursor <= Len(tokens)
    /\ tokens[cursor].t # "instr"
    /\ cursor' = cursor + 1
    /\ UNCHANGED <<source, open, tokens, lexed, phase, code, cpu, turns>>

\* The image is complete: the CPU comes to it, with whatever was done before.
StartRunning ==
    /\ phase = "encoding"
    /\ cursor > Len(tokens)
    /\ phase' = "running"
    /\ cpu' \in Machines(code)
    /\ UNCHANGED <<source, open, tokens, lexed, cursor, code, turns>>

InProgram == cpu.pc % 2 = 0 /\ cpu.pc < 2 * Len(code)
Runs == turns < MaxTurns /\ cpu.running /\ ~cpu.wait_for_interrupt /\ ~cpu.debug_mode
Fetched == code[(cpu.pc \div 2) + 1]
AfterFetch == [cpu EXCEPT !.pc = (@ + 2) % 65536]

\* One turn of the CPU thread's loop.
Execute ==
    /\ phase = "running" /\ InProgram /\ Runs
    /\ \E after \in Cpu!decode_execute(AfterFetch, Fetched.word) : cpu' = Cpu!Retire(after)
    /\ turns' = turns + 1
    /\ UNCHANGED <<source, open, tokens, lexed, phase, cursor, code>>

ExecuteIllegal ==
    /\ phase = "running" /\ InProgram /\ Runs
    /\ Cpu!decode_execute(AfterFetch, Fetched.word) = {}
    /\ cpu' = Cpu!Illegal(AfterFetch)
    /\ turns' = turns + 1
    /\ UNCHANGED <<source, open, tokens, lexed, phase, cursor, code>>

Leave ==
    /\ phase = "running" /\ ~(InProgram /\ Runs)
    /\ phase' = "stopped"
    /\ UNCHANGED <<source, open, tokens, lexed, cursor, code, cpu, turns>>

Next == \/ Lex \/ StartEncoding \/ EncodeInstruction \/ RefuseInstruction \/ PassToken
        \/ StartRunning \/ Execute \/ ExecuteIllegal \/ Leave

-----------------------------------------------------------------------------
(* Properties *)

\* Where a line's number is larger than its field (the assembler warns, or for
\* ADD says nothing), or a shift's count larger than a register.
Fits(line, before) ==
    LET last == line[Len(line)]
        InField(low, high) == \A i \in 1..Len(line) : line[i].t = "num" => line[i].v \in low..high
    IN  CASE line[1].v = "ADD" -> InField(-32, 31)
          [] line[1].v \in {"LB", "SB"} -> InField(-64, 63)
          [] line[1].v \in {"B", "BL"} -> InField(-512, 511)
          [] line[1].v \in {"SLL", "SRL", "SRA"} -> Isa!Value(before, last) < 8
          [] OTHER -> TRUE

\* Where the CPU loses the overflow flag: it looks at an operand that it has
\* just overwritten, or (INCC, DECB) never computes it.
LosesOverflow(line) ==
    \/ line[1].v \in Isa!TwoOperand
    \/ /\ line[1].v \in Isa!ThreeOperand
       /\ \E i \in 3..Len(line) : line[i] = line[2]

Executes == phase = "running" /\ InProgram /\ Runs
Promise == Isa!Meaning(Fetched.line, AfterFetch)
FlagKept(bit) == Isa!Bit(cpu'.csr[0], bit) = Isa!Bit(Promise.flags, bit)
ButFlags(c) == [c EXCEPT !.csr[0] = 0]

\* An executed instruction does what isa.md says of the line it was assembled
\* from, or of its listing if no line made it: registers, memory, stack
\* pointer, pc, and every flag isa.md gives a value.  Exceptions are only
\* those named: operands too large for their field, and a lost overflow flag.
\* Encoding (handle.c) and decoding (cpu.c) agree on every field.
DoesWhatIsWritten ==
    [][Executes /\ Fetched.line # <<>> /\ Fits(Fetched.line, cpu) =>
         /\ ButFlags(cpu') = ButFlags(Promise.cpu)
         /\ \A bit \in Promise.sure \ (IF LosesOverflow(Fetched.line) THEN {Isa!OverflowBit} ELSE {}) :
              FlagKept(bit)]_vars

\* Words whose listing (debugger.c) is not a line for them: SWI and PUSH print
\* the wrong field, INCC and DECB one operand, three shifts take a register
\* for a number or the reverse, five control registers have no name, and LI is
\* not listed if its spare bit is set.
Misprinted(w) ==
    LET op == w % 16
        low == w % 1024
        s == Cpu!src(w)
        d == Cpu!dst(w)
    IN  \/ low = 128 /\ s # d
        \/ low \in {272, 400}
        \/ op = 2 /\ Cpu!Field(w, 4, 3) \in {1, 4, 6}
        \/ low = 16 /\ s \in 1..5
        \/ low = 144 /\ d \in 1..5
        \/ w % 32 = 26

\* The debugger's listing of a word, given to the assembler, is that word
\* again exactly if the CPU does not stop at it, but for the named misprints.
ListingsAreTrue ==
    phase = "running" =>
      \A k \in 1..Len(code) :
        LET w == code[k].word
            again == encode_instructions(Debugger!disassemble(w), 1, 0)
        IN  (again.ok /\ again.word = w) <=> (Cpu!Legal(w) /\ ~Misprinted(w))

\* What reading "file" inside the files of "chain" should give: the text with
\* every include replaced by its file's, or a refusal.
RECURSIVE Flattened(_, _, _)
Flattened(file, from, chain) ==
    LET here == chain \o <<file>>
        line == source[file][from]
        first == IF ~IsInclude(line) THEN [ok |-> Known(line), text |-> line]
                 ELSE Flattened(line[1].v, 1, here)
        rest == Flattened(file, from + 1, chain)
    IN  IF file \notin DOMAIN source \/ Len(here) > MaxDepth \/ \E i \in 1..Len(chain) : chain[i] = file
        THEN [ok |-> FALSE, text |-> <<>>]
        ELSE IF from > LinesOf(file) THEN [ok |-> TRUE, text |-> <<>>]
        ELSE [ok |-> first.ok /\ rest.ok, text |-> first.text \o rest.text]

\* The lexer refuses a text exactly if an include of it is circular, too deep
\* or missing, or a line holds an unknown character, and otherwise gives the
\* text that the includes stand for, negative numbers in one piece.
IncludesFlatten ==
    LET text == Flattened(Root, 1, <<>>)
    IN  /\ lexed = "refused" => ~text.ok
        /\ lexed = "read" => text.ok /\ tokens = text.text
=============================================================================
