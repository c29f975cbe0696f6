---------------------------- MODULE AssemblerPasses ----------------------------
(***************************************************************************)
(* The assembler after its lexer: symbol_build_table walks the program and *)
(* gives every label an address (pass 1), encode_and_write walks it again, *)
(* keeping an address of its own, and puts bytes into the ROM image        *)
(* through the eight bank windows (pass 2).  Nothing in the code relates   *)
(* the two addresses; the properties do.                                   *)
(*                                                                         *)
(* A program is a sequence of well-formed items, each one instruction,     *)
(* label or directive with one operand (.db a, b is two items).  A byte of *)
(* the image is named by the item it comes from and its place in it.       *)
(***************************************************************************)
EXTENDS Integers, Sequences, FiniteSetsExt

CONSTANTS
  BankSize,      \* BANK_SIZE, 0x2000
  WindowCount,   \* NUM_WINDOWS, 8
  RomBanks,      \* NUM_ROM_BANKS, 128
  Field,         \* values of a branch's offset field, 2^9
  Items,         \* the items programs are made of
  MaxLength      \* bound: the longest program

RomSize == RomBanks * BankSize
\* What a uint16_t holds: in the code as here, exactly the windows' addresses.
Wrap == WindowCount * BankSize

Windows == 0 .. (WindowCount - 1)

Code == {"code", "branch"}
Names == {"label", "equ"}
Uses == {"branch", "symbol", "half"}
Kinds == Code \cup Names \cup Uses \cup
           {"string", "number", "align", "origin", "space", "bank", "unknown"}

\* What the lexer and the directives let through: a string is one token, of
\* MAX_TOKEN_LEN, 2^8, characters at most, and an .origin is an address.
WellFormed(i) ==
  /\ i.kind \in Kinds
  /\ i.kind = "string" => i.size \in 0 .. (BankSize - 1) /\ i.zero \in BOOLEAN
  /\ i.kind \in {"number", "symbol"} => i.size \in Nat
  /\ i.kind \in {"align", "space"} => i.size \in Int
  /\ i.kind = "origin" => i.to \in Nat
  /\ i.kind = "equ" => i.value \in Int
  /\ i.kind = "bank" => i.window \in Windows /\ i.bank \in Int

ASSUME AssemblerAssumption ==
  /\ BankSize \in Nat \ {0} /\ BankSize % 2 = 0
  /\ WindowCount \in Nat \ {0} /\ RomBanks \in Nat /\ RomBanks >= WindowCount
  /\ Field \in Nat \ {0} /\ Field % 2 = 0
  /\ \A i \in Items : WellFormed(i)
  /\ MaxLength \in Nat

VARIABLES
  prog,      \* the token list, as items
  phase,     \* "symbols", "encode", "done" or "failed"
  pos,       \* current_token
  address,   \* current_address of the pass that runs
  table,     \* the symbol table, a function of the names it holds
  image,     \* state->buffer
  bankW,     \* state->bank_w
  field,     \* history: the offset field of each branch encoded so far
  planned,   \* history: the addresses pass 1 has come to, one for each item
             \* and one for the end
  placed     \* history: the address at which pass 2 met each item

vars == <<prog, phase, pos, address, table, image, bankW, field, planned, placed>>
pass2 == <<image, bankW, field, placed>>

Zero == <<0, 0>>
item == prog[pos]
Here(kind) == pos <= Len(prog) /\ item.kind = kind

Init ==
  /\ prog \in UNION {[1 .. n -> Items] : n \in 1 .. MaxLength}
  /\ phase = "symbols" /\ pos = 1 /\ address = 0 /\ table = <<>>
  /\ image = [i \in 0 .. (RomSize - 1) |-> Zero]
  /\ bankW = [w \in Windows |-> w]
  /\ field = <<>> /\ planned = <<0>> /\ placed = <<>>

-----------------------------------------------------------------------------
(* Pass 1. *)

PadTo(n, a) == (n - (a % n)) % n

\* Seeded bug: the terminating zero is not counted.
UnterminatedMeasured(i, a) ==
  CASE i.kind \in Code -> a + 2
    [] i.kind = "string" -> a + i.size
    [] i.kind \in {"number", "symbol", "space"} -> a + i.size
    [] i.kind = "half" -> a + 1
    [] i.kind = "align" -> a + PadTo(i.size, a)
    [] i.kind = "origin" -> i.to
    [] i.kind \in Names \cup {"bank", "unknown"} -> a

\* The address after an item.  .space adds what it is given, negative or not.
Measured(i, a) ==
  CASE i.kind \in Code -> a + 2
    [] i.kind = "string" -> a + i.size + (IF i.zero THEN 1 ELSE 0)
    [] i.kind \in {"number", "symbol", "space"} -> a + i.size
    [] i.kind = "half" -> a + 1
    [] i.kind = "align" -> a + PadTo(i.size, a)
    [] i.kind = "origin" -> i.to
    [] i.kind \in Names \cup {"bank", "unknown"} -> a

\* struct Symbol keeps an address in 16 bits.
Stored(v) == v % Wrap

Misshapen(i) ==
  \/ i.kind = "unknown"
  \/ i.kind = "origin" /\ i.to % 2 # 0
  \/ i.kind = "align" /\ (i.size <= 0 \/ i.size % 2 # 0)

Building == phase = "symbols" /\ pos <= Len(prog)
Next1(a) ==
  /\ pos' = pos + 1 /\ address' = a /\ planned' = Append(planned, a)
  /\ UNCHANGED <<prog, phase, pass2>>
Fail == phase' = "failed" /\ UNCHANGED <<prog, pos, address, table, planned, pass2>>

Measure ==
  /\ Building /\ item.kind \notin Names /\ ~Misshapen(item)
  /\ Next1(Measured(item, address)) /\ UNCHANGED table

Refuse == Building /\ Misshapen(item) /\ Fail

\* A table with an entry added or overwritten.
Entered(f, n, v) == [m \in DOMAIN f \cup {n} |-> IF m = n THEN v ELSE f[m]]

\* Seeded bug: a label may be defined again.
LaxDefineLabel ==
  /\ Building /\ Here("label")
  /\ table' = Entered(table, item.name, Stored(address))
  /\ Next1(address)

\* symbol_construct, for a label and for .equ.
DefineLabel ==
  /\ Building /\ Here("label")
  /\ \/ /\ item.name \notin DOMAIN table
        /\ table' = Entered(table, item.name, Stored(address))
        /\ Next1(address)
     \/ item.name \in DOMAIN table /\ Fail

DefineEqu ==
  /\ Building /\ Here("equ")
  /\ table' = Entered(table, item.name, Stored(item.value))
  /\ Next1(address)

EndSymbols ==
  /\ phase = "symbols" /\ pos > Len(prog)
  /\ phase' = "encode" /\ pos' = 1 /\ address' = 0
  /\ UNCHANGED <<prog, table, planned, pass2>>

-----------------------------------------------------------------------------
(* Pass 2. *)

OfItem(size) == [k \in 1 .. size |-> <<pos, k - 1>>]
Zeros(size) == [k \in 1 .. size |-> Zero]

\* Seeded bug: the bank registers are ignored.
FlatWrite(img, a, bytes) ==
  [i \in DOMAIN img |->
     IF i \in a .. (a + Len(bytes) - 1) THEN bytes[i - a + 1] ELSE img[i]]

\* The place in the image of the byte at address a.
Behind(a) == (bankW[a \div BankSize] * BankSize) + (a % BankSize)

\* write_to_buffer: the window of the first byte decides for all of them.
Write(img, a, bytes) ==
  LET offset == Behind(a)
      last == offset + Len(bytes) - 1
  IN IF a \div BankSize \notin Windows \/ last >= RomSize THEN img
     ELSE [i \in DOMAIN img |->
             IF i \in offset .. last THEN bytes[i - offset + 1] ELSE img[i]]

\* One call of write_to_buffer per byte: of two that come to the same place,
\* through two windows on one bank, the later one stays.
WriteEach(a, bytes) ==
  LET Meant(i) == {k \in DOMAIN bytes :
                     /\ (a + k - 1) \div BankSize \in Windows
                     /\ Behind(a + k - 1) = i}
  IN [i \in DOMAIN image |->
        IF Meant(i) = {} THEN image[i] ELSE bytes[Max(Meant(i))]]

Encoding == phase = "encode" /\ pos <= Len(prog)
Next2(a) ==
  /\ pos' = pos + 1 /\ address' = a /\ placed' = Append(placed, address)
  /\ UNCHANGED <<prog, phase, table, planned>>

\* An instruction at an odd address is moved up one byte, its branch offset
\* having been computed from the odd one.
PutInstruction ==
  LET odd == address % 2
      start == address + odd
      padded == IF odd = 1 THEN Write(image, address, <<Zero>>) ELSE image
  IN /\ image' = Write(padded, start, OfItem(2))
     /\ Next2(start + 2) /\ UNCHANGED bankW

\* Seeded bug: the offset is taken from the branch, not from what follows it.
OffsetFromBranch(sym, a) == (sym - (a % Wrap)) \div 2

\* In halfwords, from the address of the next instruction.
Offset(sym, a) == (sym - (a % Wrap) - 2) \div 2

EncodeCode ==
  /\ Encoding /\ Here("code")
  /\ PutInstruction /\ UNCHANGED field

EncodeBranch ==
  /\ Encoding /\ Here("branch")
  /\ \/ /\ item.name \in DOMAIN table
        /\ field' = Entered(field, pos, Offset(table[item.name], address) % Field)
        /\ PutInstruction
     \/ item.name \notin DOMAIN table /\ Fail

EncodeString ==
  /\ Encoding /\ Here("string")
  /\ LET size == item.size + (IF item.zero THEN 1 ELSE 0)
     IN image' = WriteEach(address, OfItem(size)) /\ Next2(address + size)
  /\ UNCHANGED bankW /\ UNCHANGED field

EncodeNumber ==
  /\ Encoding /\ Here("number")
  /\ image' = Write(image, address, OfItem(item.size))
  /\ Next2(address + item.size) /\ UNCHANGED bankW /\ UNCHANGED field

\* A symbol's address as data, whole or one half of it.
EncodeSymbol ==
  /\ Encoding /\ (Here("symbol") \/ Here("half"))
  /\ LET size == IF item.kind = "half" THEN 1 ELSE item.size
     IN \/ /\ item.name \in DOMAIN table
           /\ image' = Write(image, address, OfItem(size))
           /\ Next2(address + size) /\ UNCHANGED bankW /\ UNCHANGED field
        \/ item.name \notin DOMAIN table /\ Fail

\* .space loops up to its operand, so a negative one leaves the address alone.
EncodeFill ==
  /\ Encoding /\ (Here("align") \/ Here("space"))
  /\ LET size == IF item.kind = "align" THEN PadTo(item.size, address)
                 ELSE IF item.size > 0 THEN item.size ELSE 0
     IN image' = WriteEach(address, Zeros(size)) /\ Next2(address + size)
  /\ UNCHANGED bankW /\ UNCHANGED field

EncodeOrigin ==
  /\ Encoding /\ Here("origin")
  /\ Next2(item.to) /\ UNCHANGED <<image, bankW>> /\ UNCHANGED field

EncodeBank ==
  /\ Encoding /\ Here("bank")
  /\ \/ /\ item.bank \in 0 .. (RomBanks - 1)
        /\ bankW' = [bankW EXCEPT ![item.window] = item.bank]
        /\ Next2(address) /\ UNCHANGED image /\ UNCHANGED field
     \/ item.bank \notin 0 .. (RomBanks - 1) /\ Fail

\* Labels are not tokens of this pass; .equ is stepped over.
PassDefinition ==
  /\ Encoding /\ (Here("label") \/ Here("equ"))
  /\ Next2(address) /\ UNCHANGED <<image, bankW>> /\ UNCHANGED field

\* The image is written to the output file.
EndEncode ==
  /\ phase = "encode" /\ pos > Len(prog)
  /\ phase' = "done"
  /\ UNCHANGED <<prog, pos, address, table, planned, pass2>>

Next ==
  \/ Measure \/ Refuse \/ DefineLabel \/ DefineEqu \/ EndSymbols
  \/ EncodeCode \/ EncodeBranch \/ EncodeString \/ EncodeNumber \/ EncodeSymbol
  \/ EncodeFill \/ EncodeOrigin \/ EncodeBank \/ PassDefinition \/ EndEncode

Spec == Init /\ [][Next]_vars

-----------------------------------------------------------------------------
(* Properties. *)

Positions == 1 .. Len(prog)

\* What the variables hold.
TypeOK ==
  /\ phase \in {"symbols", "encode", "done", "failed"}
  /\ pos \in 1 .. (Len(prog) + 1) /\ address \in Int
  /\ \A n \in DOMAIN table : table[n] \in 0 .. (Wrap - 1)
  /\ DOMAIN image = 0 .. (RomSize - 1)
  /\ \A w \in Windows : bankW[w] \in 0 .. (RomBanks - 1)
  /\ \A p \in DOMAIN field : prog[p].kind = "branch" /\ field[p] \in 0 .. (Field - 1)
  /\ Len(placed) < pos /\ \A p \in DOMAIN placed : placed[p] \in Nat

\* An .equ after a label of its name takes the name away from it.
Labelled(p) ==
  /\ prog[p].kind = "label"
  /\ \A q \in (p + 1) .. Len(prog) : prog[q].kind = "equ" => prog[q].name # prog[p].name

\* The two things that part the passes, at item q: code at an odd address and
\* a negative .space.
Drift(q) ==
  \/ prog[q].kind \in Code /\ placed[q] % 2 = 1
  \/ prog[q].kind = "space" /\ prog[q].size < 0

\* The item at p follows no drift but one an .origin has made good.
InStep(p) ==
  \A q \in 1 .. (p - 1) :
    Drift(q) => \E o \in (q + 1) .. (p - 1) : prog[o].kind = "origin"

\* A label's address is the one at which pass 2 meets it, whatever padding,
\* strings and origins lie before it: symbol.c and encode.c add up the same
\* sizes in two separately written sets of directives.
LabelsWhereCodeIs ==
  \A p \in 1 .. Len(placed) :
    Labelled(p) /\ InStep(p) => table[prog[p].name] = placed[p] % Wrap

\* Where the CPU goes when it takes the branch at p.
Target(p) ==
  LET signed == IF field[p] < Field \div 2 THEN field[p] ELSE field[p] - Field
  IN (placed[p] + (placed[p] % 2) + 2 + 2 * signed) % Wrap

\* How far the branch at p would have to reach, in halfwords.
Distance(p, q) == ((placed[q] % Wrap) - (placed[p] % Wrap) - 2) \div 2

\* A branch within the reach of its nine bits leads to its label, backwards,
\* forwards and across either pass's padding.
BranchesReach ==
  phase = "done" =>
    \A p \in DOMAIN field, q \in Positions :
      (/\ Labelled(q) /\ prog[q].name = prog[p].name
       /\ InStep(q) /\ InStep(p) /\ ~Drift(p) /\ placed[q] % 2 = 0
       /\ Distance(p, q) \in -(Field \div 2) .. (Field \div 2 - 1))
      => Target(p) = placed[q] % Wrap

\* The bank a .bankw before item p has put behind a window.
BankAt(p, w) ==
  LET told == {q \in 1 .. (p - 1) : prog[q].kind = "bank" /\ prog[q].window = w}
  IN IF told = {} THEN w ELSE prog[CHOOSE q \in told : \A r \in told : r <= q].bank

\* Where the CPU, with those banks, looks for address a.
Seen(p, a) == (BankAt(p, a \div BankSize) * BankSize) + (a % BankSize)

\* An item that was just encoded lies, byte for byte, where a CPU with its
\* banks looks; only data of several bytes across a window's end do not, and
\* what lies above the last window is dropped.
BytesWhereTheCpuLooks ==
  phase \in {"encode", "done"} /\ pos > 1 =>
    LET p == pos - 1
        start == address - Measured(prog[p], 0)
        across == start \div BankSize # (address - 1) \div BankSize
    IN (/\ prog[p].kind \in Code \cup {"string", "number", "symbol", "half"}
        /\ ~(prog[p].kind \in {"number", "symbol"} /\ across))
       => \A a \in start .. (address - 1) :
            a \div BankSize \in Windows => image[Seen(p, a)] = <<p, a - start>>

\* What is wrong with a program, looked at as a whole.
Wrong ==
  \E p \in Positions :
    \/ Misshapen(prog[p])
    \/ /\ prog[p].kind = "label"
       /\ \E q \in 1 .. (p - 1) :
            prog[q].kind \in Names /\ prog[q].name = prog[p].name
    \/ /\ prog[p].kind \in Uses
       /\ ~\E q \in Positions :
            prog[q].kind \in Names /\ prog[q].name = prog[p].name
    \/ prog[p].kind = "bank" /\ prog[p].bank \notin 0 .. (RomBanks - 1)

\* The two passes between them accept exactly the programs in which nothing is
\* wrong: each name is defined, once, before or after its use.
VerdictIsExact ==
  /\ phase = "done" => ~Wrong
  /\ phase = "failed" => Wrong

-----------------------------------------------------------------------------
(* The inductive invariant behind them. *)

\* What pass 1 has walked over and pass 2 has encoded.
Walked == 1 .. (Len(planned) - 1)
Encoded == 1 .. Len(placed)

\* Pass 1 plans the whole program before pass 2 places any of it.
Progress ==
  /\ prog \in Seq(Items) /\ planned \in Seq(Int) /\ placed \in Seq(Nat)
  /\ Len(planned) \in 1 .. (Len(prog) + 1) /\ Len(placed) <= Len(prog)
  /\ planned[1] = 0
  /\ placed # <<>> => Len(planned) = Len(prog) + 1
  /\ phase = "symbols" => /\ pos = Len(planned) /\ planned[pos] = address
                          /\ placed = <<>>
  /\ phase \in {"encode", "done"} => /\ Len(planned) = Len(prog) + 1
                                     /\ pos = Len(placed) + 1 /\ address \in Nat
  /\ phase = "done" => pos = Len(prog) + 1

PlannedInv ==
  \A p \in Walked :
    planned[p + 1] = Measured(prog[p], planned[p]) /\ ~Misshapen(prog[p])

\* The table holds the names walked over, at the addresses planned for them.
TableInv ==
  /\ DOMAIN table = {prog[p].name : p \in {q \in Walked : prog[q].kind \in Names}}
  /\ \A p, q \in Walked :
       (p < q /\ prog[p].kind \in Names /\ prog[q].kind = "label")
       => prog[p].name # prog[q].name
  /\ \A p \in Walked :
       (/\ prog[p].kind = "label"
        /\ \A q \in Walked : (q > p /\ prog[q].kind = "equ") => prog[q].name # prog[p].name)
       => table[prog[p].name] = Stored(planned[p])

\* Where nothing has parted the passes, pass 2 is where pass 1 planned it to be.
PlacedInv ==
  /\ \A p \in Encoded : InStep(p) => placed[p] = planned[p]
  /\ phase = "encode" => (InStep(pos) => address = planned[pos])

EncodedInv ==
  \A p \in Encoded :
    /\ prog[p].kind \in Uses => prog[p].name \in DOMAIN table
    /\ prog[p].kind = "bank" => prog[p].bank \in 0 .. (RomBanks - 1)

FieldInv ==
  \A p \in DOMAIN field :
    /\ p \in Encoded /\ prog[p].kind = "branch"
    /\ field[p] = Offset(table[prog[p].name], placed[p]) % Field

\* The bank registers hold what the last .bankw of each window said.
BankInv ==
  /\ bankW \in [Windows -> 0 .. (RomBanks - 1)]
  /\ \A w \in Windows : bankW[w] = BankAt(Len(placed) + 1, w)

AssemblerInv ==
  /\ TypeOK /\ Progress /\ PlannedInv /\ TableInv /\ PlacedInv
  /\ EncodedInv /\ FieldInv /\ BankInv

=============================================================================
