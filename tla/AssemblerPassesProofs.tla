------------------------- MODULE AssemblerPassesProofs -------------------------
(***************************************************************************)
(* The two passes of the assembler, proved for every set of well-formed    *)
(* items, every length of program and every size of bank, window and       *)
(* offset field.  A step of either pass is first reduced to one of five    *)
(* kinds (Steps); each part of AssemblerInv then has a lemma of its own.   *)
(***************************************************************************)
EXTENDS AssemblerPasses, TLAPS

\* The sizes are whole and even.
LEMMA Sizes ==
  /\ BankSize \in Nat /\ BankSize > 0 /\ BankSize % 2 = 0
  /\ WindowCount \in Nat /\ WindowCount > 0
  /\ RomBanks \in Nat /\ RomBanks >= WindowCount
  /\ Field \in Nat /\ Field > 0 /\ Field % 2 = 0
  /\ Wrap \in Nat /\ Wrap > 0 /\ Wrap % 2 = 0
  /\ RomSize \in Nat
<1>1. /\ BankSize \in Nat /\ BankSize > 0 /\ BankSize % 2 = 0
      /\ WindowCount \in Nat /\ WindowCount > 0
      /\ RomBanks \in Nat /\ RomBanks >= WindowCount
      /\ Field \in Nat /\ Field > 0 /\ Field % 2 = 0
  BY AssemblerAssumption
<1>2. Wrap \in Nat /\ Wrap > 0 /\ Wrap % 2 = 0
  <2>1. PICK h \in Nat : BankSize = 2 * h
    BY <1>1
  <2>2. Wrap = 2 * (WindowCount * h) /\ WindowCount * h \in Nat /\ WindowCount * h > 0
    BY <1>1, <2>1 DEF Wrap
  <2>. QED
    BY <2>2
<1>3. RomSize \in Nat
  BY <1>1 DEF RomSize
<1>. QED
  BY <1>1, <1>2, <1>3

\* The padding of .align is less than what is aligned to.
LEMMA Padding ==
  ASSUME NEW n \in Int, n > 0, NEW a \in Int
  PROVE  PadTo(n, a) \in 0 .. (n - 1)
BY DEF PadTo

\* How far each kind of item moves the first pass.
LEMMA MeasuredKinds ==
  ASSUME NEW i, NEW a \in Int, i.kind \in Kinds
  PROVE  /\ i.kind \in Code => Measured(i, a) = a + 2
         /\ i.kind = "string" => Measured(i, a) = a + i.size + (IF i.zero THEN 1 ELSE 0)
         /\ i.kind \in {"number", "symbol", "space"} => Measured(i, a) = a + i.size
         /\ i.kind = "half" => Measured(i, a) = a + 1
         /\ i.kind = "align" => Measured(i, a) = a + PadTo(i.size, a)
         /\ i.kind = "origin" => Measured(i, a) = i.to
         /\ i.kind \in Names \cup {"bank", "unknown"} => Measured(i, a) = a
BY DEF Measured, Code, Names

\* An item that is not refused leads to an address.
LEMMA MeasuredType ==
  ASSUME NEW i, NEW a \in Int, WellFormed(i), ~Misshapen(i)
  PROVE  Measured(i, a) \in Int
<1>1. i.kind \in Kinds
  BY DEF WellFormed
<1>2. CASE i.kind = "align"
  <2>1. i.size \in Int /\ i.size > 0
    BY <1>2 DEF WellFormed, Misshapen
  <2>2. PadTo(i.size, a) \in Int
    BY <2>1, Padding
  <2>. QED
    BY <1>1, <1>2, <2>2, MeasuredKinds
<1>3. CASE i.kind = "string"
  BY <1>1, <1>3, MeasuredKinds DEF WellFormed
<1>4. CASE i.kind \notin {"align", "string"}
  <2>1. /\ i.kind \in {"number", "symbol", "space"} => i.size \in Int
        /\ i.kind = "origin" => i.to \in Int
    BY DEF WellFormed
  <2>. QED
    BY <1>1, <1>4, <2>1, MeasuredKinds DEF Kinds, Code, Names, Uses
<1>. QED
  BY <1>2, <1>3, <1>4

-----------------------------------------------------------------------------
(* The kinds of step. *)

\* One item of pass 1.
Walks ==
  /\ Building /\ ~Misshapen(item)
  /\ Next1(Measured(item, address))
  /\ \/ item.kind \notin Names /\ UNCHANGED table
     \/ /\ item.kind = "label" /\ item.name \notin DOMAIN table
        /\ table' = Entered(table, item.name, Stored(address))
     \/ /\ item.kind = "equ"
        /\ table' = Entered(table, item.name, Stored(item.value))

\* One item of pass 2.
Places ==
  /\ Encoding /\ Next2(address') /\ address' \in Nat
  /\ DOMAIN image' = DOMAIN image
  /\ item.kind = "origin" => address' = item.to
  /\ (/\ ~(item.kind \in Code /\ address % 2 = 1)
      /\ ~(item.kind = "space" /\ item.size < 0)) => address' = Measured(item, address)
  /\ item.kind \in Uses => item.name \in DOMAIN table
  /\ \/ /\ item.kind = "branch"
        /\ field' = Entered(field, pos, Offset(table[item.name], address) % Field)
     \/ UNCHANGED field
  /\ \/ /\ item.kind = "bank" /\ item.bank \in 0 .. (RomBanks - 1)
        /\ bankW' = [bankW EXCEPT ![item.window] = item.bank]
     \/ item.kind # "bank" /\ UNCHANGED bankW

\* The token that a pass stands on is a well-formed item.
LEMMA ItemHere ==
  ASSUME Progress, pos \in 1 .. (Len(prog) + 1), pos <= Len(prog)
  PROVE  WellFormed(item) /\ item.kind \in Kinds /\ pos \in 1 .. Len(prog)
<1>1. pos \in 1 .. Len(prog) /\ item \in Items
  BY DEF Progress, item
<1>2. WellFormed(item)
  BY <1>1, AssemblerAssumption
<1>. QED
  BY <1>1, <1>2 DEF WellFormed

LEMMA WalkSteps ==
  ASSUME TypeOK, Progress,
         Measure \/ (DefineLabel /\ ~Fail) \/ DefineEqu
  PROVE  Walks
<1>. USE DEF Building, Here
<1>1. pos <= Len(prog) /\ pos \in 1 .. (Len(prog) + 1) /\ address \in Int
  BY DEF TypeOK, Measure, DefineLabel, DefineEqu
<1>2. item.kind \in Kinds
  BY <1>1, ItemHere
<1>3. CASE Measure
  BY <1>3 DEF Measure, Walks
<1>4. CASE DefineLabel /\ ~Fail
  <2>1. Measured(item, address) = address /\ ~Misshapen(item)
    BY <1>1, <1>2, <1>4, MeasuredKinds DEF DefineLabel, Names, Misshapen
  <2>. QED
    BY <1>4, <2>1 DEF DefineLabel, Walks
<1>5. CASE DefineEqu
  <2>1. Measured(item, address) = address /\ ~Misshapen(item)
    BY <1>1, <1>2, <1>5, MeasuredKinds DEF DefineEqu, Names, Misshapen
  <2>. QED
    BY <1>5, <2>1 DEF DefineEqu, Walks
<1>. QED
  BY <1>3, <1>4, <1>5


\* A write keeps the image's size.
LEMMA WritesKeepSize ==
  ASSUME NEW img, NEW a, NEW bytes
  PROVE  /\ DOMAIN Write(img, a, bytes) = DOMAIN img
         /\ DOMAIN WriteEach(a, bytes) = DOMAIN image
<1>1. DOMAIN Write(img, a, bytes) = DOMAIN img
  BY DEF Write
<1>2. DOMAIN WriteEach(a, bytes) = DOMAIN image
  BY DEF WriteEach
<1>. QED
  BY <1>1, <1>2

LEMMA PutInstructionMoves ==
  ASSUME PutInstruction, address \in Nat
  PROVE  /\ Next2(address') /\ address' = address + (address % 2) + 2
         /\ DOMAIN image' = DOMAIN image /\ UNCHANGED bankW
<1>1. /\ Next2(address + (address % 2) + 2) /\ UNCHANGED bankW
  BY DEF PutInstruction
<1>2. address' = address + (address % 2) + 2 /\ Next2(address')
  BY <1>1 DEF Next2
<1>3. DOMAIN image' = DOMAIN image
  <2>. DEFINE padded == IF address % 2 = 1 THEN Write(image, address, <<Zero>>) ELSE image
  <2>1. image' = Write(padded, address + (address % 2), OfItem(2))
    BY DEF PutInstruction
  <2>2. DOMAIN padded = DOMAIN image
    BY WritesKeepSize
  <2>. QED
    BY <2>1, <2>2, WritesKeepSize
<1>. QED
  BY <1>1, <1>2, <1>3

LEMMA PlaceSteps ==
  ASSUME TypeOK, Progress, PlannedInv,
         \/ EncodeCode \/ (EncodeBranch /\ ~Fail) \/ EncodeString \/ EncodeNumber
         \/ (EncodeSymbol /\ ~Fail) \/ EncodeFill \/ EncodeOrigin
         \/ (EncodeBank /\ ~Fail) \/ PassDefinition
  PROVE  Places
<1>. USE DEF Encoding, Here
<1>1. phase = "encode" /\ pos <= Len(prog) /\ pos \in 1 .. (Len(prog) + 1) /\ address \in Nat
  BY DEF TypeOK, Progress, EncodeCode, EncodeBranch, EncodeString, EncodeNumber,
         EncodeSymbol, EncodeFill, EncodeOrigin, EncodeBank, PassDefinition
<1>2. WellFormed(item) /\ item.kind \in Kinds /\ pos \in 1 .. Len(prog)
  BY <1>1, ItemHere
<1>3. ~Misshapen(item)
  <2>1. pos \in Walked
    BY <1>1, <1>2 DEF Progress, Walked
  <2>. QED
    BY <2>1 DEF PlannedInv, item
<1>4. ASSUME NEW a, Next2(a) PROVE address' = a /\ Next2(address')
  BY <1>4 DEF Next2
<1>. USE DEF Uses, Code
<1>5. CASE EncodeCode \/ (EncodeBranch /\ ~Fail)
  <2>1. PutInstruction /\ item.kind \in Code
    BY <1>5 DEF EncodeCode, EncodeBranch
  <2>2. /\ Next2(address') /\ address' = address + (address % 2) + 2
        /\ DOMAIN image' = DOMAIN image /\ UNCHANGED bankW
    BY <1>1, <2>1, PutInstructionMoves
  <2>3. address' \in Nat /\ (address % 2 # 1 => address' = address + 2)
    BY SMTT(30), <1>1, <2>2
  <2>4. Measured(item, address) = address + 2
    BY <1>1, <1>2, <2>1, MeasuredKinds
  <2>5. \/ /\ item.kind = "branch" /\ item.name \in DOMAIN table
           /\ field' = Entered(field, pos, Offset(table[item.name], address) % Field)
        \/ item.kind = "code" /\ UNCHANGED field
    BY <1>5 DEF EncodeCode, EncodeBranch
  <2>. QED
    BY <1>1, <2>1, <2>2, <2>3, <2>4, <2>5 DEF Places
<1>6. CASE EncodeString
  <2>. DEFINE size == item.size + (IF item.zero THEN 1 ELSE 0)
  <2>1. /\ image' = WriteEach(address, OfItem(size)) /\ Next2(address + size)
        /\ UNCHANGED bankW /\ UNCHANGED field /\ item.kind = "string"
    BY <1>6 DEF EncodeString
  <2>2. size \in Nat
    BY <1>2, <2>1 DEF WellFormed
  <2>3. Measured(item, address) = address + size
    BY SMTT(30), <1>1, <1>2, <2>1, <2>2, MeasuredKinds DEF WellFormed
  <2>4. address' = address + size /\ Next2(address') /\ DOMAIN image' = DOMAIN image
    BY <1>4, <2>1, WritesKeepSize
  <2>. HIDE DEF size
  <2>. QED
    BY <1>1, <2>1, <2>2, <2>3, <2>4 DEF Places
<1>7. CASE EncodeNumber
  <2>1. /\ image' = Write(image, address, OfItem(item.size)) /\ Next2(address + item.size)
        /\ UNCHANGED bankW /\ UNCHANGED field /\ item.kind = "number"
    BY <1>7 DEF EncodeNumber
  <2>2. item.size \in Nat /\ Measured(item, address) = address + item.size
    BY <1>1, <1>2, <2>1, MeasuredKinds DEF WellFormed
  <2>3. address' = address + item.size /\ Next2(address') /\ DOMAIN image' = DOMAIN image
    BY <1>4, <2>1, WritesKeepSize
  <2>. QED
    BY <1>1, <2>1, <2>2, <2>3 DEF Places
<1>8. CASE EncodeSymbol /\ ~Fail
  <2>. DEFINE size == IF item.kind = "half" THEN 1 ELSE item.size
  <2>1. /\ image' = Write(image, address, OfItem(size)) /\ Next2(address + size)
        /\ UNCHANGED bankW /\ UNCHANGED field
        /\ item.kind \in {"symbol", "half"} /\ item.name \in DOMAIN table
    BY <1>8 DEF EncodeSymbol
  <2>2. size \in Nat /\ Measured(item, address) = address + size
    BY <1>1, <1>2, <2>1, MeasuredKinds DEF WellFormed
  <2>3. address' = address + size /\ Next2(address') /\ DOMAIN image' = DOMAIN image
    BY <1>4, <2>1, WritesKeepSize
  <2>. HIDE DEF size
  <2>. QED
    BY <1>1, <2>1, <2>2, <2>3 DEF Places
<1>9. CASE EncodeFill
  <2>. DEFINE size == IF item.kind = "align" THEN PadTo(item.size, address)
                      ELSE IF item.size > 0 THEN item.size ELSE 0
  <2>1. /\ image' = WriteEach(address, Zeros(size)) /\ Next2(address + size)
        /\ UNCHANGED bankW /\ UNCHANGED field /\ item.kind \in {"align", "space"}
    BY <1>9 DEF EncodeFill
  <2>2. item.size \in Int /\ (item.kind = "align" => item.size > 0)
    BY <1>2, <1>3, <2>1 DEF WellFormed, Misshapen
  <2>3. item.kind = "align" => PadTo(item.size, address) \in Nat
    <3>1. CASE item.kind = "align"
      <4>1. item.size \in Int /\ item.size > 0 /\ address \in Int
        BY <1>1, <2>2, <3>1
      <4>2. PadTo(item.size, address) \in 0 .. (item.size - 1)
        BY <4>1, Padding
      <4>. QED
        BY <4>1, <4>2
    <3>. QED
      BY <3>1
  <2>4. size \in Nat
    BY <2>1, <2>2, <2>3
  <2>5. ~(item.kind = "space" /\ item.size < 0) => Measured(item, address) = address + size
    BY <1>1, <1>2, <2>1, <2>2, MeasuredKinds
  <2>6. address' = address + size /\ Next2(address') /\ DOMAIN image' = DOMAIN image
    BY <1>4, <2>1, WritesKeepSize
  <2>. HIDE DEF size
  <2>. QED
    BY <1>1, <2>1, <2>4, <2>5, <2>6 DEF Places
<1>10. CASE EncodeOrigin
  <2>1. /\ Next2(item.to) /\ UNCHANGED <<image, bankW>> /\ UNCHANGED field
        /\ item.kind = "origin"
    BY <1>10 DEF EncodeOrigin
  <2>2. item.to \in Nat /\ Measured(item, address) = item.to
    BY <1>1, <1>2, <2>1, MeasuredKinds DEF WellFormed
  <2>3. address' = item.to /\ Next2(address')
    BY <1>4, <2>1
  <2>. QED
    BY <1>1, <2>1, <2>2, <2>3 DEF Places
<1>11. CASE (EncodeBank /\ ~Fail) \/ PassDefinition
  <2>1. /\ Next2(address) /\ UNCHANGED image /\ UNCHANGED field
        /\ item.kind \in Names \cup {"bank"}
        /\ \/ /\ item.kind = "bank" /\ item.bank \in 0 .. (RomBanks - 1)
              /\ bankW' = [bankW EXCEPT ![item.window] = item.bank]
           \/ item.kind # "bank" /\ UNCHANGED bankW
    BY <1>11 DEF EncodeBank, PassDefinition, Names
  <2>2. Measured(item, address) = address
    BY <1>1, <1>2, <2>1, MeasuredKinds
  <2>3. address' = address /\ Next2(address')
    BY <1>4, <2>1
  <2>. QED
    BY <1>1, <2>1, <2>2, <2>3 DEF Places, Names
<1>. QED
  BY <1>5, <1>6, <1>7, <1>8, <1>9, <1>10, <1>11

LEMMA Steps ==
  ASSUME TypeOK, Progress, PlannedInv, Next
  PROVE  Walks \/ Places \/ EndSymbols \/ EndEncode \/ Fail
<1>1. CASE Measure \/ (DefineLabel /\ ~Fail) \/ DefineEqu
  BY <1>1, WalkSteps
<1>2. CASE \/ EncodeCode \/ (EncodeBranch /\ ~Fail) \/ EncodeString \/ EncodeNumber
           \/ (EncodeSymbol /\ ~Fail) \/ EncodeFill \/ EncodeOrigin
           \/ (EncodeBank /\ ~Fail) \/ PassDefinition
  BY <1>2, PlaceSteps
<1>3. CASE EndSymbols \/ EndEncode \/ Refuse
  BY <1>3 DEF Refuse
<1>. QED
  BY <1>1, <1>2, <1>3 DEF Next

\* A longer sequence, element by element.
LEMMA Longer ==
  ASSUME NEW S, NEW s \in Seq(S), NEW x \in S
  PROVE  /\ Append(s, x) \in Seq(S) /\ Len(Append(s, x)) = Len(s) + 1
         /\ \A i \in 1 .. Len(s) : Append(s, x)[i] = s[i]
         /\ Append(s, x)[Len(s) + 1] = x
OBVIOUS

\* What a step of pass 1 leaves for its invariants.
LEMMA WalkFacts ==
  ASSUME TypeOK, Progress, Walks
  PROVE  /\ phase = "symbols" /\ pos \in 1 .. Len(prog) /\ pos = Len(planned)
         /\ WellFormed(item) /\ ~Misshapen(item) /\ item = prog[pos]
         /\ address \in Int /\ address = planned[pos] /\ address' \in Int
         /\ address' = Measured(item, address)
         /\ pos' = pos + 1 /\ Len(planned') = pos + 1 /\ planned' \in Seq(Int)
         /\ planned'[pos + 1] = address'
         /\ \A p \in 1 .. pos : planned'[p] = planned[p]
         /\ placed = <<>> /\ UNCHANGED <<prog, phase, pass2>>
<1>1. /\ phase = "symbols" /\ pos <= Len(prog) /\ pos \in 1 .. (Len(prog) + 1)
      /\ address \in Int
  BY DEF Walks, Building, TypeOK
<1>2. WellFormed(item) /\ pos \in 1 .. Len(prog) /\ item = prog[pos]
  BY <1>1, ItemHere DEF item
<1>3. ~Misshapen(item) /\ Next1(Measured(item, address))
  BY DEF Walks
<1>4. Measured(item, address) \in Int
  BY <1>1, <1>2, <1>3, MeasuredType
<1>5. /\ pos' = pos + 1 /\ address' = Measured(item, address)
      /\ planned' = Append(planned, Measured(item, address))
      /\ UNCHANGED <<prog, phase, pass2>>
  BY <1>3 DEF Next1
<1>6. planned \in Seq(Int) /\ pos = Len(planned) /\ planned[pos] = address /\ placed = <<>>
  BY <1>1 DEF Progress
<1>7. /\ planned' \in Seq(Int) /\ Len(planned') = Len(planned) + 1
      /\ \A i \in 1 .. Len(planned) : planned'[i] = planned[i]
      /\ planned'[Len(planned) + 1] = Measured(item, address)
  BY <1>4, <1>5, <1>6, Longer
<1>. QED
  BY <1>1, <1>2, <1>3, <1>4, <1>5, <1>6, <1>7

\* What a step of pass 2 leaves for its invariants.
LEMMA PlaceFacts ==
  ASSUME TypeOK, Progress, Places
  PROVE  /\ phase = "encode" /\ pos \in 1 .. Len(prog) /\ pos = Len(placed) + 1
         /\ WellFormed(item) /\ item = prog[pos]
         /\ address \in Nat /\ address' \in Nat
         /\ pos' = pos + 1 /\ Len(placed') = pos /\ placed' \in Seq(Nat)
         /\ placed'[pos] = address
         /\ \A p \in Encoded : placed'[p] = placed[p]
         /\ Len(planned) = Len(prog) + 1 /\ UNCHANGED <<prog, phase, table, planned>>
<1>1. /\ phase = "encode" /\ pos <= Len(prog) /\ pos \in 1 .. (Len(prog) + 1)
      /\ address' \in Nat
  BY DEF Places, Encoding, TypeOK
<1>2. /\ Len(planned) = Len(prog) + 1 /\ pos = Len(placed) + 1 /\ address \in Nat
      /\ placed \in Seq(Nat)
  BY <1>1 DEF Progress
<1>3. WellFormed(item) /\ pos \in 1 .. Len(prog) /\ item = prog[pos]
  BY <1>1, ItemHere DEF item
<1>4. /\ pos' = pos + 1 /\ placed' = Append(placed, address)
      /\ UNCHANGED <<prog, phase, table, planned>>
  BY DEF Places, Next2
<1>5. /\ placed' \in Seq(Nat) /\ Len(placed') = Len(placed) + 1
      /\ \A i \in 1 .. Len(placed) : placed'[i] = placed[i]
      /\ placed'[Len(placed) + 1] = address
  BY <1>2, <1>4, Longer
<1>. QED
  BY <1>1, <1>2, <1>3, <1>4, <1>5 DEF Encoded

-----------------------------------------------------------------------------
(* One lemma for each part of the invariant. *)

LEMMA ProgressStep ==
  ASSUME TypeOK, Progress, PlannedInv, Next
  PROVE  Progress'
<1>1. CASE Walks
  <2>1. prog \in Seq(Items) /\ Len(prog) \in Nat
    BY DEF Progress
  <2>2. /\ phase' = "symbols" /\ pos' \in 1 .. (Len(prog) + 1) /\ pos' = Len(planned')
        /\ planned' \in Seq(Int) /\ planned'[pos'] = address' /\ placed' = <<>>
        /\ prog' = prog /\ planned'[1] = planned[1]
    BY <1>1, <2>1, WalkFacts DEF pass2
  <2>3. Len(planned') \in 1 .. (Len(prog') + 1) /\ planned[1] = 0
    BY <2>1, <2>2 DEF Progress
  <2>. QED
    BY <2>1, <2>2, <2>3 DEF Progress
<1>2. CASE Places
  <2>1. prog \in Seq(Items) /\ Len(prog) \in Nat
    BY DEF Progress
  <2>2. planned \in Seq(Int)
    BY DEF Progress
  <2>3. placed' # <<>> => Len(planned') = Len(prog') + 1
    BY <1>2, PlaceFacts
  <2>. QED
    BY SMTT(30), <1>2, <2>1, <2>2, <2>3, PlaceFacts DEF Progress
<1>3. CASE EndSymbols
  BY <1>3 DEF EndSymbols, Progress, pass2, TypeOK
<1>4. CASE EndEncode
  BY <1>4 DEF EndEncode, Progress, pass2, TypeOK
<1>5. CASE Fail
  BY <1>5 DEF Fail, Progress, pass2
<1>. QED
  BY <1>1, <1>2, <1>3, <1>4, <1>5, Steps

LEMMA TypeStep ==
  ASSUME TypeOK, Progress, PlannedInv, BankInv, Next
  PROVE  TypeOK'
<1>1. CASE Walks
  <2>1. DOMAIN table' \subseteq {item.name} \cup DOMAIN table
        /\ \A n \in DOMAIN table' : table'[n] \in 0 .. (Wrap - 1)
    <3>1. \A n \in DOMAIN table : table[n] \in 0 .. (Wrap - 1)
      BY DEF TypeOK
    <3>2. ASSUME NEW v \in Int PROVE Stored(v) \in 0 .. (Wrap - 1)
      BY Sizes DEF Stored
    <3>3. CASE UNCHANGED table
      BY <3>1, <3>3
    <3>4. ASSUME NEW v \in Int, table' = Entered(table, item.name, Stored(v))
          PROVE  /\ DOMAIN table' \subseteq {item.name} \cup DOMAIN table
                 /\ \A n \in DOMAIN table' : table'[n] \in 0 .. (Wrap - 1)
      <4>1. /\ DOMAIN table' = DOMAIN table \cup {item.name}
            /\ table'[item.name] = Stored(v)
            /\ \A m \in DOMAIN table : m # item.name => table'[m] = table[m]
        BY <3>4 DEF Entered
      <4>2. Stored(v) \in 0 .. (Wrap - 1)
        BY <3>2
      <4>3. ASSUME NEW n \in DOMAIN table' PROVE table'[n] \in 0 .. (Wrap - 1)
        <5>1. n = item.name \/ (n # item.name /\ n \in DOMAIN table)
          BY <4>1
        <5>. QED
          BY <3>1, <4>1, <4>2, <5>1
      <4>. QED
        BY <4>1, <4>3
    <3>5. address \in Int /\ (item.kind = "equ" => item.value \in Int)
      BY <1>1, WalkFacts DEF WellFormed
    <3>. QED
      BY <1>1, <3>3, <3>4, <3>5 DEF Walks
  <2>. QED
    BY SMTT(30), <1>1, <2>1, WalkFacts DEF TypeOK, pass2
<1>2. CASE Places
  <2>1. \A p \in DOMAIN field' : prog'[p].kind = "branch" /\ field'[p] \in 0 .. (Field - 1)
    <3>1. \A p \in DOMAIN field : prog[p].kind = "branch" /\ field[p] \in 0 .. (Field - 1)
      BY DEF TypeOK
    <3>2. CASE UNCHANGED field
      BY <1>2, <3>1, <3>2, PlaceFacts
    <3>3. CASE /\ item.kind = "branch"
               /\ field' = Entered(field, pos, Offset(table[item.name], address) % Field)
      <4>1. item.name \in DOMAIN table
        BY <1>2, <3>3 DEF Places, Uses
      <4>2. table[item.name] \in Int /\ address \in Int
        BY SMTT(30), <1>2, <4>1, PlaceFacts, Sizes DEF TypeOK
      <4>3. Offset(table[item.name], address) \in Int
        BY <4>2, Sizes DEF Offset
      <4>4. Offset(table[item.name], address) % Field \in 0 .. (Field - 1)
        BY <4>3, Sizes
      <4>5. /\ DOMAIN field' = DOMAIN field \cup {pos}
            /\ field'[pos] = Offset(table[item.name], address) % Field
            /\ \A m \in DOMAIN field : m # pos => field'[m] = field[m]
        BY <3>3 DEF Entered
      <4>6. prog' = prog /\ item = prog[pos]
        BY <1>2, PlaceFacts
      <4>7. ASSUME NEW p \in DOMAIN field'
            PROVE  prog'[p].kind = "branch" /\ field'[p] \in 0 .. (Field - 1)
        <5>1. p = pos \/ (p # pos /\ p \in DOMAIN field)
          BY <4>5
        <5>. QED
          BY <3>1, <3>3, <4>4, <4>5, <4>6, <5>1
      <4>. QED
        BY <4>7
    <3>. QED
      BY <1>2, <3>2, <3>3 DEF Places
  <2>2. \A w \in Windows : bankW'[w] \in 0 .. (RomBanks - 1)
    <3>1. \A w \in Windows : bankW[w] \in 0 .. (RomBanks - 1)
      BY DEF TypeOK
    <3>2. CASE UNCHANGED bankW
      BY <3>1, <3>2
    <3>3. CASE /\ item.bank \in 0 .. (RomBanks - 1)
               /\ bankW' = [bankW EXCEPT ![item.window] = item.bank]
      BY <3>1, <3>3 DEF BankInv
    <3>. QED
      BY <1>2, <3>2, <3>3 DEF Places
  <2>3. DOMAIN image' = 0 .. (RomSize - 1)
    BY <1>2 DEF Places, TypeOK
  <2>4. Len(placed') < pos' /\ \A p \in DOMAIN placed' : placed'[p] \in Nat
    BY SMTT(30), <1>2, PlaceFacts
  <2>. QED
    BY SMTT(30), <1>2, <2>1, <2>2, <2>3, <2>4, PlaceFacts DEF TypeOK
<1>3. CASE EndSymbols
  BY <1>3 DEF EndSymbols, TypeOK, Progress, pass2
<1>4. CASE EndEncode
  BY <1>4 DEF EndEncode, TypeOK, pass2
<1>5. CASE Fail
  BY <1>5 DEF Fail, TypeOK, pass2
<1>. QED
  BY <1>1, <1>2, <1>3, <1>4, <1>5, Steps

LEMMA PlannedStep ==
  ASSUME TypeOK, Progress, PlannedInv, Next
  PROVE  PlannedInv'
<1>1. CASE Walks
  <2>1. \A p \in 1 .. (pos - 1) :
          planned[p + 1] = Measured(prog[p], planned[p]) /\ ~Misshapen(prog[p])
    BY <1>1, WalkFacts DEF PlannedInv, Walked
  <2>2. /\ pos \in Nat /\ Len(planned') = pos + 1 /\ prog' = prog
        /\ planned'[pos + 1] = Measured(prog[pos], planned[pos]) /\ ~Misshapen(prog[pos])
        /\ \A p \in 1 .. pos : planned'[p] = planned[p]
    BY <1>1, WalkFacts
  <2>3. ASSUME NEW p \in Walked'
        PROVE  planned'[p + 1] = Measured(prog'[p], planned'[p]) /\ ~Misshapen(prog'[p])
    <3>1. p \in 1 .. pos
      BY <2>2 DEF Walked
    <3>2. CASE p = pos
      BY <2>2, <3>1, <3>2
    <3>3. CASE p # pos
      <4>1. p \in 1 .. (pos - 1) /\ p + 1 \in 1 .. pos
        BY <2>2, <3>1, <3>3
      <4>. QED
        BY <2>1, <2>2, <3>1, <4>1
    <3>. QED
      BY <3>2, <3>3
  <2>. QED
    BY <2>3 DEF PlannedInv
<1>2. CASE UNCHANGED <<prog, planned>>
  BY <1>2 DEF PlannedInv, Walked
<1>3. CASE Places
  <2>. UNCHANGED <<prog, planned>>
    BY <1>3, PlaceFacts
  <2>. QED
    BY <1>2
<1>. QED
  BY <1>1, <1>2, <1>3, Steps DEF EndSymbols, EndEncode, Fail

LEMMA TableStep ==
  ASSUME TypeOK, Progress, PlannedInv, TableInv, Next
  PROVE  TableInv'
<1>1. CASE Walks
  <2>1. /\ pos \in Nat /\ Walked = 1 .. (pos - 1) /\ Walked' = 1 .. pos
        /\ pos \in Walked' /\ Walked \subseteq Walked'
        /\ \A p \in Walked' : p # pos => p \in Walked
        /\ prog' = prog /\ item = prog[pos]
        /\ address = planned[pos] /\ \A p \in Walked' : planned'[p] = planned[p]
    BY SMTT(30), <1>1, WalkFacts DEF Walked
  <2>2. DOMAIN table = {prog[p].name : p \in {q \in Walked : prog[q].kind \in Names}}
    BY DEF TableInv
  <2>3. DOMAIN table' = DOMAIN table \cup (IF item.kind \in Names THEN {item.name} ELSE {})
    BY <1>1 DEF Walks, Entered, Names
  <2>4. DOMAIN table' = {prog[p].name : p \in {q \in Walked' : prog[q].kind \in Names}}
    <3>1. ASSUME NEW n \in DOMAIN table'
          PROVE  \E p \in Walked' : prog[p].kind \in Names /\ prog[p].name = n
      <4>1. CASE n \in DOMAIN table
        BY <2>1, <2>2, <4>1
      <4>2. CASE item.kind \in Names /\ n = item.name
        BY <2>1, <4>2
      <4>. QED
        BY <2>3, <4>1, <4>2
    <3>2. ASSUME NEW p \in Walked', prog[p].kind \in Names
          PROVE  prog[p].name \in DOMAIN table'
      BY <2>1, <2>2, <2>3, <3>2
    <3>. QED
      BY <3>1, <3>2
  <2>5. ASSUME NEW p \in Walked', NEW q \in Walked', p < q,
               prog[p].kind \in Names, prog[q].kind = "label"
        PROVE  prog[p].name # prog[q].name
    <3>1. p \in Walked
      BY <2>1, <2>5
    <3>2. CASE q \in Walked
      BY <2>5, <3>1, <3>2 DEF TableInv
    <3>3. CASE q = pos
      <4>1. item.name \notin DOMAIN table
        BY <1>1, <2>1, <2>5, <3>3 DEF Walks, Names
      <4>. QED
        BY <2>1, <2>2, <2>5, <3>1, <3>3, <4>1
    <3>. QED
      BY <2>1, <3>2, <3>3
  <2>6. ASSUME NEW p \in Walked', prog[p].kind = "label",
               \A q \in Walked' : (q > p /\ prog[q].kind = "equ") => prog[q].name # prog[p].name
        PROVE  table'[prog[p].name] = Stored(planned[p])
    <3>1. CASE p = pos
      <4>1. item.kind = "label" /\ item.kind \in Names /\ item.kind # "equ"
        BY <2>1, <2>6, <3>1 DEF Names
      <4>2. table' = Entered(table, item.name, Stored(address))
        BY <1>1, <4>1 DEF Walks
      <4>3. table'[item.name] = Stored(address)
        BY <4>2 DEF Entered
      <4>. QED
        BY <2>1, <3>1, <4>3
    <3>2. CASE p \in Walked
      <4>1. table[prog[p].name] = Stored(planned[p]) /\ prog[p].name \in DOMAIN table
        <5>1. \A q \in Walked : (q > p /\ prog[q].kind = "equ") => prog[q].name # prog[p].name
          BY <2>1, <2>6
        <5>2. prog[p].kind \in Names
          BY <2>6 DEF Names
        <5>. QED
          BY <2>2, <2>6, <3>2, <5>1, <5>2 DEF TableInv
      <4>2. item.kind \in Names => item.name # prog[p].name
        <5>1. p < pos
          BY <2>1, <3>2
        <5>2. CASE item.kind = "equ"
          BY <2>1, <2>6, <5>1, <5>2
        <5>3. CASE item.kind = "label"
          <6>1. item.name \notin DOMAIN table
            BY <1>1, <5>3 DEF Walks, Names
          <6>. QED
            BY <4>1, <6>1
        <5>. QED
          BY <5>2, <5>3 DEF Names
      <4>3. table'[prog[p].name] = table[prog[p].name]
        BY <1>1, <4>1, <4>2 DEF Walks, Entered, Names
      <4>. QED
        BY <4>1, <4>3
    <3>. QED
      BY <2>1, <3>1, <3>2
  <2>. QED
    BY <2>1, <2>4, <2>5, <2>6 DEF TableInv, Stored
<1>2. CASE UNCHANGED <<prog, table, planned>>
  BY <1>2 DEF TableInv, Walked, Stored
<1>3. CASE Places
  <2>. UNCHANGED <<prog, table, planned>>
    BY <1>3, PlaceFacts
  <2>. QED
    BY <1>2
<1>. QED
  BY <1>1, <1>2, <1>3, Steps DEF EndSymbols, EndEncode, Fail

\* Whether the passes are in step at an item depends on those before it alone.
LEMMA InStepKept ==
  ASSUME NEW p \in Nat, prog' = prog, \A q \in 1 .. (p - 1) : placed'[q] = placed[q]
  PROVE  InStep(p)' <=> InStep(p)
<1>1. ASSUME NEW q \in 1 .. (p - 1) PROVE Drift(q)' <=> Drift(q)
  BY DEF Drift
<1>. HIDE DEF Drift
<1>2. InStep(p) <=> \A q \in 1 .. (p - 1) :
        Drift(q) => \E o \in (q + 1) .. (p - 1) : prog[o].kind = "origin"
  BY DEF InStep
<1>3. InStep(p)' <=> \A q \in 1 .. (p - 1) :
        Drift(q)' => \E o \in (q + 1) .. (p - 1) : prog[o].kind = "origin"
  BY DEF InStep
<1>. QED
  BY <1>1, <1>2, <1>3

\* Pass 2 stays in step over an item that does not part the passes, and an
\* .origin brings it back.
LEMMA InStepNext ==
  ASSUME NEW p \in Nat \ {0}, InStep(p + 1)', prog'[p].kind # "origin"
  PROVE  InStep(p)' /\ ~Drift(p)'
<1>. HIDE DEF Drift
<1>1. ~Drift(p)'
  <2>1. p \in 1 .. ((p + 1) - 1) /\ (p + 1) .. ((p + 1) - 1) = {}
    OBVIOUS
  <2>. QED
    BY <2>1 DEF InStep
<1>2. ASSUME NEW q \in 1 .. (p - 1), Drift(q)'
      PROVE  \E o \in (q + 1) .. (p - 1) : prog'[o].kind = "origin"
  <2>1. q \in 1 .. ((p + 1) - 1)
    OBVIOUS
  <2>2. PICK o \in (q + 1) .. ((p + 1) - 1) : prog'[o].kind = "origin"
    BY <1>2, <2>1 DEF InStep
  <2>3. o \in (q + 1) .. (p - 1)
    BY <2>2
  <2>. QED
    BY <2>2, <2>3
<1>. QED
  BY <1>1, <1>2 DEF InStep

LEMMA PlacedKept ==
  ASSUME PlacedInv, UNCHANGED <<prog, planned, placed>>,
         phase' = "encode" => phase = "encode" /\ UNCHANGED <<pos, address>>
  PROVE  PlacedInv'
BY DEF PlacedInv, Encoded, InStep, Drift

LEMMA PlacedStep ==
  ASSUME TypeOK, Progress, PlannedInv, PlacedInv, Next
  PROVE  PlacedInv'
<1>1. CASE Places
  <2>1. /\ pos \in Nat \ {0} /\ Encoded = 1 .. (pos - 1) /\ Encoded' = 1 .. pos
        /\ pos' = pos + 1 /\ prog' = prog /\ planned' = planned
        /\ placed'[pos] = address /\ \A p \in Encoded : placed'[p] = placed[p]
        /\ phase = "encode" /\ item = prog[pos] /\ address \in Int
        /\ pos \in 1 .. Len(prog) /\ Len(planned) = Len(prog) + 1
        /\ WellFormed(item)
    BY <1>1, PlaceFacts DEF Encoded
  <2>2. ASSUME NEW p \in 1 .. pos PROVE InStep(p)' <=> InStep(p)
    <3>1. p \in Nat /\ \A q \in 1 .. (p - 1) : placed'[q] = placed[q]
      BY <2>1
    <3>. QED
      BY <2>1, <3>1, InStepKept
  <2>3. ASSUME NEW p \in Encoded', InStep(p)' PROVE placed'[p] = planned'[p]
    <3>1. InStep(p) /\ p \in 1 .. pos
      BY <2>1, <2>2, <2>3
    <3>2. CASE p = pos
      BY <2>1, <3>1, <3>2 DEF PlacedInv
    <3>3. CASE p \in Encoded
      BY <2>1, <3>1, <3>3 DEF PlacedInv
    <3>. QED
      BY <2>1, <3>1, <3>2, <3>3
  <2>4. ASSUME NEW p \in Nat, p = pos', InStep(p)' PROVE address' = planned'[p]
    <3>1. planned[pos + 1] = Measured(item, planned[pos]) /\ p = pos + 1
      BY <2>1, <2>4 DEF PlannedInv, Walked
    <3>2. CASE item.kind = "origin"
      <4>1. address' = item.to
        BY <1>1, <3>2 DEF Places
      <4>2. planned[pos] \in Int /\ item.kind \in Kinds
        BY <2>1 DEF Progress, WellFormed
      <4>3. Measured(item, planned[pos]) = item.to
        BY <3>2, <4>2, MeasuredKinds
      <4>. QED
        BY <2>1, <3>1, <4>1, <4>3
    <3>3. CASE item.kind # "origin"
      <4>1. PICK here \in Nat \ {0} : here = pos
        BY <2>1
      <4>2. prog'[here].kind # "origin" /\ InStep(here + 1)'
        BY <2>1, <2>4, <3>1, <3>3, <4>1
      <4>3. InStep(here)' /\ ~Drift(here)'
        BY <4>2, InStepNext
      <4>4. address = planned[pos]
        BY <2>1, <2>2, <4>1, <4>3 DEF PlacedInv
      <4>5. /\ ~(item.kind \in Code /\ address % 2 = 1)
            /\ ~(item.kind = "space" /\ item.size < 0)
        BY <2>1, <4>1, <4>3 DEF Drift
      <4>6. address' = Measured(item, address)
        BY <1>1, <4>5 DEF Places
      <4>. QED
        BY <2>1, <3>1, <4>4, <4>6
    <3>. QED
      BY <3>2, <3>3
  <2>. QED
    BY <2>1, <2>3, <2>4 DEF PlacedInv
<1>2. CASE EndSymbols
  <2>1. /\ placed = <<>> /\ placed' = placed /\ prog' = prog /\ planned' = planned
        /\ pos' = 1 /\ address' = 0 /\ planned[1] = 0
    BY <1>2 DEF EndSymbols, pass2, Progress
  <2>2. Encoded' = {}
    BY <2>1 DEF Encoded
  <2>. QED
    BY <2>1, <2>2 DEF PlacedInv
<1>4. CASE Walks
  <2>1. /\ phase' = "symbols" /\ placed' = <<>>
    BY <1>4, WalkFacts DEF pass2
  <2>2. Encoded' = {}
    BY <2>1 DEF Encoded
  <2>. QED
    BY <2>1, <2>2 DEF PlacedInv
<1>5. CASE EndEncode \/ Fail
  BY <1>5, PlacedKept DEF EndEncode, Fail, pass2
<1>. QED
  BY <1>1, <1>2, <1>4, <1>5, Steps

LEMMA EncodedStep ==
  ASSUME TypeOK, Progress, PlannedInv, EncodedInv, Next
  PROVE  EncodedInv'
<1>1. CASE Places
  <2>1. /\ Encoded = 1 .. (pos - 1) /\ Encoded' = 1 .. pos /\ pos \in Nat
        /\ prog' = prog /\ table' = table /\ item = prog[pos]
    BY <1>1, PlaceFacts DEF Encoded
  <2>2. /\ item.kind \in Uses => item.name \in DOMAIN table
        /\ item.kind = "bank" => item.bank \in 0 .. (RomBanks - 1)
    BY <1>1 DEF Places
  <2>. QED
    BY <2>1, <2>2 DEF EncodedInv
<1>2. CASE UNCHANGED <<prog, table, placed>>
  BY <1>2 DEF EncodedInv, Encoded
<1>3. CASE Walks
  <2>1. placed' = <<>>
    BY <1>3, WalkFacts DEF pass2
  <2>. QED
    BY <2>1 DEF EncodedInv, Encoded
<1>. QED
  BY <1>1, <1>2, <1>3, Steps DEF EndSymbols, EndEncode, Fail, pass2

LEMMA FieldStep ==
  ASSUME TypeOK, Progress, PlannedInv, FieldInv, Next
  PROVE  FieldInv'
<1>1. CASE Places
  <2>1. /\ Encoded = 1 .. (pos - 1) /\ Encoded' = 1 .. pos /\ pos \in Nat \ {0}
        /\ prog' = prog /\ table' = table /\ item = prog[pos]
        /\ placed'[pos] = address /\ \A p \in Encoded : placed'[p] = placed[p]
    BY <1>1, PlaceFacts DEF Encoded
  <2>2. \/ /\ item.kind = "branch"
           /\ field' = Entered(field, pos, Offset(table[item.name], address) % Field)
        \/ UNCHANGED field
    BY <1>1 DEF Places
  <2>3. ASSUME NEW p \in DOMAIN field'
        PROVE  /\ p \in Encoded' /\ prog[p].kind = "branch"
               /\ field'[p] = Offset(table[prog[p].name], placed'[p]) % Field
    <3>1. CASE p \in DOMAIN field /\ field'[p] = field[p]
      BY <2>1, <3>1 DEF FieldInv
    <3>2. CASE /\ p = pos /\ item.kind = "branch"
               /\ field'[pos] = Offset(table[item.name], address) % Field
      BY <2>1, <3>2
    <3>3. CASE UNCHANGED field
      BY <3>1, <3>3
    <3>4. CASE /\ item.kind = "branch"
               /\ field' = Entered(field, pos, Offset(table[item.name], address) % Field)
      <4>1. /\ field'[pos] = Offset(table[item.name], address) % Field
            /\ p # pos => p \in DOMAIN field /\ field'[p] = field[p]
        BY <3>4 DEF Entered
      <4>. QED
        BY <3>1, <3>2, <3>4, <4>1
    <3>. QED
      BY <2>2, <3>3, <3>4
  <2>. QED
    BY <2>1, <2>3 DEF FieldInv, Offset
<1>2. CASE UNCHANGED <<prog, table, placed, field>>
  BY <1>2 DEF FieldInv, Encoded, Offset
<1>3. CASE Walks
  <2>1. placed = <<>> /\ field' = field
    BY <1>3, WalkFacts DEF pass2
  <2>2. DOMAIN field' = {}
    BY <2>1 DEF FieldInv, Encoded
  <2>. QED
    BY <2>2 DEF FieldInv
<1>. QED
  BY <1>1, <1>2, <1>3, Steps DEF EndSymbols, EndEncode, Fail, pass2

\* What a .bankw behind which nothing has been read says, and what one more
\* item changes of it.
LEMMA BankAtStart ==
  ASSUME NEW w
  PROVE  BankAt(1, w) = w
<1>1. {q \in 1 .. (1 - 1) : prog[q].kind = "bank" /\ prog[q].window = w} = {}
  OBVIOUS
<1>. QED
  BY <1>1 DEF BankAt

LEMMA BankAtNext ==
  ASSUME NEW p \in Nat \ {0}, NEW w
  PROVE  BankAt(p + 1, w) = IF prog[p].kind = "bank" /\ prog[p].window = w
                            THEN prog[p].bank ELSE BankAt(p, w)
<1>. DEFINE told(n) == {q \in 1 .. (n - 1) : prog[q].kind = "bank" /\ prog[q].window = w}
<1>1. (p + 1) - 1 = p
  OBVIOUS
<1>2. CASE prog[p].kind = "bank" /\ prog[p].window = w
  <2>1. p \in told(p + 1) /\ \A r \in told(p + 1) : r <= p /\ r \in Nat
    BY <1>1, <1>2
  <2>. DEFINE last == CHOOSE q \in told(p + 1) : \A r \in told(p + 1) : r <= q
  <2>2. last \in told(p + 1) /\ \A r \in told(p + 1) : r <= last
    BY <2>1
  <2>3. last = p
    BY <2>1, <2>2
  <2>4. BankAt(p + 1, w) = prog[last].bank
    BY <2>1 DEF BankAt
  <2>. QED
    BY <1>2, <2>3, <2>4
<1>3. CASE ~(prog[p].kind = "bank" /\ prog[p].window = w)
  <2>1. told(p + 1) = told(p)
    <3>1. ASSUME NEW q \in 1 .. p, q # p PROVE q \in 1 .. (p - 1)
      BY <3>1
    <3>2. 1 .. (p - 1) \subseteq 1 .. p
      OBVIOUS
    <3>. QED
      BY <1>1, <1>3, <3>1, <3>2
  <2>. DEFINE said(S) == IF S = {} THEN w ELSE prog[CHOOSE q \in S : \A r \in S : r <= q].bank
  <2>2. BankAt(p + 1, w) = said(told(p + 1)) /\ BankAt(p, w) = said(told(p))
    BY DEF BankAt
  <2>. HIDE DEF told, said
  <2>. QED
    BY <1>3, <2>1, <2>2
<1>. QED
  BY <1>2, <1>3

\* The program does not change, nor what it says of the banks.
LEMMA BankAtKept ==
  ASSUME prog' = prog, NEW p, NEW w
  PROVE  BankAt(p, w)' = BankAt(p, w)
BY DEF BankAt

LEMMA BankKept ==
  ASSUME BankInv, UNCHANGED <<prog, placed, bankW>>
  PROVE  BankInv'
<1>1. PICK p : p = Len(placed) + 1
  OBVIOUS
<1>2. \A w \in Windows : bankW[w] = BankAt(p, w)
  BY <1>1 DEF BankInv
<1>3. \A w \in Windows : bankW'[w] = BankAt(p, w)'
  BY <1>2, BankAtKept
<1>. QED
  BY <1>1, <1>3 DEF BankInv

LEMMA BankStep ==
  ASSUME TypeOK, Progress, PlannedInv, BankInv, Next
  PROVE  BankInv'
<1>1. CASE Places
  <2>1. /\ pos \in Nat \ {0} /\ Len(placed) + 1 = pos /\ Len(placed') + 1 = pos + 1
        /\ prog' = prog /\ item = prog[pos] /\ WellFormed(item)
    BY <1>1, PlaceFacts
  <2>2. /\ bankW \in [Windows -> 0 .. (RomBanks - 1)]
        /\ \A w \in Windows : bankW[w] = BankAt(pos, w)
    BY <2>1 DEF BankInv
  <2>3. \A w \in Windows : BankAt(pos + 1, w)
          = IF item.kind = "bank" /\ item.window = w THEN item.bank ELSE BankAt(pos, w)
    BY <2>1, BankAtNext
  <2>6. ASSUME NEW w \in Windows PROVE BankAt(pos + 1, w) = BankAt(Len(placed) + 1, w)'
    <3>1. PICK p : p = pos + 1
      OBVIOUS
    <3>2. BankAt(p, w)' = BankAt(p, w)
      BY <2>1, BankAtKept
    <3>. QED
      BY <2>1, <3>1, <3>2
  <2>4. CASE /\ item.kind = "bank" /\ item.bank \in 0 .. (RomBanks - 1)
             /\ bankW' = [bankW EXCEPT ![item.window] = item.bank]
    <3>1. bankW' \in [Windows -> 0 .. (RomBanks - 1)]
      BY <2>2, <2>4
    <3>2. \A w \in Windows : bankW'[w] = BankAt(pos + 1, w)
      BY <2>2, <2>3, <2>4
    <3>. QED
      BY <2>1, <2>6, <3>1, <3>2 DEF BankInv
  <2>5. CASE item.kind # "bank" /\ UNCHANGED bankW
    <3>1. \A w \in Windows : bankW'[w] = BankAt(pos + 1, w)
      BY <2>2, <2>3, <2>5
    <3>. QED
      BY <2>1, <2>2, <2>5, <2>6, <3>1 DEF BankInv
  <2>. QED
    BY <1>1, <2>4, <2>5 DEF Places
<1>2. CASE Walks
  <2>. UNCHANGED <<prog, placed, bankW>>
    BY <1>2, WalkFacts DEF pass2
  <2>. QED
    BY BankKept
<1>3. CASE EndSymbols \/ EndEncode \/ Fail
  BY <1>3, BankKept DEF EndSymbols, EndEncode, Fail, pass2
<1>. QED
  BY <1>1, <1>2, <1>3, Steps

LEMMA AssemblerInit == Init => AssemblerInv /\ VerdictIsExact
<1>. SUFFICES ASSUME Init PROVE AssemblerInv /\ VerdictIsExact
  OBVIOUS
<1>. USE DEF Init
<1>1. prog \in Seq(Items) /\ Len(prog) \in Nat
  OBVIOUS
<1>2. bankW \in [Windows -> 0 .. (RomBanks - 1)]
  BY Sizes DEF Windows
<1>3. TypeOK
  BY <1>1, <1>2 DEF TypeOK
<1>4. Progress
  BY <1>1 DEF Progress
<1>5. Walked = {} /\ Encoded = {}
  BY DEF Walked, Encoded
<1>6. PlannedInv /\ TableInv /\ PlacedInv /\ EncodedInv /\ FieldInv
  BY <1>5 DEF PlannedInv, TableInv, PlacedInv, EncodedInv, FieldInv
<1>7. BankInv
  <2>1. Len(placed) + 1 = 1
    OBVIOUS
  <2>2. \A w \in Windows : BankAt(1, w) = w
    BY BankAtStart
  <2>. QED
    BY <1>2, <2>1, <2>2 DEF BankInv
<1>8. VerdictIsExact
  BY DEF VerdictIsExact
<1>. QED
  BY <1>3, <1>4, <1>6, <1>7, <1>8 DEF AssemblerInv

LEMMA AssemblerStep ==
  ASSUME AssemblerInv, [Next]_vars
  PROVE  AssemblerInv'
<1>1. /\ TypeOK /\ Progress /\ PlannedInv /\ TableInv /\ PlacedInv
      /\ EncodedInv /\ FieldInv /\ BankInv
  BY DEF AssemblerInv
<1>2. CASE Next
  BY <1>1, <1>2, TypeStep, ProgressStep, PlannedStep, TableStep, PlacedStep,
     EncodedStep, FieldStep, BankStep DEF AssemblerInv
<1>3. CASE UNCHANGED vars
  <2>1. TypeOK' /\ Progress' /\ PlannedInv' /\ TableInv'
    BY ZenonT(40), <1>1, <1>3 DEF vars, TypeOK, Progress, PlannedInv, TableInv, Walked, Stored
  <2>2. EncodedInv' /\ FieldInv'
    BY <1>1, <1>3 DEF vars, EncodedInv, FieldInv, Encoded, Offset
  <2>3. PlacedInv'
    BY <1>1, <1>3, PlacedKept DEF vars
  <2>4. BankInv'
    BY <1>1, <1>3, BankKept DEF vars
  <2>. QED
    BY <2>1, <2>2, <2>3, <2>4 DEF AssemblerInv
<1>. QED
  BY <1>2, <1>3

-----------------------------------------------------------------------------
(* The properties. *)

\* The two passes keep to their plan and every variable keeps its type,
\* whatever the program (symbol_build_table and encode_and_write).
THEOREM AssemblerInvariant == Spec => []AssemblerInv
BY AssemblerInit, AssemblerStep, PTL DEF Spec

\* Every address, table, image, bank register and offset field stays in range
\* (the arrays of struct EncodeState and of the symbol table).
THEOREM AssemblerTypeCorrect == Spec => []TypeOK
<1>1. AssemblerInv => TypeOK
  BY DEF AssemblerInv
<1>. QED
  BY <1>1, AssemblerInvariant, PTL

\* A label's address in the table is where pass 2 meets it, unless code at an
\* odd address or a negative .space has parted the passes.
THEOREM AssemblerLabels == Spec => []LabelsWhereCodeIs
<1>1. AssemblerInv => LabelsWhereCodeIs
  <2>. SUFFICES ASSUME AssemblerInv, NEW p \in 1 .. Len(placed), Labelled(p), InStep(p)
                PROVE  table[prog[p].name] = placed[p] % Wrap
    BY DEF LabelsWhereCodeIs
  <2>1. Progress /\ TableInv /\ PlacedInv
    BY DEF AssemblerInv
  <2>2. Walked = 1 .. Len(prog) /\ p \in Walked
    BY <2>1 DEF Progress, Walked
  <2>3. placed[p] = planned[p]
    BY <2>1 DEF PlacedInv, Encoded
  <2>4. table[prog[p].name] = Stored(planned[p])
    BY <2>1, <2>2 DEF TableInv, Labelled
  <2>. QED
    BY <2>3, <2>4 DEF Stored
<1>. QED
  BY <1>1, AssemblerInvariant, PTL

LEMMA Division ==
  ASSUME NEW n \in Nat, NEW m \in Nat \ {0}
  PROVE  /\ n \div m \in Nat /\ n % m \in Nat /\ n % m < m
         /\ n = m * (n \div m) + (n % m)
OBVIOUS

LEMMA EvenRemainder ==
  ASSUME NEW n \in Nat, NEW m \in Nat \ {0}, n % 2 = 0, m % 2 = 0
  PROVE  (n % m) % 2 = 0
<1>1. PICK h \in Nat, k \in Nat : n = 2 * h /\ m = 2 * k
  OBVIOUS
<1>2. PICK q \in Nat, r \in Nat : n = m * q + r /\ n % m = r
  BY Division
<1>3. PICK g \in Nat : g = k * q
  BY <1>1, <1>2
<1>4. m * q = 2 * g
  BY <1>1, <1>2, <1>3
<1>5. r = 2 * (h - g)
  BY <1>1, <1>2, <1>3, <1>4
<1>. QED
  BY <1>1, <1>2, <1>3, <1>5

\* The offset that leads from one address to another leads back to it, through
\* a field too small for the addresses and a memory that wraps.
LEMMA OffsetLeads ==
  ASSUME NEW W \in Nat \ {0}, W % 2 = 0, NEW from \in Nat, from % 2 = 0,
         NEW to \in Nat, to % 2 = 0, to < W,
         NEW d \in Int, d = (to - (from % W) - 2) \div 2
  PROVE  (from + (from % 2) + 2 + 2 * d) % W = to
<1>1. PICK q \in Nat, r \in Nat : from = W * q + r /\ r < W /\ from % W = r
  BY Division
<1>2. r % 2 = 0
  BY <1>1, EvenRemainder
<1>3. 2 * d = to - r - 2
  BY <1>1, <1>2
<1>4. from + (from % 2) + 2 + 2 * d = W * q + to
  BY <1>1, <1>3
<1>5. (W * q + to) % W = to
  OBVIOUS
<1>. QED
  BY <1>4, <1>5

\* A field is read back, sign and all, when the number is within its reach.
LEMMA FieldReads ==
  ASSUME NEW F \in Nat \ {0}, F % 2 = 0, NEW d \in Int, -(F \div 2) <= d, d < F \div 2
  PROVE  (IF d % F < F \div 2 THEN d % F ELSE (d % F) - F) = d
<1>1. PICK h \in Nat \ {0} : F = 2 * h /\ F \div 2 = h
  OBVIOUS
<1>2. CASE d >= 0
  <2>1. d % F = d
    BY <1>1, <1>2
  <2>. QED
    BY <1>1, <1>2, <2>1
<1>3. CASE d < 0
  <2>1. d % F = d + F
    BY <1>1, <1>3
  <2>. QED
    BY <1>1, <1>3, <2>1
<1>. QED
  BY <1>2, <1>3

\* A branch within the reach of its nine bits leads to its label
\* (handle_branch_cond_parse).
THEOREM AssemblerBranches == Spec => []BranchesReach
<1>1. AssemblerInv /\ LabelsWhereCodeIs => BranchesReach
  <2>. SUFFICES ASSUME AssemblerInv, LabelsWhereCodeIs, phase = "done",
                       NEW p \in DOMAIN field, NEW q \in Positions,
                       Labelled(q), prog[q].name = prog[p].name,
                       InStep(q), ~Drift(p), placed[q] % 2 = 0,
                       Distance(p, q) \in -(Field \div 2) .. (Field \div 2 - 1)
                PROVE  Target(p) = placed[q] % Wrap
    BY DEF BranchesReach
  <2>1. Progress /\ FieldInv
    BY DEF AssemblerInv
  <2>2. Len(placed) = Len(prog) /\ placed \in Seq(Nat)
    BY <2>1 DEF Progress
  <2>3. q \in 1 .. Len(placed) /\ placed[q] \in Nat
    BY <2>2 DEF Positions
  <2>4. table[prog[p].name] = placed[q] % Wrap
    BY <2>3 DEF LabelsWhereCodeIs
  <2>5. /\ p \in 1 .. Len(placed) /\ prog[p].kind = "branch"
        /\ field[p] = Offset(placed[q] % Wrap, placed[p]) % Field
    BY <2>1, <2>4 DEF FieldInv, Encoded
  <2>6. placed[p] \in Nat /\ placed[p] % 2 = 0
    BY SMTT(30), <2>2, <2>5 DEF Drift, Code
  <2>7. placed[q] % Wrap \in Nat /\ placed[q] % Wrap < Wrap /\ (placed[q] % Wrap) % 2 = 0
    <3>1. Wrap \in Nat \ {0} /\ Wrap % 2 = 0
      BY Sizes
    <3>. HIDE DEF Wrap
    <3>. QED
      BY <2>3, <3>1, Division, EvenRemainder
  <2>8. field[p] = Distance(p, q) % Field
    BY <2>5 DEF Offset, Distance
  <2>9. Distance(p, q) = ((placed[q] % Wrap) - (placed[p] % Wrap) - 2) \div 2
    BY DEF Distance
  <2>10. /\ Wrap \in Nat \ {0} /\ Wrap % 2 = 0 /\ Field \in Nat \ {0} /\ Field % 2 = 0
    BY Sizes
  <2>. HIDE DEF Distance, Wrap
  <2>11. PICK d \in Int : /\ d = Distance(p, q) /\ field[p] = d % Field
                          /\ -(Field \div 2) <= d /\ d < Field \div 2
    BY <2>8, <2>10
  <2>12. (placed[p] + (placed[p] % 2) + 2 + 2 * d) % Wrap = placed[q] % Wrap
    BY ZenonT(40), <2>6, <2>7, <2>9, <2>10, <2>11, OffsetLeads
  <2>13. (IF d % Field < Field \div 2 THEN d % Field ELSE (d % Field) - Field) = d
    BY <2>10, <2>11, FieldReads
  <2>14. Target(p) = (placed[p] + (placed[p] % 2) + 2 + 2 * d) % Wrap
    BY <2>11, <2>13 DEF Target
  <2>. QED
    BY <2>12, <2>14
<1>. QED
  BY <1>1, AssemblerInvariant, AssemblerLabels, PTL

LEMMA WrongKept ==
  ASSUME prog' = prog
  PROVE  Wrong' <=> Wrong
BY DEF Wrong, Misshapen, Positions

\* A pass that gives up has found what is wrong.
LEMMA FailsRightly ==
  ASSUME AssemblerInv, Next, phase # "failed", phase' = "failed"
  PROVE  Wrong
<1>1. TypeOK /\ Progress /\ TableInv
  BY DEF AssemblerInv
<1>2. pos \in 1 .. (Len(prog) + 1) /\ Len(prog) \in Nat
  BY <1>1 DEF TypeOK, Progress
<1>3. CASE Refuse
  <2>1. pos \in Positions /\ Misshapen(prog[pos])
    BY <1>2, <1>3 DEF Refuse, Building, Positions, item
  <2>. QED
    BY <2>1 DEF Wrong
<1>4. CASE DefineLabel
  <2>1. /\ phase = "symbols" /\ pos \in Positions /\ item = prog[pos]
        /\ item.kind = "label" /\ item.name \in DOMAIN table
    BY <1>2, <1>4 DEF DefineLabel, Building, Here, Next1, Positions, item
  <2>2. Walked = 1 .. (pos - 1)
    BY <1>1, <2>1 DEF Progress, Walked
  <2>3. PICK q \in 1 .. (pos - 1) : prog[q].kind \in Names /\ prog[q].name = item.name
    BY <1>1, <2>1, <2>2 DEF TableInv
  <2>. QED
    BY <2>1, <2>3 DEF Wrong
<1>5. ASSUME phase = "encode", pos \in Positions, item.kind \in Uses,
             item.name \notin DOMAIN table
      PROVE  Wrong
  <2>1. Walked = Positions
    BY <1>1, <1>5 DEF Progress, Walked, Positions
  <2>2. ~\E q \in Positions : prog[q].kind \in Names /\ prog[q].name = prog[pos].name
    BY <1>1, <1>5, <2>1 DEF TableInv, item
  <2>3. pos \in Positions /\ prog[pos].kind \in Uses
    BY <1>5 DEF item
  <2>. QED
    BY <2>2, <2>3 DEF Wrong
<1>6. CASE EncodeBranch \/ EncodeSymbol
  <2>1. /\ phase = "encode" /\ pos \in Positions /\ item.kind \in Uses
        /\ item.name \notin DOMAIN table
    BY <1>2, <1>6 DEF EncodeBranch, EncodeSymbol, Encoding, Here, Positions, Uses,
                      PutInstruction, Next2
  <2>. QED
    BY <1>5, <2>1
<1>7. CASE EncodeBank
  <2>1. /\ pos \in Positions /\ prog[pos].kind = "bank"
        /\ prog[pos].bank \notin 0 .. (RomBanks - 1)
    BY <1>2, <1>7 DEF EncodeBank, Encoding, Here, Positions, Next2, item
  <2>. QED
    BY <2>1 DEF Wrong
<1>. QED
  BY <1>3, <1>4, <1>6, <1>7 DEF Next, Measure, DefineEqu, EndSymbols, EncodeCode,
     EncodeString, EncodeNumber, EncodeFill, EncodeOrigin, PassDefinition, EndEncode,
     PutInstruction, Next1, Next2, Building, Encoding

\* A program that both passes went through has nothing wrong with it.
LEMMA PassesRightly ==
  ASSUME AssemblerInv, phase = "encode", pos > Len(prog)
  PROVE  ~Wrong
<1>1. TypeOK /\ Progress /\ PlannedInv /\ TableInv /\ EncodedInv
  BY DEF AssemblerInv
<1>2. Len(prog) \in Nat /\ Walked = Positions /\ Encoded = Positions
  <2>1. /\ Len(prog) \in Nat /\ Len(placed) \in Nat /\ Len(placed) <= Len(prog)
        /\ pos = Len(placed) + 1 /\ Len(planned) = Len(prog) + 1
    BY <1>1 DEF Progress
  <2>. QED
    BY <2>1 DEF Walked, Encoded, Positions
<1>. SUFFICES ASSUME NEW p \in Positions
              PROVE  /\ ~Misshapen(prog[p])
                     /\ prog[p].kind = "label" =>
                          ~\E q \in 1 .. (p - 1) :
                             prog[q].kind \in Names /\ prog[q].name = prog[p].name
                     /\ prog[p].kind \in Uses =>
                          \E q \in Positions :
                            prog[q].kind \in Names /\ prog[q].name = prog[p].name
                     /\ prog[p].kind = "bank" => prog[p].bank \in 0 .. (RomBanks - 1)
  BY DEF Wrong
<1>3. ~Misshapen(prog[p])
  BY <1>1, <1>2 DEF PlannedInv
<1>4. ASSUME prog[p].kind = "label", NEW q \in 1 .. (p - 1), prog[q].kind \in Names
      PROVE  prog[q].name # prog[p].name
  <2>1. q \in Walked /\ p \in Walked /\ q < p
    BY <1>2 DEF Positions
  <2>. QED
    BY <1>1, <1>4, <2>1 DEF TableInv
<1>5. ASSUME prog[p].kind \in Uses
      PROVE  \E q \in Positions : prog[q].kind \in Names /\ prog[q].name = prog[p].name
  <2>1. prog[p].name \in DOMAIN table
    BY <1>1, <1>2, <1>5 DEF EncodedInv
  <2>. QED
    BY <1>1, <1>2, <2>1 DEF TableInv
<1>6. prog[p].kind = "bank" => prog[p].bank \in 0 .. (RomBanks - 1)
  BY <1>1, <1>2 DEF EncodedInv
<1>. QED
  BY <1>3, <1>4, <1>5, <1>6

LEMMA VerdictStep ==
  ASSUME AssemblerInv, VerdictIsExact, [Next]_vars
  PROVE  VerdictIsExact'
<1>1. CASE UNCHANGED vars
  BY <1>1, WrongKept DEF vars, VerdictIsExact
<1>2. CASE Next
  <2>1. TypeOK /\ Progress /\ PlannedInv
    BY DEF AssemblerInv
  <2>2. prog' = prog
    BY <1>2, <2>1, Steps, WalkFacts, PlaceFacts DEF EndSymbols, EndEncode, Fail
  <2>3. phase' = "failed" => Wrong
    BY <1>2, FailsRightly DEF VerdictIsExact
  <2>4. ASSUME phase' = "done" PROVE ~Wrong
    <3>1. (phase = "encode" /\ pos > Len(prog)) \/ phase = "done"
      BY <1>2, <2>1, <2>4, Steps, WalkFacts, PlaceFacts DEF EndSymbols, EndEncode, Fail
    <3>. QED
      BY <3>1, PassesRightly DEF VerdictIsExact
  <2>. QED
    BY <2>2, <2>3, <2>4, WrongKept DEF VerdictIsExact
<1>. QED
  BY <1>1, <1>2

\* The assembler accepts exactly the programs in which each name is defined,
\* once (symbol_construct, encode_directive_symbol, handle_branch_cond).
THEOREM AssemblerVerdict == Spec => []VerdictIsExact
BY AssemblerInit, AssemblerStep, AssemblerInvariant, VerdictStep, PTL DEF Spec

-----------------------------------------------------------------------------
(* Where the bytes go. *)

\* A bank's place in the image holds what a window shows of it.
LEMMA BehindFacts ==
  ASSUME bankW \in [Windows -> 0 .. (RomBanks - 1)],
         NEW a \in Nat, a \div BankSize \in Windows
  PROVE  /\ a % BankSize \in 0 .. (BankSize - 1)
         /\ Behind(a) \in 0 .. (RomSize - 1)
         /\ Behind(a) + BankSize - (a % BankSize) <= RomSize
<1>1. PICK b \in Nat \ {0} : b = BankSize
  BY Sizes
<1>2. PICK r \in 0 .. (b - 1) : r = a % b
  OBVIOUS
<1>3. PICK n \in 0 .. (RomBanks - 1) : n = bankW[a \div BankSize]
  OBVIOUS
<1>4. Behind(a) = (n * b) + r
  BY <1>1, <1>2, <1>3 DEF Behind
<1>5. /\ n \in Nat /\ RomBanks \in Nat /\ n + 1 <= RomBanks
  BY <1>3, Sizes
<1>6. n * b + b <= RomBanks * b /\ n * b \in Nat /\ RomBanks * b \in Nat
  BY <1>1, <1>5
<1>7. RomSize = RomBanks * b
  BY <1>1 DEF RomSize
<1>. QED
  BY <1>1, <1>2, <1>4, <1>6, <1>7

\* Within a window, addresses and places in the image go up together.
LEMMA BehindAdds ==
  ASSUME NEW a \in Nat, NEW k \in Nat, (a + k) \div BankSize = a \div BankSize
  PROVE  /\ Behind(a + k) = bankW[a \div BankSize] * BankSize + ((a % BankSize) + k)
         /\ (a + k) % BankSize = (a % BankSize) + k
<1>1. PICK b \in Nat \ {0} : b = BankSize
  BY Sizes
<1>2. PICK q \in Nat, r \in Nat : q = a \div b /\ r = a % b /\ a = b * q + r
  BY Division
<1>3. a + k = b * q + ((a + k) % b) /\ (a + k) % b \in Nat
  BY SMTT(30), <1>1, <1>2, Division
<1>4. (a + k) % b = r + k
  BY <1>2, <1>3
<1>. QED
  BY <1>1, <1>2, <1>4 DEF Behind

\* An address between two of one window is in it too.
LEMMA SameWindow ==
  ASSUME NEW a \in Nat, NEW n \in Nat, (a + n) \div BankSize = a \div BankSize,
         NEW k \in 0 .. n
  PROVE  (a + k) \div BankSize = a \div BankSize /\ (a % BankSize) + n < BankSize
<1>1. PICK b \in Nat \ {0} : b = BankSize
  BY Sizes
<1>2. PICK q \in Nat, r \in Nat : q = a \div b /\ r = a % b /\ a = b * q + r
  BY Division
<1>3. PICK c \in Nat, s \in Nat : c = a + n /\ c = b * q + s /\ s < b
  <2>1. PICK c \in Nat : c = a + n
    OBVIOUS
  <2>2. c = b * (c \div b) + (c % b) /\ c % b \in Nat /\ c % b < b
    BY Division
  <2>. QED
    BY <1>1, <1>2, <2>1, <2>2
<1>4. r + n < b
  BY <1>2, <1>3
<1>5. a + k = b * q + (r + k) /\ r + k \in 0 .. (b - 1)
  BY <1>2, <1>4
<1>6. (b * q + (r + k)) \div b = q
  BY <1>5
<1>. QED
  BY <1>1, <1>2, <1>4, <1>5, <1>6

\* One write within a window puts each of its bytes where the window shows it.
LEMMA WriteLands ==
  ASSUME bankW \in [Windows -> 0 .. (RomBanks - 1)],
         NEW img, DOMAIN img = 0 .. (RomSize - 1),
         NEW a \in Nat, NEW n \in Nat \ {0}, NEW bytes, Len(bytes) = n,
         a \div BankSize \in Windows, (a + (n - 1)) \div BankSize = a \div BankSize,
         NEW k \in 0 .. (n - 1)
  PROVE  Write(img, a, bytes)[Behind(a + k)] = bytes[k + 1]
<1>1. /\ (a + k) \div BankSize = a \div BankSize
      /\ (a % BankSize) + (n - 1) < BankSize
  <2>1. n - 1 \in Nat
    OBVIOUS
  <2>. QED
    BY <2>1, SameWindow
<1>2. PICK bank \in Nat : bank = bankW[a \div BankSize]
  OBVIOUS
<1>3. /\ Behind(a) = bank * BankSize + (a % BankSize)
      /\ Behind(a + k) = bank * BankSize + ((a % BankSize) + k)
  BY <1>1, <1>2, BehindAdds DEF Behind
<1>4. /\ Behind(a) \in 0 .. (RomSize - 1) /\ a % BankSize \in Nat
      /\ Behind(a) + BankSize - (a % BankSize) <= RomSize /\ BankSize \in Nat
      /\ RomSize \in Nat
  <2>1. /\ a % BankSize \in 0 .. (BankSize - 1) /\ Behind(a) \in 0 .. (RomSize - 1)
        /\ Behind(a) + BankSize - (a % BankSize) <= RomSize
    BY BehindFacts
  <2>2. BankSize \in Nat /\ RomSize \in Nat
    BY Sizes
  <2>. QED
    BY <2>1, <2>2
<1>5. bank * BankSize \in Nat
  BY <1>4
<1>6. Behind(a + k) = Behind(a) + k
  BY SMTT(30), <1>3, <1>4, <1>5
<1>7. Behind(a) + n - 1 < RomSize
  BY SMTT(30), <1>1, <1>4
<1>8. PICK o \in Nat, i \in Nat :
        /\ o = Behind(a) /\ i = o + k /\ i \in DOMAIN img
        /\ i \in o .. (o + n - 1) /\ i - o + 1 = k + 1
  <2>1. PICK o \in Nat : o = Behind(a)
    BY <1>4
  <2>2. o + n - 1 < RomSize /\ RomSize \in Nat
    BY <1>4, <1>7, <2>1
  <2>3. o + k \in o .. (o + n - 1) /\ o + k \in 0 .. (RomSize - 1) /\ o + k - o + 1 = k + 1
    BY <2>2
  <2>. QED
    BY <2>1, <2>3
<1>. HIDE DEF Behind, RomSize
<1>9. Write(img, a, bytes) =
        [x \in DOMAIN img |-> IF x \in o .. (o + n - 1) THEN bytes[x - o + 1] ELSE img[x]]
  BY SMTT(30), <1>4, <1>7, <1>8 DEF Write
<1>10. Write(img, a, bytes)[i] = bytes[i - o + 1]
  BY <1>8, <1>9
<1>11. Behind(a + k) = i
  BY <1>6, <1>8
<1>. QED
  BY <1>8, <1>10, <1>11

\* Two addresses that come to one place in the image are whole windows apart.
LEMMA SamePlace ==
  ASSUME bankW \in [Windows -> 0 .. (RomBanks - 1)],
         NEW a \in Nat, NEW c \in Nat,
         a \div BankSize \in Windows, c \div BankSize \in Windows, Behind(a) = Behind(c)
  PROVE  a % BankSize = c % BankSize
<1>1. PICK b \in Nat \ {0} : b = BankSize
  BY Sizes
<1>2. PICK r \in 0 .. (b - 1), s \in 0 .. (b - 1) : r = a % b /\ s = c % b
  OBVIOUS
<1>3. PICK m \in Nat, n \in Nat : m = bankW[a \div BankSize] /\ n = bankW[c \div BankSize]
  OBVIOUS
<1>4. b * m + r = b * n + s
  BY <1>1, <1>2, <1>3 DEF Behind
<1>5. (b * m + r) % b = r /\ (b * n + s) % b = s
  BY <1>2
<1>. QED
  BY <1>1, <1>2, <1>4, <1>5

\* Bytes written one by one, no more than a bank of them, all stay: no two come
\* to one place, whatever banks the windows show.
LEMMA WriteEachLands ==
  ASSUME bankW \in [Windows -> 0 .. (RomBanks - 1)], DOMAIN image = 0 .. (RomSize - 1),
         NEW a \in Nat, NEW n \in Nat, n <= BankSize, NEW bytes, DOMAIN bytes = 1 .. n,
         NEW k \in 0 .. (n - 1), (a + k) \div BankSize \in Windows
  PROVE  WriteEach(a, bytes)[Behind(a + k)] = bytes[k + 1]
<1>. DEFINE Meant(i) == {j \in DOMAIN bytes :
                           /\ (a + j - 1) \div BankSize \in Windows
                           /\ Behind(a + j - 1) = i}
<1>1. Behind(a + k) \in DOMAIN image
  <2>1. a + k \in Nat
    OBVIOUS
  <2>. QED
    BY <2>1, BehindFacts
<1>2. ASSUME NEW j \in 1 .. n, (a + j - 1) \div BankSize \in Windows,
             Behind(a + j - 1) = Behind(a + k)
      PROVE  j = k + 1
  <2>1. a + j - 1 \in Nat /\ a + k \in Nat
    OBVIOUS
  <2>2. (a + j - 1) % BankSize = (a + k) % BankSize
    BY <1>2, <2>1, SamePlace
  <2>3. PICK b \in Nat \ {0} : b = BankSize
    BY Sizes
  <2>4. PICK q \in Nat, r \in Nat, p \in Nat :
          a + j - 1 = b * q + r /\ a + k = b * p + r
    <3>1. PICK c \in Nat, d \in Nat : c = a + j - 1 /\ d = a + k /\ c % b = d % b
      BY <2>1, <2>2, <2>3
    <3>2. /\ c = b * (c \div b) + (c % b) /\ c \div b \in Nat /\ c % b \in Nat
          /\ d = b * (d \div b) + (d % b) /\ d \div b \in Nat
      BY Division
    <3>. QED
      BY <3>1, <3>2
  <2>5. b * (q - p) = j - 1 - k /\ j - 1 - k < b /\ j - 1 - k > -b
    BY <2>3, <2>4
  <2>6. q - p = 0
    BY <2>5
  <2>. QED
    BY <2>5, <2>6
<1>3. Meant(Behind(a + k)) = {k + 1}
  <2>1. k + 1 \in 1 .. n /\ a + (k + 1) - 1 = a + k
    OBVIOUS
  <2>2. k + 1 \in Meant(Behind(a + k))
    BY <2>1
  <2>3. ASSUME NEW j \in Meant(Behind(a + k)) PROVE j = k + 1
    BY <1>2
  <2>. HIDE DEF Meant
  <2>. QED
    BY <2>2, <2>3
<1>4. Max({k + 1}) = k + 1
  <2>1. Max({k + 1}) \in {k + 1}
    BY DEF Max
  <2>. QED
    BY <2>1
<1>5. WriteEach(a, bytes) =
        [i \in DOMAIN image |-> IF Meant(i) = {} THEN image[i] ELSE bytes[Max(Meant(i))]]
  BY DEF WriteEach
<1>. HIDE DEF Meant
<1>. QED
  BY <1>1, <1>3, <1>4, <1>5

\* The kinds of item whose bytes the property speaks of.
Shown == Code \cup {"string", "number", "symbol", "half"}
Across(start) == start \div BankSize # (address - 1) \div BankSize

\* What pass 2 has to show of the item it has just placed.
LEMMA ItemShown ==
  ASSUME TypeOK, Progress, BankInv, Places,
         item.kind \in Shown =>
           \E start \in Nat, size \in Nat :
             /\ address' = start + size /\ Measured(item, 0) = size
             /\ ~(item.kind \in {"number", "symbol"} /\ Across(start)') =>
                  \A k \in 0 .. (size - 1) :
                    (start + k) \div BankSize \in Windows =>
                      image'[Behind(start + k)] = <<pos, k>>
  PROVE  BytesWhereTheCpuLooks'
<1>1. /\ pos' - 1 = pos /\ prog'[pos] = item /\ prog' = prog /\ pos = Len(placed) + 1
  BY PlaceFacts
<1>2. PICK p : p = pos
  OBVIOUS
<1>3. ASSUME NEW a, a \div BankSize \in Windows PROVE Seen(p, a)' = Behind(a)
  <2>1. bankW[a \div BankSize] = BankAt(p, a \div BankSize)
    BY <1>1, <1>2, <1>3 DEF BankInv
  <2>2. BankAt(p, a \div BankSize)' = BankAt(p, a \div BankSize)
    BY <1>1, BankAtKept
  <2>. QED
    BY <2>1, <2>2 DEF Seen, Behind
<1>4. CASE item.kind \in Shown
  <2>1. PICK start \in Nat, size \in Nat :
          /\ address' = start + size /\ Measured(item, 0) = size
          /\ ~(item.kind \in {"number", "symbol"} /\ Across(start)') =>
               \A k \in 0 .. (size - 1) :
                 (start + k) \div BankSize \in Windows =>
                   image'[Behind(start + k)] = <<pos, k>>
    BY <1>4
  <2>2. address' - Measured(prog'[p], 0) = start
    BY <1>1, <1>2, <2>1
  <2>3. ASSUME ~(item.kind \in {"number", "symbol"} /\ Across(start)'),
               NEW a \in start .. (address' - 1), a \div BankSize \in Windows
        PROVE  image'[Seen(p, a)'] = <<p, a - start>>
    <3>1. PICK k \in 0 .. (size - 1) : a = start + k /\ a - start = k
      <4>1. a - start \in 0 .. (size - 1) /\ a = start + (a - start)
        BY <2>1
      <4>. QED
        BY <4>1
    <3>2. image'[Behind(start + k)] = <<pos, k>>
      BY <2>1, <2>3, <3>1
    <3>. QED
      BY <1>2, <1>3, <2>3, <3>1, <3>2
  <2>4. prog'[p] = item /\ pos' - 1 = p
    BY <1>1, <1>2
  <2>. HIDE DEF Seen, Behind
  <2>. QED
    BY <2>2, <2>3, <2>4 DEF BytesWhereTheCpuLooks, Across
<1>5. CASE item.kind \notin Shown
  BY <1>1, <1>5 DEF BytesWhereTheCpuLooks, Shown
<1>. QED
  BY <1>4, <1>5

LEMMA ItemBytes ==
  ASSUME NEW n \in Nat
  PROVE  /\ DOMAIN OfItem(n) = 1 .. n /\ Len(OfItem(n)) = n
         /\ \A k \in 0 .. (n - 1) : OfItem(n)[k + 1] = <<pos, k>>
<1>1. OfItem(n) = [k \in 1 .. n |-> <<pos, k - 1>>]
  BY DEF OfItem
<1>2. Len(OfItem(n)) = n
  BY <1>1
<1>3. ASSUME NEW k \in 0 .. (n - 1) PROVE OfItem(n)[k + 1] = <<pos, k>>
  <2>1. k + 1 \in 1 .. n /\ (k + 1) - 1 = k
    OBVIOUS
  <2>. QED
    BY <1>1, <2>1
<1>. QED
  BY <1>1, <1>2, <1>3

\* Two bytes at an even address are in one window.
LEMMA EvenPair ==
  ASSUME NEW a \in Nat, a % 2 = 0
  PROVE  (a + 1) \div BankSize = a \div BankSize
<1>1. PICK b \in Nat \ {0} : b = BankSize /\ b % 2 = 0
  BY Sizes
<1>2. PICK q \in Nat, r \in Nat : q = a \div b /\ r = a % b /\ a = b * q + r /\ r < b
  BY Division
<1>3. r % 2 = 0
  BY <1>1, <1>2, EvenRemainder
<1>4. r + 1 \in 0 .. (b - 1)
  BY <1>1, <1>2, <1>3
<1>5. (b * q + (r + 1)) \div b = q
  BY <1>4
<1>. QED
  BY <1>1, <1>2, <1>5

\* What one write shows, when its bytes are in one window.
LEMMA WriteShows ==
  ASSUME BankInv, NEW img, DOMAIN img = 0 .. (RomSize - 1),
         NEW start \in Nat, NEW size \in Nat \ {0},
         start \div BankSize = (start + (size - 1)) \div BankSize,
         image' = Write(img, start, OfItem(size)),
         NEW k \in 0 .. (size - 1), (start + k) \div BankSize \in Windows
  PROVE  image'[Behind(start + k)] = <<pos, k>>
<1>1. size - 1 \in Nat
  OBVIOUS
<1>2. (start + k) \div BankSize = start \div BankSize
  BY <1>1, SameWindow
<1>3. Len(OfItem(size)) = size /\ OfItem(size)[k + 1] = <<pos, k>>
  BY ItemBytes
<1>4. bankW \in [Windows -> 0 .. (RomBanks - 1)]
  BY DEF BankInv
<1>. QED
  BY SMTT(30), <1>2, <1>3, <1>4, WriteLands

LEMMA BytesStep ==
  ASSUME AssemblerInv, BytesWhereTheCpuLooks, [Next]_vars
  PROVE  BytesWhereTheCpuLooks'
<1>1. TypeOK /\ Progress /\ PlannedInv /\ BankInv
  BY DEF AssemblerInv
<1>2. DOMAIN image = 0 .. (RomSize - 1)
  BY <1>1 DEF TypeOK
<1>3. CASE UNCHANGED <<prog, pos, address, image>> /\ (phase' = phase \/ EndEncode \/ Fail)
  <2>1. phase' \in {"encode", "done"} => phase \in {"encode", "done"}
    BY <1>3 DEF EndEncode, Fail
  <2>2. ASSUME NEW p, NEW a PROVE Seen(p, a)' = Seen(p, a)
    BY <1>3, BankAtKept DEF Seen
  <2>. HIDE DEF Seen
  <2>. QED
    BY <1>3, <2>1, <2>2 DEF BytesWhereTheCpuLooks
<1>4. CASE Walks \/ EndSymbols
  <2>1. phase' = "symbols" \/ pos' = 1
    BY <1>1, <1>4, WalkFacts DEF EndSymbols
  <2>. QED
    BY <2>1 DEF BytesWhereTheCpuLooks
<1>5. ASSUME Places PROVE address \in Nat /\ WellFormed(item) /\ item.kind \in Kinds
  BY <1>1, <1>5, PlaceFacts DEF WellFormed
<1>6. ASSUME NEW n, Next2(n) PROVE address' = n
  BY <1>6 DEF Next2
<1>7. CASE Places /\ PutInstruction /\ item.kind \in Code
  <2>. DEFINE start == address + (address % 2)
              padded == IF address % 2 = 1 THEN Write(image, address, <<Zero>>) ELSE image
  <2>1. image' = Write(padded, start, OfItem(2)) /\ Next2(start + 2)
    BY <1>7 DEF PutInstruction
  <2>2. start \in Nat /\ start % 2 = 0 /\ address' = start + 2
    BY <1>5, <1>6, <1>7, <2>1
  <2>3. DOMAIN padded = 0 .. (RomSize - 1)
    BY <1>2, WritesKeepSize
  <2>. HIDE DEF start, padded
  <2>4. start \div BankSize = (start + (2 - 1)) \div BankSize
    BY <2>2, EvenPair
  <2>5. \A k \in 0 .. (2 - 1) : (start + k) \div BankSize \in Windows =>
          image'[Behind(start + k)] = <<pos, k>>
    BY <1>1, <2>1, <2>2, <2>3, <2>4, WriteShows
  <2>6. Measured(item, 0) = 2
    BY <1>5, <1>7, MeasuredKinds
  <2>. QED
    BY <1>1, <1>7, <2>2, <2>5, <2>6, ItemShown
<1>8. CASE Places /\ (EncodeNumber \/ (EncodeSymbol /\ ~Fail))
  <2>. DEFINE size == IF item.kind = "half" THEN 1 ELSE item.size
  <2>1. /\ image' = Write(image, address, OfItem(size)) /\ Next2(address + size)
        /\ item.kind \in {"number", "symbol", "half"}
    BY <1>8 DEF EncodeNumber, EncodeSymbol, Here
  <2>2. size \in Nat /\ Measured(item, 0) = size /\ (item.kind = "half" => size = 1)
    BY <1>5, <1>8, <2>1, MeasuredKinds DEF WellFormed
  <2>. HIDE DEF size
  <2>3. PICK start \in Nat : start = address /\ address' = start + size
    BY <1>5, <1>6, <1>8, <2>1
  <2>4. ASSUME ~(item.kind \in {"number", "symbol"} /\ Across(start)'),
               NEW k \in 0 .. (size - 1), (start + k) \div BankSize \in Windows
        PROVE  image'[Behind(start + k)] = <<pos, k>>
    <3>1. size \in Nat \ {0}
      BY <2>2
    <3>2. start \div BankSize = (start + (size - 1)) \div BankSize
      <4>1. CASE item.kind = "half"
        <5>1. start + (size - 1) = start
          BY <2>2, <2>3, <4>1
        <5>. QED
          BY <2>3, <5>1
      <4>2. CASE item.kind \in {"number", "symbol"}
        <5>1. address' - 1 = start + (size - 1)
          BY <2>2, <2>3
        <5>. QED
          BY <2>4, <4>2, <5>1 DEF Across
      <4>. QED
        BY <2>1, <4>1, <4>2
    <3>. QED
      BY <1>1, <1>2, <2>1, <2>3, <2>4, <3>1, <3>2, WriteShows
  <2>5. ~(item.kind \in {"number", "symbol"} /\ Across(start)') =>
          \A k \in 0 .. (size - 1) : (start + k) \div BankSize \in Windows =>
            image'[Behind(start + k)] = <<pos, k>>
    BY <2>4
  <2>. QED
    BY <1>1, <1>8, <2>2, <2>3, <2>5, ItemShown
<1>9. CASE Places /\ EncodeString
  <2>. DEFINE size == item.size + (IF item.zero THEN 1 ELSE 0)
  <2>1. /\ image' = WriteEach(address, OfItem(size)) /\ Next2(address + size)
        /\ item.kind = "string"
    BY <1>9 DEF EncodeString, Here
  <2>2. size \in Nat /\ size <= BankSize
    BY <1>5, <1>9, <2>1, Sizes DEF WellFormed
  <2>3. Measured(item, 0) = size
    <3>1. Measured(item, 0) = 0 + item.size + (IF item.zero THEN 1 ELSE 0)
      BY <1>5, <1>9, <2>1, MeasuredKinds
    <3>2. item.size \in Nat
      BY <1>5, <1>9, <2>1 DEF WellFormed
    <3>. QED
      BY <3>1, <3>2
  <2>4. address' = address + size /\ address \in Nat
    BY <1>5, <1>6, <1>9, <2>1
  <2>. HIDE DEF size
  <2>5. ASSUME NEW k \in 0 .. (size - 1), (address + k) \div BankSize \in Windows
        PROVE  image'[Behind(address + k)] = <<pos, k>>
    <3>1. DOMAIN OfItem(size) = 1 .. size /\ OfItem(size)[k + 1] = <<pos, k>>
      BY <2>2, ItemBytes
    <3>2. bankW \in [Windows -> 0 .. (RomBanks - 1)]
      BY <1>1 DEF BankInv
    <3>3. WriteEach(address, OfItem(size))[Behind(address + k)] = OfItem(size)[k + 1]
      BY <1>2, <2>2, <2>4, <2>5, <3>1, <3>2, WriteEachLands
    <3>. QED
      BY <2>1, <3>1, <3>3
  <2>. QED
    BY <1>1, <1>9, <2>2, <2>3, <2>4, <2>5, ItemShown
<1>10. CASE Places /\ item.kind \notin Shown
  BY <1>1, <1>10, ItemShown
<1>11. CASE Next
  <2>1. CASE Places
    <3>1. Encoding
      BY <2>1 DEF Places
    <3>2. CASE EncodeCode \/ (EncodeBranch /\ ~Fail)
      BY <1>7, <2>1, <3>2 DEF EncodeCode, EncodeBranch, Here, Code
    <3>3. CASE EncodeFill \/ EncodeOrigin \/ (EncodeBank /\ ~Fail) \/ PassDefinition
      <4>1. item.kind \in {"align", "space", "origin", "bank", "label", "equ"}
        BY <3>3 DEF EncodeFill, EncodeOrigin, EncodeBank, PassDefinition, Here
      <4>. QED
        BY <1>10, <2>1, <4>1 DEF Shown, Code
    <3>4. /\ ~Fail /\ ~Refuse /\ ~EndEncode /\ ~EndSymbols
          /\ ~Measure /\ ~DefineLabel /\ ~DefineEqu
      BY <2>1, <3>1 DEF Places, Next2, Fail, Encoding, Refuse, EndEncode, EndSymbols,
                        Measure, DefineLabel, DefineEqu, Building
    <3>. QED
      BY <1>8, <1>9, <1>11, <2>1, <3>2, <3>3, <3>4 DEF Next
  <2>2. CASE EndEncode \/ Fail
    BY <1>3, <2>2 DEF EndEncode, Fail, pass2
  <2>. QED
    BY <1>1, <1>4, <1>11, <2>1, <2>2, Steps
<1>12. CASE UNCHANGED vars
  BY <1>3, <1>12 DEF vars
<1>. QED
  BY <1>11, <1>12

\* An encoded item lies, byte for byte, where a CPU with its banks looks, but
\* for data across a window's end (write_to_buffer).
THEOREM AssemblerBytes == Spec => []BytesWhereTheCpuLooks
<1>1. Init => BytesWhereTheCpuLooks
  BY DEF Init, BytesWhereTheCpuLooks
<1>. QED
  BY <1>1, AssemblerInvariant, BytesStep, PTL DEF Spec

===============================================================================
