-------------------------- MODULE BankedMemoryProofs --------------------------
(***************************************************************************)
(* What memory.c promises of the address space, for every number of banks  *)
(* and windows and every size of a bank: cached pointers never leave their *)
(* arrays, loads and fetches see the bank that BANK_SEL reads back, and    *)
(* three arrays with two pointers per window implement the pool of banks   *)
(* that arch.md describes (GuestMemory).                                   *)
(***************************************************************************)
EXTENDS BankedMemory, TLAPS

-----------------------------------------------------------------------------
(* Arithmetic of an index bank * size + offset. *)

\* Quotient and remainder, and that they are the only ones.
LEMMA Division ==
  ASSUME NEW n \in Nat, NEW d \in Nat, d > 0
  PROVE  /\ n \div d \in Nat /\ n % d \in 0 .. (d - 1)
         /\ n = (n \div d) * d + (n % d)
BY SMT

LEMMA DivisionUnique ==
  ASSUME NEW d \in Nat, NEW q \in Nat, NEW r \in 0 .. (d - 1)
  PROVE  (q * d + r) \div d = q /\ (q * d + r) % d = r
BY SMT

\* The parts of one array that different banks take up do not meet.
LEMMA CellsApart ==
  ASSUME NEW d \in Nat, NEW q \in Nat, NEW r \in 0 .. (d - 1),
         NEW p \in Nat, NEW s \in 0 .. (d - 1), q * d + r = p * d + s
  PROVE  q = p /\ r = s
BY DivisionUnique

\* The offsets of the n banks of an array lie in the array.
LEMMA CellInside ==
  ASSUME NEW d \in Nat, NEW n \in Nat, NEW q \in 0 .. (n - 1), NEW r \in 0 .. (d - 1)
  PROVE  q * d + r \in 0 .. (n * d - 1)
<1>1. PICK k \in Nat : n = q + 1 + k
  OBVIOUS
<1>2. n * d = q * d + d + k * d
  BY <1>1
<1>3. q * d \in Nat /\ k * d \in Nat
  OBVIOUS
<1> QED
  BY <1>2, <1>3

\* Below n * d the quotient by d stays below n.
LEMMA QuotientBelow ==
  ASSUME NEW d \in Nat, NEW n \in Nat, d > 0, NEW a \in 0 .. (n * d - 1)
  PROVE  a \div d \in 0 .. (n - 1)
<1>1. PICK q \in Nat, r \in 0 .. (d - 1) : q = a \div d /\ a = q * d + r
  BY Division
<1>2. ASSUME q >= n PROVE FALSE
  <2>1. PICK k \in Nat : q = n + k
    BY <1>2
  <2>2. q * d = n * d + k * d /\ k * d \in Nat
    BY <2>1
  <2> QED
    BY <2>2, <1>1
<1> QED
  BY <1>1, <1>2

LEMMA Cancel ==
  ASSUME NEW d \in Nat, d > 0, NEW p \in Nat, NEW q \in Nat, p * d = q * d
  PROVE  p = q
<1>1. p * d + 0 = q * d + 0
  OBVIOUS
<1> QED
  BY <1>1, CellsApart

-----------------------------------------------------------------------------
(* Sizes. *)

LEMMA Sizes ==
  /\ RomBanks \in Nat /\ RamBanks \in Nat /\ VramBanks \in Nat
  /\ RomBanks > 0 /\ RamBanks > 0 /\ VramBanks > 0
  /\ BankSize \in Nat /\ BankSize > 1
  /\ WindowCount \in Nat /\ WindowCount = VramBanks
  /\ BankCount \in Nat /\ BankCount = RomBanks + RamBanks + VramBanks /\ BankCount > 3
  /\ VramSize \in Nat /\ VramSize = VramBanks * BankSize
  /\ VramSize = BankCount * BankCount
  /\ AddressCount = WindowCount * BankSize
  /\ Windows \subseteq Nat /\ Offsets \subseteq Nat
<1>1. /\ RomBanks \in Nat /\ RamBanks \in Nat /\ VramBanks \in Nat
      /\ RomBanks > 0 /\ RamBanks > 0 /\ VramBanks > 0
      /\ BankSize \in Nat /\ BankSize > 1 /\ WindowCount \in Nat
  BY MemoryAssumption
<1>2. BankCount \in Nat /\ BankCount = RomBanks + RamBanks + VramBanks /\ BankCount > 3
  BY <1>1, MemoryAssumption DEF BankCount
<1>3. AddressCount = BankCount * BankCount /\ VramSize = AddressCount
  BY MemoryAssumption
<1>4. VramBanks * BankSize = WindowCount * BankSize
  BY <1>3 DEF AddressCount, VramSize
<1>5. WindowCount = VramBanks
  BY <1>1, <1>4, Cancel
<1> QED
  BY <1>1, <1>2, <1>3, <1>4, <1>5 DEF VramSize, AddressCount, Windows, Offsets

\* The window and the offset of an address.
LEMMA AddressParts ==
  ASSUME NEW a \in Addresses
  PROVE  /\ a \in Nat /\ Win(a) \in Windows /\ Off(a) \in Offsets
         /\ a = Win(a) * BankSize + Off(a)
<1>1. a \in 0 .. (WindowCount * BankSize - 1)
  BY Sizes DEF Addresses
<1>2. a \div BankSize \in 0 .. (WindowCount - 1)
  BY <1>1, QuotientBelow, Sizes
<1> QED
  BY <1>1, <1>2, Division, Sizes DEF Win, Off, Windows, Offsets

\* Where the port's address lies in the banks.
LEMMA PortParts ==
  ASSUME NEW p \in 0 .. (VramSize - 1)
  PROVE  /\ p \div BankSize \in 0 .. (VramBanks - 1) /\ p % BankSize \in Offsets
         /\ p = (p \div BankSize) * BankSize + (p % BankSize)
         /\ RomBanks + RamBanks + (p \div BankSize) \in Banks
         /\ RomBanks + RamBanks + (p \div BankSize) \notin 0 .. (RomBanks - 1)
<1>1. p \in Nat /\ p \in 0 .. (VramBanks * BankSize - 1)
  BY Sizes
<1>2. p \div BankSize \in 0 .. (VramBanks - 1)
  BY <1>1, QuotientBelow, Sizes
<1>3. p % BankSize \in Offsets /\ p = (p \div BankSize) * BankSize + (p % BankSize)
  BY <1>1, Division, Sizes DEF Offsets
<1> QED
  BY <1>2, <1>3, Sizes DEF Banks, Bytes

\* The registers are there, and none is another.
LEMMA Registers ==
  /\ GfxCtrl \in RegPage \ Elsewhere
  /\ GfxData \in RegPage /\ GfxData # GfxAddrL /\ GfxData # GfxAddrH
  /\ \A w \in Windows : /\ BankSel0 + w \in RegPage
                        /\ BankSel0 + w \in BankSelRegs
                        /\ BankSel0 + w \notin {GfxAddrL, GfxAddrH, GfxData}
                        /\ (BankSel0 + w) - BankSel0 = w
<1>1. \A w \in Windows : BankSel0 + w \in BankSelRegs /\ (BankSel0 + w) - BankSel0 = w
  BY MemoryAssumption, Sizes DEF Windows, BankSelRegs
<1>2. Named \subseteq RegPage /\ GfxCtrl \notin Elsewhere
  BY MemoryAssumption
<1>3. /\ GfxAddrL # GfxAddrH /\ GfxData \notin {GfxAddrL, GfxAddrH}
      /\ BankSelRegs \cap {GfxAddrL, GfxAddrH, GfxData} = {}
  BY MemoryAssumption
<1> QED
  BY <1>1, <1>2, <1>3 DEF Named, Elsewhere

-----------------------------------------------------------------------------
(* Pointers and what they show. *)

\* A pointer to one of the banks stays in its array at every offset.
LEMMA PointerInside ==
  ASSUME TypeOK, NEW b \in Banks, NEW o \in Offsets
  PROVE  /\ ReadPointer(b) # Null
         /\ ReadPointer(b).base + o \in DOMAIN Contents(ReadPointer(b).array)
         /\ Contents(ReadPointer(b).array)[ReadPointer(b).base + o] \in Bytes
<1>1. /\ rom \in [0 .. (RomBanks * BankSize - 1) -> Bytes]
      /\ ram \in [0 .. (RamBanks * BankSize - 1) -> Bytes]
      /\ vram \in [0 .. (VramBanks * BankSize - 1) -> Bytes]
  BY Sizes DEF TypeOK
<1>2. o \in 0 .. (BankSize - 1) /\ b \in 0 .. (RomBanks + RamBanks + VramBanks - 1)
  BY Sizes DEF Offsets, Banks, Bytes
<1>3. CASE b < RomBanks
  <2>1. ReadPointer(b) = [array |-> "rom", base |-> b * BankSize]
    BY <1>3 DEF ReadPointer, Pointer
  <2>2. b * BankSize + o \in 0 .. (RomBanks * BankSize - 1)
    BY <1>2, <1>3, CellInside, Sizes
  <2> QED
    BY <2>1, <2>2, <1>1 DEF Null, Contents
<1>4. CASE ~(b < RomBanks) /\ b < RomBanks + RamBanks
  <2>1. ReadPointer(b) = [array |-> "ram", base |-> (b - RomBanks) * BankSize]
    BY <1>4 DEF ReadPointer, Pointer
  <2>2. b - RomBanks \in 0 .. (RamBanks - 1)
    BY <1>2, <1>4, Sizes
  <2>3. (b - RomBanks) * BankSize + o \in 0 .. (RamBanks * BankSize - 1)
    BY <1>2, <2>2, CellInside, Sizes
  <2> QED
    BY <2>1, <2>3, <1>1 DEF Null, Contents
<1>5. CASE ~(b < RomBanks) /\ ~(b < RomBanks + RamBanks)
  <2>1. ReadPointer(b) = [array |-> "vram", base |-> (b - RomBanks - RamBanks) * BankSize]
    BY <1>5 DEF ReadPointer, Pointer
  <2>2. b - RomBanks - RamBanks \in 0 .. (VramBanks - 1)
    BY <1>2, <1>5, Sizes
  <2>3. (b - RomBanks - RamBanks) * BankSize + o \in 0 .. (VramBanks * BankSize - 1)
    BY <1>2, <2>2, CellInside, Sizes
  <2> QED
    BY <2>1, <2>3, <1>1 DEF Null, Contents
<1> QED
  BY <1>3, <1>4, <1>5

\* A bank's cell, in the array the bank lies in.
LEMMA CellOf ==
  ASSUME NEW b \in Banks, NEW o \in Offsets
  PROVE  At(ReadPointer(b), o) =
           IF b < RomBanks THEN rom[b * BankSize + o]
           ELSE IF b < RomBanks + RamBanks
             THEN ram[(b - RomBanks) * BankSize + o]
             ELSE vram[(b - RomBanks - RamBanks) * BankSize + o]
BY DEF At, ReadPointer, Pointer, Null, Contents

-----------------------------------------------------------------------------
(* The invariant is inductive. *)

\* The address register of the port stays below the size of the video memory.
LEMMA PortStays ==
  ASSUME TypeOK
  PROVE  /\ NextPtr \in 0 .. (VramSize - 1)
         /\ \A v \in Bytes : /\ PtrHigh * BankCount + v \in 0 .. (VramSize - 1)
                             /\ v * BankCount + PtrLow \in 0 .. (VramSize - 1)
<1>1. vramPtr \in Nat /\ vramPtr \in 0 .. (BankCount * BankCount - 1)
  BY Sizes DEF TypeOK
<1>2. PtrHigh \in 0 .. (BankCount - 1) /\ PtrLow \in 0 .. (BankCount - 1)
  BY <1>1, QuotientBelow, Division, Sizes DEF PtrHigh, PtrLow
<1>3. ASSUME NEW v \in Bytes
      PROVE  /\ PtrHigh * BankCount + v \in 0 .. (VramSize - 1)
             /\ v * BankCount + PtrLow \in 0 .. (VramSize - 1)
  <2>1. v \in 0 .. (BankCount - 1)
    BY DEF Bytes
  <2> QED
    BY <1>2, <2>1, CellInside, Sizes
<1>4. NextPtr \in 0 .. (VramSize - 1)
  <2>1. VramSize > 0
    BY <1>1, Sizes DEF TypeOK
  <2> QED
    BY <1>1, <2>1, Division, Sizes DEF NextPtr
<1> QED
  BY <1>3, <1>4

LEMMA InitialBanks == \A w \in Windows : InitialBank(w) \in Banks
BY Sizes DEF InitialBank, Windows, Banks, Bytes

LEMMA InitMemoryInv == Init => MemoryInv
<1> SUFFICES ASSUME Init PROVE MemoryInv
  OBVIOUS
<1>1. TypeOK
  <2>1. \A i \in 0 .. (RomBanks * BankSize - 1) : (i + 1) % BankCount \in Bytes
    BY Division, Sizes DEF Bytes
  <2>2. 0 \in Bytes
    BY Sizes DEF Bytes
  <2>3. VramSize > 0
    BY Sizes
  <2>4. bankSel \in [Windows -> Banks]
    BY InitialBanks DEF Init
  <2> QED
    BY <2>1, <2>2, <2>3, <2>4, MemoryAssumption DEF Init, TypeOK
<1>2. PointerInv
  BY DEF Init, PointerInv
<1> QED
  BY <1>1, <1>2 DEF MemoryInv

LEMMA NextMemoryInv == MemoryInv /\ [Next]_vars => MemoryInv'
<1> SUFFICES ASSUME MemoryInv, [Next]_vars PROVE MemoryInv'
  OBVIOUS
<1>t. TypeOK /\ PointerInv
  BY DEF MemoryInv
<1>s. StoreBytes \subseteq Bytes /\ MaxStores \in Nat
  BY MemoryAssumption
<1>p. PointerInv'
  <2>1. ASSUME NEW w \in Windows, NEW b \in Banks, WriteBankSel(w, b)
        PROVE  PointerInv'
    <3>1. bankSel \in [Windows -> Banks]
      BY <1>t DEF TypeOK
    <3> QED
      BY <1>t, <2>1, <3>1 DEF PointerInv, WriteBankSel
  <2>2. CASE UNCHANGED mapping
    BY <1>t, <2>2 DEF PointerInv, mapping
  <2> QED
    BY <2>1, <2>2 DEF Next, vars, mapping, WriteMemory, WriteGfxAddr, WriteGfxData,
       WriteOtherReg, ReadGfxData
<1>n. TypeOK'
  <2>1. ASSUME NEW a \in Addresses, NEW v \in StoreBytes, WriteMemory(a, v)
        PROVE  TypeOK'
    <3>1. v \in Bytes /\ stores' \in 0 .. MaxStores
      BY <1>s, <1>t, <2>1 DEF WriteMemory, TypeOK
    <3> QED
      BY <1>t, <2>1, <3>1 DEF WriteMemory, TypeOK, mapping
  <2>2. ASSUME NEW w \in Windows, NEW b \in Banks, WriteBankSel(w, b)
        PROVE  TypeOK'
    BY <1>t, <2>2 DEF WriteBankSel, TypeOK, arrays
  <2>3. ASSUME NEW v \in Bytes, WriteGfxAddr(v)
        PROVE  TypeOK'
    <3>1. vramPtr' \in 0 .. (VramSize - 1)
      BY <1>t, <2>3, PortStays DEF WriteGfxAddr
    <3> QED
      BY <1>t, <2>3, <3>1 DEF WriteGfxAddr, TypeOK, arrays, mapping
  <2>4. ASSUME NEW v \in StoreBytes, WriteGfxData(v)
        PROVE  TypeOK'
    <3>1. v \in Bytes /\ stores' \in 0 .. MaxStores
      BY <1>s, <1>t, <2>4 DEF WriteGfxData, TypeOK
    <3>2. vramPtr \in 0 .. (VramSize - 1)
      BY <1>t DEF TypeOK
    <3>3. vramPtr' \in 0 .. (VramSize - 1)
      BY <1>t, <2>4, <3>2, PortStays DEF WriteGfxData
    <3> QED
      BY <1>t, <2>4, <3>1, <3>3 DEF WriteGfxData, TypeOK, mapping
  <2>5. ASSUME NEW v \in Bytes, WriteOtherReg(GfxCtrl, v)
        PROVE  TypeOK'
    BY <1>t, <2>5 DEF WriteOtherReg, TypeOK, arrays, mapping
  <2>6. CASE ReadGfxData
    <3>1. vramPtr \in 0 .. (VramSize - 1)
      BY <1>t DEF TypeOK
    <3>2. vramPtr' \in 0 .. (VramSize - 1)
      BY <1>t, <2>6, <3>1, PortStays DEF ReadGfxData
    <3> QED
      BY <1>t, <2>6, <3>2 DEF ReadGfxData, TypeOK, arrays, mapping
  <2>7. CASE UNCHANGED vars
    BY <1>t, <2>7 DEF TypeOK, vars
  <2> QED
    BY <2>1, <2>2, <2>3, <2>4, <2>5, <2>6, <2>7 DEF Next
<1> QED
  BY <1>p, <1>n DEF MemoryInv

\* The inductive invariant: every array cell, bank number and register keeps to
\* its range, and both cached pointers of a window are those memory_set_bank
\* gives for the bank its BANK_SEL register reads back.
THEOREM MemoryInvariant == Spec => []MemoryInv
BY InitMemoryInv, NextMemoryInv, PTL DEF Spec

\* Every variable keeps its type; vram_ptr, above all, never leaves video memory.
THEOREM MemoryTypeCorrect == Spec => []TypeOK
<1>1. MemoryInv => TypeOK
  BY DEF MemoryInv
<1> QED
  BY <1>1, MemoryInvariant, PTL

-----------------------------------------------------------------------------
(* Pointers, loads and fetches. *)

LEMMA InvPointers ==
  ASSUME MemoryInv, NEW w \in Windows
  PROVE  /\ bankSel[w] \in Banks
         /\ readPtr[w] = ReadPointer(bankSel[w])
         /\ writePtr[w] = WritePointer(bankSel[w])
BY DEF MemoryInv, TypeOK, PointerInv

\* No window shows or writes past the array its bank lies in, and none writes
\* one bank while it shows another.
THEOREM MemoryPointers == Spec => []PointersInBounds
<1>1. ASSUME MemoryInv PROVE PointersInBounds
  <2> SUFFICES ASSUME NEW w \in Windows, NEW o \in Offsets
               PROVE  /\ readPtr[w].base + o \in DOMAIN Contents(readPtr[w].array)
                      /\ writePtr[w] \in {Null, readPtr[w]}
    BY DEF PointersInBounds
  <2>1. readPtr[w].base + o \in DOMAIN Contents(readPtr[w].array)
    BY <1>1, InvPointers, PointerInside DEF MemoryInv
  <2>2. writePtr[w] \in {Null, readPtr[w]}
    BY <1>1, InvPointers DEF WritePointer
  <2> QED
    BY <2>1, <2>2
<1> QED
  BY <1>1, MemoryInvariant, PTL

LEMMA SeenAt ==
  ASSUME MemoryInv, NEW a \in Addresses
  PROVE  /\ readPtr[Win(a)] # Null
         /\ Seen(a) = At(ReadPointer(bankSel[Win(a)]), Off(a))
         /\ Seen(a) = At(readPtr[Win(a)], Off(a))
<1>1. Win(a) \in Windows /\ Off(a) \in Offsets
  BY AddressParts
<1>2. readPtr[Win(a)] = ReadPointer(bankSel[Win(a)]) /\ bankSel[Win(a)] \in Banks
  BY <1>1, InvPointers
<1>3. ReadPointer(bankSel[Win(a)]) # Null
  BY <1>1, <1>2, PointerInside DEF MemoryInv
<1> QED
  BY <1>2, <1>3 DEF Seen

\* The two paths of an instruction fetch give what loads of the two addresses
\* would give, wherever neither byte is a hardware register.
THEOREM MemoryFetches == Spec => []FetchSeesMemory
<1>1. ASSUME MemoryInv PROVE FetchSeesMemory
  <2> SUFFICES ASSUME NEW a \in Addresses, ~IsRegAccess(a)
               PROVE  Fetched(a) = <<Value(a), Value((a + 1) % AddressCount)>>
    BY DEF FetchSeesMemory
  <2>1. a \notin RegPage /\ (a + 1) % AddressCount \notin RegPage
    BY DEF IsRegAccess
  <2>2. CASE Off(a) < BankSize - 1
    <3>1. /\ a \in Nat /\ Win(a) \in 0 .. (WindowCount - 1) /\ Off(a) \in 0 .. (BankSize - 1)
          /\ a = Win(a) * BankSize + Off(a)
      BY AddressParts DEF Windows, Offsets
    <3>2. Off(a) + 1 \in 0 .. (BankSize - 1)
      BY <2>2, <3>1, Sizes
    <3>3. a + 1 = Win(a) * BankSize + (Off(a) + 1)
      BY <3>1, Sizes
    <3>4. a + 1 \in 0 .. (WindowCount * BankSize - 1)
      BY <3>1, <3>2, <3>3, CellInside, Sizes
    <3>5. (a + 1) \in Addresses /\ (a + 1) % AddressCount = a + 1
      BY <3>4, Sizes DEF Addresses
    <3>6. Win(a + 1) = Win(a) /\ Off(a + 1) = Off(a) + 1
      <4>1. PICK q \in Nat, r \in 0 .. (BankSize - 1) : q = Win(a) /\ r = Off(a) + 1
        BY <3>1, <3>2, Sizes
      <4>2. (q * BankSize + r) \div BankSize = q /\ (q * BankSize + r) % BankSize = r
        BY DivisionUnique, Sizes
      <4> QED
        BY <3>3, <4>1, <4>2 DEF Win, Off
    <3>7. Value(a) = At(readPtr[Win(a)], Off(a))
      BY <1>1, <2>1, SeenAt DEF Value
    <3>8. Value(a + 1) = At(readPtr[Win(a)], Off(a) + 1)
      BY <1>1, <2>1, <3>5, <3>6, SeenAt DEF Value
    <3>9. readPtr[Win(a)] # Null
      BY <1>1, SeenAt
    <3> QED
      BY <2>2, <3>5, <3>7, <3>8, <3>9 DEF Fetched
  <2>3. CASE ~(Off(a) < BankSize - 1)
    BY <2>3 DEF Fetched
  <2> QED
    BY <2>2, <2>3
<1> QED
  BY <1>1, MemoryInvariant, PTL

-----------------------------------------------------------------------------
(* The pool of arch.md. *)

\* The pool's banks, as the three arrays hold them.
Held == [b \in Banks |-> BankOf(b)]

LEMMA HeldCell ==
  ASSUME NEW b \in Banks, NEW o \in Offsets
  PROVE  Held[b][o] = At(ReadPointer(b), o)
BY DEF Held, BankOf

LEMMA HeldType == TypeOK => Held \in [Banks -> [Offsets -> Bytes]]
<1> SUFFICES ASSUME TypeOK, NEW b \in Banks, NEW o \in Offsets
             PROVE  At(ReadPointer(b), o) \in Bytes
  BY DEF Held, BankOf
<1> QED
  BY PointerInside DEF At

\* What the pool's bank of the port's address holds is what lies there in vram.
LEMMA HeldAtPort ==
  ASSUME TypeOK
  PROVE  Held[RomBanks + RamBanks + (vramPtr \div BankSize)][vramPtr % BankSize] = vram[vramPtr]
<1>p. PICK p \in 0 .. (VramSize - 1) : p = vramPtr
  BY DEF TypeOK
<1>q. /\ p \div BankSize \in Nat /\ p % BankSize \in Offsets
      /\ p = (p \div BankSize) * BankSize + (p % BankSize)
      /\ RomBanks + RamBanks + (p \div BankSize) \in Banks
  BY PortParts
<1>1. PICK q \in Nat, r \in Offsets :
         /\ q = vramPtr \div BankSize /\ r = vramPtr % BankSize
         /\ vramPtr = q * BankSize + r
         /\ RomBanks + RamBanks + q \in Banks
  BY <1>p, <1>q
<1>2. PICK b \in Banks : b = RomBanks + RamBanks + q
  BY <1>1
<1>3. ~(b < RomBanks) /\ ~(b < RomBanks + RamBanks) /\ b - RomBanks - RamBanks = q
  BY <1>2, <1>1, Sizes
<1>4. At(ReadPointer(b), r) = vram[(b - RomBanks - RamBanks) * BankSize + r]
  BY <1>1, <1>3, CellOf
<1>5. Held[b][r] = vram[q * BankSize + r]
  BY <1>1, <1>3, <1>4, HeldCell
<1> QED
  BY <1>1, <1>2, <1>5

\* One cell of the one array that bank c lies in changes: in the pool, one cell
\* of bank c changes and no other, unless c is read-only.
LEMMA DepositCell ==
  ASSUME TypeOK, NEW c \in Banks, NEW q \in Offsets, NEW v,
         rom' = rom,
         ram' = IF ~(c < RomBanks) /\ c < RomBanks + RamBanks
                  THEN [ram EXCEPT ![(c - RomBanks) * BankSize + q] = v] ELSE ram,
         vram' = IF ~(c < RomBanks + RamBanks)
                   THEN [vram EXCEPT ![(c - RomBanks - RamBanks) * BankSize + q] = v] ELSE vram
  PROVE  Held' = IF c \in 0 .. (RomBanks - 1) THEN Held ELSE [Held EXCEPT ![c][q] = v]
<1>1. /\ ram \in [0 .. (RamBanks * BankSize - 1) -> Bytes]
      /\ vram \in [0 .. (VramBanks * BankSize - 1) -> Bytes]
  BY Sizes DEF TypeOK
<1>2. c \in 0 .. (RomBanks + RamBanks + VramBanks - 1) /\ q \in 0 .. (BankSize - 1)
  BY Sizes DEF Offsets, Banks, Bytes
<1>3. ASSUME NEW b \in Banks, NEW o \in Offsets
      PROVE  At(ReadPointer(b), o)' =
               IF ~(c < RomBanks) /\ b = c /\ o = q THEN v ELSE At(ReadPointer(b), o)
  <2>1. b \in 0 .. (RomBanks + RamBanks + VramBanks - 1) /\ o \in 0 .. (BankSize - 1)
    BY Sizes DEF Offsets, Banks, Bytes
  <2>2. At(ReadPointer(b), o)' =
          IF b < RomBanks THEN rom'[b * BankSize + o]
          ELSE IF b < RomBanks + RamBanks
            THEN ram'[(b - RomBanks) * BankSize + o]
            ELSE vram'[(b - RomBanks - RamBanks) * BankSize + o]
    BY DEF At, ReadPointer, Pointer, Null, Contents
  <2>3. CASE b < RomBanks
    BY <2>1, <2>2, <2>3, <1>2, CellOf, Sizes
  <2>4. CASE ~(b < RomBanks) /\ b < RomBanks + RamBanks
    <3>1. PICK i \in Nat : i = b - RomBanks /\ i \in 0 .. (RamBanks - 1)
      BY <2>1, <2>4, Sizes
    <3>2. At(ReadPointer(b), o) = ram[i * BankSize + o] /\ At(ReadPointer(b), o)' = ram'[i * BankSize + o]
      BY <2>2, <2>4, <3>1, CellOf
    <3>3. i * BankSize + o \in 0 .. (RamBanks * BankSize - 1)
      BY <2>1, <3>1, CellInside, Sizes
    <3>4. CASE ~(c < RomBanks) /\ c < RomBanks + RamBanks
      <4>1. PICK j \in Nat : j = c - RomBanks
        BY <1>2, <3>4, Sizes
      <4>2. (i * BankSize + o = j * BankSize + q) <=> (i = j /\ o = q)
        BY <1>2, <2>1, <3>1, CellsApart, Sizes
      <4>3. (i = j) <=> (b = c)
        BY <3>1, <4>1, <1>2, <2>1, Sizes
      <4>4. ram' = [ram EXCEPT ![j * BankSize + q] = v]
        BY <3>4, <4>1
      <4>5. ram'[i * BankSize + o] =
              IF i * BankSize + o = j * BankSize + q THEN v ELSE ram[i * BankSize + o]
        BY <4>4, <3>3, <1>1
      <4> QED
        BY <3>2, <3>4, <4>2, <4>3, <4>5
    <3>5. CASE ~(~(c < RomBanks) /\ c < RomBanks + RamBanks)
      <4>1. ram' = ram
        BY <3>5
      <4> QED
        BY <2>4, <3>2, <3>5, <4>1
    <3> QED
      BY <3>4, <3>5
  <2>5. CASE ~(b < RomBanks) /\ ~(b < RomBanks + RamBanks)
    <3>1. PICK i \in Nat : i = b - RomBanks - RamBanks /\ i \in 0 .. (VramBanks - 1)
      BY <2>1, <2>5, Sizes
    <3>2. At(ReadPointer(b), o) = vram[i * BankSize + o] /\ At(ReadPointer(b), o)' = vram'[i * BankSize + o]
      BY <2>2, <2>5, <3>1, CellOf
    <3>3. i * BankSize + o \in 0 .. (VramBanks * BankSize - 1)
      BY <2>1, <3>1, CellInside, Sizes
    <3>4. CASE ~(c < RomBanks + RamBanks)
      <4>1. PICK j \in Nat : j = c - RomBanks - RamBanks
        BY <1>2, <3>4, Sizes
      <4>2. (i * BankSize + o = j * BankSize + q) <=> (i = j /\ o = q)
        BY <1>2, <2>1, <3>1, CellsApart, Sizes
      <4>3. ((i = j) <=> (b = c)) /\ ~(c < RomBanks)
        BY <3>1, <3>4, <4>1, <1>2, <2>1, Sizes
      <4>4. vram' = [vram EXCEPT ![j * BankSize + q] = v]
        BY <3>4, <4>1
      <4>5. vram'[i * BankSize + o] =
              IF i * BankSize + o = j * BankSize + q THEN v ELSE vram[i * BankSize + o]
        BY <4>4, <3>3, <1>1
      <4> QED
        BY <3>2, <4>2, <4>3, <4>5
    <3>5. CASE c < RomBanks + RamBanks
      <4>1. vram' = vram
        BY <3>5
      <4> QED
        BY <2>5, <3>2, <3>5, <4>1
    <3> QED
      BY <3>4, <3>5
  <2> QED
    BY <2>3, <2>4, <2>5
<1>4. /\ Held' = [b \in Banks |-> [o \in Offsets |-> At(ReadPointer(b), o)']]
      /\ Held = [b \in Banks |-> [o \in Offsets |-> At(ReadPointer(b), o)]]
  BY DEF Held, BankOf
<1>5. CASE c < RomBanks
  <2>1. Held' = Held
    BY <1>3, <1>4, <1>5
  <2> QED
    BY <2>1, <1>2, <1>5, Sizes
<1>6. CASE ~(c < RomBanks)
  <2>1. Held' = [Held EXCEPT ![c][q] = v]
    BY <1>3, <1>4, <1>6
  <2> QED
    BY <2>1, <1>2, <1>6, Sizes
<1> QED
  BY <1>5, <1>6

\* A step that leaves the arrays alone leaves the pool's banks alone.
LEMMA HeldKept == ASSUME UNCHANGED arrays PROVE Held' = Held
<1>1. ASSUME NEW b \in Banks, NEW o \in Offsets
      PROVE  At(ReadPointer(b), o)' = At(ReadPointer(b), o)
  BY DEF arrays, At, ReadPointer, Pointer, Null, Contents
<1> QED
  BY <1>1 DEF Held, BankOf

\* What loads and registers give is what the pool holds: a load through a
\* window sees the bank that BANK_SEL names, the port sees video memory, and a
\* window has no write pointer exactly when BANK_SEL reads back a ROM bank.
THEOREM MemoryLoads == Spec => []LoadsSeePool
<1>1. ASSUME MemoryInv PROVE LoadsSeePool
  <2>t. TypeOK
    BY <1>1 DEF MemoryInv
  <2>d. DOMAIN hwRegs = RegPage \ Elsewhere
    BY <2>t DEF TypeOK
  <2>1. ASSUME NEW a \in Addresses \ RegPage
        PROVE  Value(a) = Pool!Load(Win(a), Off(a))
    <3>1. Win(a) \in Windows /\ Off(a) \in Offsets
      BY AddressParts
    <3>2. bankSel[Win(a)] \in Banks
      BY <1>1, <3>1, InvPointers
    <3>3. Value(a) = At(ReadPointer(bankSel[Win(a)]), Off(a))
      BY <1>1, SeenAt DEF Value
    <3>4. Held[bankSel[Win(a)]][Off(a)] = At(ReadPointer(bankSel[Win(a)]), Off(a))
      BY <3>1, <3>2, HeldCell
    <3> QED
      BY <3>3, <3>4 DEF Pool!Load, Held
  <2>2. Value(GfxData) = Pool!PortLoad
    <3>0. /\ GfxData \in RegPage /\ GfxData # GfxAddrL /\ GfxData # GfxAddrH
          /\ GfxData \notin BankSelRegs /\ GfxData \notin DOMAIN hwRegs
      BY <2>d, Registers, MemoryAssumption DEF Elsewhere
    <3>1. Value(GfxData) = vram[vramPtr]
      BY <3>0 DEF Value, RegisterValue
    <3>2. Held[RomBanks + RamBanks + (vramPtr \div BankSize)][vramPtr % BankSize] = vram[vramPtr]
      BY <2>t, HeldAtPort
    <3> QED
      BY <3>1, <3>2 DEF Pool!PortLoad, Held
  <2>3. ASSUME NEW w \in Windows
        PROVE  (Value(BankSel0 + w) < RomBanks) = (writePtr[w] = Null)
    <3>0. PICK r \in RegPage : /\ r = BankSel0 + w /\ r \in BankSelRegs
                               /\ r \notin {GfxAddrL, GfxAddrH, GfxData}
                               /\ r - BankSel0 = w
                               /\ r \notin DOMAIN hwRegs
      BY <2>d, Registers DEF Elsewhere
    <3>1. Value(BankSel0 + w) = bankSel[w]
      BY <3>0 DEF Value, RegisterValue
    <3>2. bankSel[w] \in Banks /\ writePtr[w] = WritePointer(bankSel[w])
      BY <1>1, InvPointers
    <3>3. PICK b \in Banks : b = bankSel[w]
      BY <3>2
    <3>4. WritePointer(b) = Null <=> b < RomBanks
      BY DEF WritePointer, ReadPointer, Pointer, Null
    <3>5. (b < RomBanks) = (WritePointer(b) = Null)
      BY <3>4
    <3> QED
      BY <3>1, <3>2, <3>3, <3>5
  <2> QED
    BY <2>1, <2>2, <2>3 DEF LoadsSeePool
<1> QED
  BY <1>1, MemoryInvariant, PTL

LEMMA InitPool == Init => Pool!Init
<1> SUFFICES ASSUME Init PROVE Pool!Init
  OBVIOUS
<1>1. TypeOK
  BY InitMemoryInv DEF MemoryInv
<1>2. Held \in [Banks -> [Offsets -> Bytes]]
  BY <1>1, HeldType
<1>3. bankSel \in [Windows -> Banks]
  BY <1>1 DEF TypeOK
<1>4. hwRegs[GfxCtrl] = 0
  BY Registers DEF Init
<1>5. StepsOnWrite = FALSE /\ StepsOnRead = FALSE
  BY <1>4 DEF StepsOnWrite, StepsOnRead
<1> QED
  BY <1>2, <1>3, <1>5 DEF Init, Pool!Init, Held

\* Every step of memory.c is a step of the pool: a store through a window or
\* the port changes the one cell it names, every other step none.
LEMMA NextPool == MemoryInv /\ [Next]_vars => [Pool!Next]_(Pool!vars)
<1> SUFFICES ASSUME MemoryInv, [Next]_vars PROVE [Pool!Next]_(Pool!vars)
  OBVIOUS
<1>t. TypeOK /\ PointerInv
  BY DEF MemoryInv
<1>s. StoreBytes \subseteq Bytes
  BY MemoryAssumption
<1>k. (hwRegs' = hwRegs) =>
        [write |-> StepsOnWrite, read |-> StepsOnRead]' =
          [write |-> StepsOnWrite, read |-> StepsOnRead]
  BY DEF StepsOnWrite, StepsOnRead
<1>1. ASSUME NEW a \in Addresses, NEW v \in StoreBytes, WriteMemory(a, v)
      PROVE  Pool!Next
  <2>1. Win(a) \in Windows /\ Off(a) \in Offsets /\ v \in Bytes
    BY AddressParts, <1>s
  <2>2. PICK c \in Banks, q \in Offsets : c = bankSel[Win(a)] /\ q = Off(a)
    BY <2>1, InvPointers
  <2>3. writePtr[Win(a)] = WritePointer(c)
    BY <2>1, <2>2, InvPointers
  <2>p. PICK p : p = WritePointer(c)
    OBVIOUS
  <2>4. /\ rom' = rom
        /\ ram' = IF p.array = "ram" THEN [ram EXCEPT ![p.base + q] = v] ELSE ram
        /\ vram' = IF p.array = "vram" THEN [vram EXCEPT ![p.base + q] = v] ELSE vram
    BY <1>1, <2>2, <2>3, <2>p DEF WriteMemory
  <2>q. /\ c < RomBanks => p.array = "null"
        /\ ~(c < RomBanks) /\ c < RomBanks + RamBanks =>
             p.array = "ram" /\ p.base = (c - RomBanks) * BankSize
        /\ ~(c < RomBanks) /\ ~(c < RomBanks + RamBanks) =>
             p.array = "vram" /\ p.base = (c - RomBanks - RamBanks) * BankSize
    BY <2>p DEF WritePointer, ReadPointer, Pointer, Null
  <2>r. c \in Nat /\ (c < RomBanks => c < RomBanks + RamBanks)
    BY Sizes DEF Banks, Bytes
  <2>5. ram' = IF ~(c < RomBanks) /\ c < RomBanks + RamBanks
                 THEN [ram EXCEPT ![(c - RomBanks) * BankSize + q] = v] ELSE ram
    BY <2>4, <2>q, <2>r
  <2>6. vram' = IF ~(c < RomBanks + RamBanks)
                  THEN [vram EXCEPT ![(c - RomBanks - RamBanks) * BankSize + q] = v] ELSE vram
    BY <2>4, <2>q, <2>r
  <2>7. Held' = IF c \in 0 .. (RomBanks - 1) THEN Held ELSE [Held EXCEPT ![c][q] = v]
    <3>1. TypeOK /\ rom' = rom
      BY <1>t, <2>4
    <3> QED
      BY <3>1, <2>5, <2>6, DepositCell
  <2>8. bankSel' = bankSel /\ hwRegs' = hwRegs /\ vramPtr' = vramPtr
    BY <1>1 DEF WriteMemory, mapping
  <2>9. Pool!Store(Win(a), Off(a), v)
    BY <1>k, <2>2, <2>7, <2>8 DEF Pool!Store, Pool!Deposited, Held
  <2> QED
    BY <2>1, <2>9 DEF Pool!Next
<1>2. ASSUME NEW w \in Windows, NEW b \in Banks, WriteBankSel(w, b)
      PROVE  Pool!Next
  <2>1. Held' = Held
    BY <1>2, HeldKept DEF WriteBankSel
  <2>2. /\ bankSel' = [bankSel EXCEPT ![w] = b]
        /\ hwRegs' = hwRegs /\ vramPtr' = vramPtr
    BY <1>2 DEF WriteBankSel
  <2>3. Pool!Show(w, b)
    BY <1>k, <2>1, <2>2 DEF Pool!Show, Held
  <2> QED
    BY <2>3 DEF Pool!Next
<1>3. ASSUME NEW v \in Bytes, WriteGfxAddr(v)
      PROVE  Pool!Next
  <2>1. Held' = Held
    BY <1>3, HeldKept DEF WriteGfxAddr
  <2>2. vramPtr' \in 0 .. (VramSize - 1)
    BY <1>3, <1>t, PortStays DEF WriteGfxAddr
  <2>3. bankSel' = bankSel /\ hwRegs' = hwRegs
    BY <1>3 DEF WriteGfxAddr, mapping
  <2>4. Pool!SetPort
    BY <1>k, <2>1, <2>2, <2>3 DEF Pool!SetPort, Held
  <2> QED
    BY <2>4 DEF Pool!Next
<1>4. ASSUME NEW v \in StoreBytes, WriteGfxData(v)
      PROVE  Pool!Next
  <2>1. PICK p \in 0 .. (VramSize - 1) : p = vramPtr
    BY <1>t DEF TypeOK
  <2>2. PICK i \in Nat, q \in Offsets :
           /\ i = p \div BankSize /\ q = p % BankSize /\ p = i * BankSize + q
           /\ RomBanks + RamBanks + i \in Banks
           /\ RomBanks + RamBanks + i \notin 0 .. (RomBanks - 1)
    BY PortParts
  <2>3. PICK c \in Banks : c = RomBanks + RamBanks + i
    BY <2>2
  <2>4. ~(c < RomBanks) /\ ~(c < RomBanks + RamBanks) /\ c - RomBanks - RamBanks = i
    BY <2>2, <2>3, Sizes
  <2>5. rom' = rom /\ ram' = ram /\ vram' = [vram EXCEPT ![i * BankSize + q] = v]
    BY <1>4, <2>1, <2>2 DEF WriteGfxData
  <2>6. Held' = IF c \in 0 .. (RomBanks - 1) THEN Held ELSE [Held EXCEPT ![c][q] = v]
    BY ZenonT(40), <1>t, <2>4, <2>5, DepositCell
  <2>7. bankSel' = bankSel /\ hwRegs' = hwRegs
    BY <1>4 DEF WriteGfxData, mapping
  <2>8. vramPtr' = IF StepsOnWrite THEN (vramPtr + 1) % VramSize ELSE vramPtr
    BY <1>4 DEF WriteGfxData, NextPtr
  <2>9. Pool!PortStore(v)
    <3>1. vramPtr' = Pool!Stepped("write")
      BY <2>8 DEF Pool!Stepped
    <3>2. Held' = Pool!Deposited(RomBanks + RamBanks + (vramPtr \div BankSize),
                                 vramPtr % BankSize, v)
      BY <2>1, <2>2, <2>3, <2>6 DEF Pool!Deposited, Held
    <3> QED
      BY <1>k, <2>7, <3>1, <3>2 DEF Pool!PortStore, Held
  <2> QED
    BY <1>s, <2>9 DEF Pool!Next
<1>5. ASSUME NEW v \in Bytes, WriteOtherReg(GfxCtrl, v)
      PROVE  Pool!Next
  <2>1. Held' = Held
    BY <1>5, HeldKept DEF WriteOtherReg
  <2>2. bankSel' = bankSel /\ vramPtr' = vramPtr
    BY <1>5 DEF WriteOtherReg, mapping
  <2>3. StepsOnWrite' \in BOOLEAN /\ StepsOnRead' \in BOOLEAN
    BY DEF StepsOnWrite, StepsOnRead
  <2>4. [write |-> StepsOnWrite, read |-> StepsOnRead]' \in [{"write", "read"} -> BOOLEAN]
    BY <2>3
  <2>5. Pool!SetSteps
    BY <2>1, <2>2, <2>4 DEF Pool!SetSteps, Held
  <2> QED
    BY <2>5 DEF Pool!Next
<1>6. CASE ReadGfxData
  <2>1. Held' = Held
    BY <1>6, HeldKept DEF ReadGfxData
  <2>2. bankSel' = bankSel /\ hwRegs' = hwRegs
    BY <1>6 DEF ReadGfxData, mapping
  <2>3. vramPtr' = Pool!Stepped("read")
    BY <1>6 DEF ReadGfxData, NextPtr, Pool!Stepped
  <2>4. Pool!PortLoadStep
    BY <1>k, <2>1, <2>2, <2>3 DEF Pool!PortLoadStep, Held
  <2> QED
    BY <2>4 DEF Pool!Next
<1>7. CASE UNCHANGED vars
  <2>1. Held' = Held
    BY <1>7, HeldKept DEF vars, arrays
  <2>2. bankSel' = bankSel /\ hwRegs' = hwRegs /\ vramPtr' = vramPtr
    BY <1>7 DEF vars
  <2> QED
    BY <1>k, <2>1, <2>2 DEF Pool!vars, Held
<1> QED
  BY <1>1, <1>2, <1>3, <1>4, <1>5, <1>6, <1>7 DEF Next

\* Three arrays and two cached pointers per window implement the pool of banks
\* of arch.md: what is stored through a window or the port is seen wherever the
\* same bank is shown and nowhere else, ROM never changes, and switching a bank
\* moves no data.
THEOREM MemoryImplementsPool == Spec => ImplementsPool
<1> QED
  BY InitPool, NextPool, MemoryInvariant, PTL DEF Spec, ImplementsPool, Pool!Spec
===============================================================================
