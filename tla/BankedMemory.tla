----------------------------- MODULE BankedMemory -----------------------------
(***************************************************************************)
(* memory.c: the address space of the guest.  Eight windows show banks of  *)
(* three arrays, rom, ram and vram, through cached pointers that           *)
(* memory_set_bank keeps; one page of the last window is the hardware      *)
(* registers instead.  Instruction fetch has a path of its own.            *)
(*                                                                         *)
(* The proportions are the code's, at any size: a byte names a bank, two   *)
(* bytes an address, and the video banks together are as large as the      *)
(* address space.  Registers of other devices are left to their modules    *)
(* (InputRing, CpuThread).  Loads change nothing but the port's address,   *)
(* so memory_read is an operator and that one step.                        *)
(***************************************************************************)
EXTENDS Naturals

CONSTANTS
  RomBanks, RamBanks, VramBanks,   \* 128, 120 and 8
  BankSize,                        \* 0x2000
  WindowCount,                     \* 8
  RegPage,                         \* the addresses 0xFE00 .. 0xFEFF
  GfxCtrl, GfxAddrL, GfxAddrH, GfxData,
  BankSel0,                        \* HW_BANK_SEL_0; one register per window
  StoreOffsets, StoreBytes,        \* bounds: what the guest stores, and where
  MaxStores                        \* bound: stores that reach an array

BankCount == RomBanks + RamBanks + VramBanks
Bytes == 0 .. (BankCount - 1)
Banks == Bytes
Windows == 0 .. (WindowCount - 1)
Offsets == 0 .. (BankSize - 1)
AddressCount == WindowCount * BankSize
Addresses == 0 .. (AddressCount - 1)
VramSize == VramBanks * BankSize
BankSelRegs == BankSel0 .. (BankSel0 + WindowCount - 1)
\* Registers memory_read answers from elsewhere: what a write leaves of them in
\* hw_regs is never read.
Elsewhere == {GfxAddrL, GfxAddrH, GfxData} \cup BankSelRegs
Named == {GfxCtrl} \cup Elsewhere

ASSUME MemoryAssumption ==
  /\ RomBanks \in Nat \ {0} /\ RamBanks \in Nat \ {0} /\ VramBanks \in Nat \ {0}
  /\ BankSize \in Nat \ {0, 1} /\ WindowCount \in Nat \ {0}
  /\ AddressCount = BankCount * BankCount /\ VramSize = AddressCount
  /\ Named \subseteq RegPage
  /\ RegPage \subseteq {a \in Addresses : a \div BankSize = WindowCount - 1}
  /\ BankSel0 \in Nat /\ GfxCtrl \notin Elsewhere
  /\ GfxAddrL # GfxAddrH /\ GfxData \notin {GfxAddrL, GfxAddrH}
  /\ BankSelRegs \cap {GfxAddrL, GfxAddrH, GfxData} = {}
  /\ BankCount >= 4 /\ BankCount % 4 = 0
  /\ StoreOffsets \subseteq Offsets /\ StoreBytes \subseteq Bytes
  /\ MaxStores \in Nat

VARIABLES
  rom, ram, vram,    \* the three arrays
  bankSel,           \* bank_sel
  readPtr, writePtr, \* bank_read_ptr, bank_write_ptr
  hwRegs,            \* hw_regs, of the registers a read takes from there
  vramPtr,           \* vram_ptr
  stores             \* counts stores, for the bound

vars == <<rom, ram, vram, bankSel, readPtr, writePtr, hwRegs, vramPtr, stores>>
arrays == <<rom, ram, vram>>
mapping == <<bankSel, readPtr, writePtr>>

Null == [array |-> "null", base |-> 0]
Pointer(a, b) == [array |-> a, base |-> b]

Win(a) == a \div BankSize
Off(a) == a % BankSize

\* memory_set_bank: which array, and where in it, a bank lies.
ReadPointer(bank) ==
  IF bank < RomBanks THEN Pointer("rom", bank * BankSize)
  ELSE IF bank < RomBanks + RamBanks
    THEN Pointer("ram", (bank - RomBanks) * BankSize)
    ELSE Pointer("vram", (bank - RomBanks - RamBanks) * BankSize)
WritePointer(bank) == IF bank < RomBanks THEN Null ELSE ReadPointer(bank)

\* memory_init: window i shows bank i, the last one the last RAM bank.
InitialBank(w) == IF w = WindowCount - 1 THEN RomBanks + RamBanks - 1 ELSE w

Contents(array) ==
  CASE array = "rom" -> rom [] array = "ram" -> ram [] array = "vram" -> vram
At(p, o) == IF p = Null THEN 0 ELSE Contents(p.array)[p.base + o]

Init ==
  /\ rom = [i \in 0 .. (RomBanks * BankSize - 1) |-> (i + 1) % BankCount]
  /\ ram = [i \in 0 .. (RamBanks * BankSize - 1) |-> 0]
  /\ vram = [i \in 0 .. (VramSize - 1) |-> 0]
  /\ bankSel = [w \in Windows |-> InitialBank(w)]
  /\ readPtr = [w \in Windows |-> ReadPointer(InitialBank(w))]
  /\ writePtr = [w \in Windows |-> WritePointer(InitialBank(w))]
  /\ hwRegs = [a \in RegPage \ Elsewhere |-> 0]
  /\ vramPtr = 0 /\ stores = 0

-----------------------------------------------------------------------------
(* Helpers on the registers. *)

\* GFX_CTRL & 4 steps vram_ptr after a write, & 8 after a read; here bits 0, 1.
StepsOnWrite == hwRegs[GfxCtrl] % 2 = 1
StepsOnRead == (hwRegs[GfxCtrl] \div 2) % 2 = 1
NextPtr == (vramPtr + 1) % VramSize
PtrHigh == vramPtr \div BankCount
PtrLow == vramPtr % BankCount

-----------------------------------------------------------------------------
(* memory_write, one action per kind of address. *)

\* Seeded bug, to show that a property notices, and not in the code: the write
\* pointer is forgotten.
StaleWriteBankSel(w, bank) ==
  /\ bankSel' = [bankSel EXCEPT ![w] = bank]
  /\ readPtr' = [readPtr EXCEPT ![w] = ReadPointer(bank)]
  /\ UNCHANGED <<arrays, writePtr, hwRegs, vramPtr, stores>>

\* Outside the register page: through the write pointer, if there is one.
WriteMemory(a, v) ==
  LET p == writePtr[Win(a)] IN
  /\ a \notin RegPage
  /\ stores < MaxStores
  /\ stores' = stores + 1
  /\ ram' = IF p.array = "ram" THEN [ram EXCEPT ![p.base + Off(a)] = v] ELSE ram
  /\ vram' = IF p.array = "vram" THEN [vram EXCEPT ![p.base + Off(a)] = v] ELSE vram
  /\ UNCHANGED <<rom, mapping, hwRegs, vramPtr>>

WriteBankSel(w, bank) ==
  /\ bankSel' = [bankSel EXCEPT ![w] = bank]
  /\ readPtr' = [readPtr EXCEPT ![w] = ReadPointer(bank)]
  /\ writePtr' = [writePtr EXCEPT ![w] = WritePointer(bank)]
  /\ UNCHANGED <<arrays, hwRegs, vramPtr, stores>>

WriteGfxAddr(v) ==
  /\ \/ vramPtr' = PtrHigh * BankCount + v
     \/ vramPtr' = v * BankCount + PtrLow
  /\ UNCHANGED <<arrays, mapping, hwRegs, stores>>

WriteGfxData(v) ==
  /\ stores < MaxStores
  /\ stores' = stores + 1
  /\ vram' = [vram EXCEPT ![vramPtr] = v]
  /\ vramPtr' = IF StepsOnWrite THEN NextPtr ELSE vramPtr
  /\ UNCHANGED <<rom, ram, mapping, hwRegs>>

WriteOtherReg(a, v) ==
  /\ a \in DOMAIN hwRegs
  /\ hwRegs' = [hwRegs EXCEPT ![a] = v]
  /\ UNCHANGED <<arrays, mapping, vramPtr, stores>>

-----------------------------------------------------------------------------
(* memory_read *)

\* Outside the register page.
Seen(a) == At(readPtr[Win(a)], Off(a))

RegisterValue(a) ==
  CASE a = GfxAddrL -> PtrLow
    [] a = GfxAddrH -> PtrHigh
    [] a = GfxData -> vram[vramPtr]
    [] a \in BankSelRegs -> bankSel[a - BankSel0]
    [] a \in DOMAIN hwRegs -> hwRegs[a]

\* What memory_read returns, and the one change it makes.
Value(a) == IF a \in RegPage THEN RegisterValue(a) ELSE Seen(a)
ReadGfxData ==
  /\ vramPtr' = IF StepsOnRead THEN NextPtr ELSE vramPtr
  /\ UNCHANGED <<arrays, mapping, hwRegs, stores>>

\* Seeded bug: the second byte is taken past the window.
GreedyFetched(a) ==
  LET p == readPtr[Win(a)] IN
  IF p # Null
    THEN <<At(p, Off(a)), At(p, (Off(a) + 1) % BankSize)>>
    ELSE <<Value(a), Value((a + 1) % AddressCount)>>

\* fetch_instruction: both bytes straight from the window, unless the second
\* one lies in the next window.
Fetched(a) ==
  LET p == readPtr[Win(a)] IN
  IF p # Null /\ Off(a) < BankSize - 1
    THEN <<At(p, Off(a)), At(p, Off(a) + 1)>>
    ELSE <<Value(a), Value((a + 1) % AddressCount)>>

Next ==
  \/ \E a \in Addresses, v \in StoreBytes : Off(a) \in StoreOffsets /\ WriteMemory(a, v)
  \/ \E w \in Windows, b \in Banks : WriteBankSel(w, b)
  \/ \E v \in Bytes : WriteGfxAddr(v)
  \/ \E v \in StoreBytes : WriteGfxData(v)
  \/ \E v \in Bytes : WriteOtherReg(GfxCtrl, v)
  \/ ReadGfxData

Spec == Init /\ [][Next]_vars

-----------------------------------------------------------------------------
(* Properties. *)

TypeOK ==
  /\ rom \in [0 .. (RomBanks * BankSize - 1) -> Bytes]
  /\ ram \in [0 .. (RamBanks * BankSize - 1) -> Bytes]
  /\ vram \in [0 .. (VramSize - 1) -> Bytes]
  /\ bankSel \in [Windows -> Banks]
  /\ hwRegs \in [RegPage \ Elsewhere -> Bytes]
  /\ vramPtr \in 0 .. (VramSize - 1)
  /\ stores \in 0 .. MaxStores

\* A window never shows or writes past the array its bank lies in, and never
\* writes one bank while it shows another.
PointersInBounds ==
  \A w \in Windows : \A o \in Offsets :
    LET p == readPtr[w] IN
    /\ p.base + o \in DOMAIN Contents(p.array)
    /\ writePtr[w] \in {Null, p}

\* Three arrays and two cached pointers per window amount to the banks and
\* windows of arch.md: what is stored through one window is seen through every
\* window and port that shows the same bank and nowhere else, ROM never
\* changes, and switching a bank moves no data.
BankOf(b) == [o \in Offsets |-> At(ReadPointer(b), o)]
Pool == INSTANCE GuestMemory
          WITH ReadOnly <- 0 .. (RomBanks - 1),
               PortBank <- LAMBDA p : RomBanks + RamBanks + (p \div BankSize),
               PortOffset <- LAMBDA p : p % BankSize,
               PortSize <- VramSize,
               shown <- bankSel,
               store <- [b \in Banks |-> BankOf(b)],
               port <- vramPtr,
               steps <- [write |-> StepsOnWrite, read |-> StepsOnRead]
ImplementsPool == Pool!Spec

\* Every load and every register read gives what that pool holds: the cached
\* pointers never show a bank other than the one BANK_SEL reads back.
LoadsSeePool ==
  /\ \A a \in Addresses \ RegPage : Value(a) = Pool!Load(Win(a), Off(a))
  /\ Value(GfxData) = Pool!PortLoad
  /\ \A w \in Windows : (Value(BankSel0 + w) < RomBanks) = (writePtr[w] = Null)

\* Away from the register page, the fast path of a fetch and its slow path
\* across two windows give the bytes a load would give.
IsRegAccess(a) == a \in RegPage \/ (a + 1) % AddressCount \in RegPage
FetchSeesMemory ==
  \A a \in Addresses :
    ~IsRegAccess(a) => Fetched(a) = <<Value(a), Value((a + 1) % AddressCount)>>

-----------------------------------------------------------------------------
(* The inductive invariant. *)

\* The cached pointers are those of the bank that BANK_SEL reads back.
PointerInv ==
  /\ readPtr = [w \in Windows |-> ReadPointer(bankSel[w])]
  /\ writePtr = [w \in Windows |-> WritePointer(bankSel[w])]

MemoryInv == TypeOK /\ PointerInv
=============================================================================
