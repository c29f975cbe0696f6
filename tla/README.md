# A formal model of UF2S8

UF2S8 is an 8-bit instruction set with an assembler (C), an emulator (C, SDL3,
two threads) and three Verilog cores.  The modules here model the emulator's
concurrency, interrupts, memory, graphics and instructions, the assembler from
include files to words, and the pipelined and the multi-cycle core clock by
clock.  TLC checks them on small instances and TLAPS proves the theorems named
below for every value of the constants.  Paths are relative to `src/`;
`memory.c` and the like without a path are `emulator/src/`, or `assembler/src/`
where the assembler is the subject, and `.sv` files are those of the core in
question.

## The system

### Components

| Component | State | Operations | What must be right |
|---|---|---|---|
| CPU thread (`main.c` 33-110, `io.c` 10-60, `cpu.c`) | `pc`, `sp`, `gpr`, `csr`, `wait_for_interrupt`, `loop_count` | one turn of the loop: stop test, look at the sources, breakpoint test, fetch, execute, sleep | RETI and RET bring back what was saved, however interrupts nest; a pending interrupt is served; a stop ends the loop, parked or not |
| Input rings (`io.c` 79-112, `graphics.c` 29-49, `memory.c` 138-170) | two arrays of 64 with `head` and `tail` | main adds a key event or character; the guest's loads of DATA and STATUS take and look | without a lock: no slot is read while it is filled, nothing accepted is lost, duplicated or reordered |
| Thread lifecycle and terminal (`main.c` 112-214, `io.c` 62-112) | `running`, `debug_mode`, `is_raw`, the terminal | start, stop, signals, switching the terminal raw/cooked | a stop completes and is final; the terminal belongs to whoever reads it |
| Debugger (`debugger.c`) | step counter, breakpoint table | the prompt's commands, the listing | no instruction executes while paused unless commanded, as long as there is an input to command from; a listing is a line for the word |
| Banked memory and VRAM port (`memory.c`) | `rom`, `ram`, `vram`, `bank_sel`, `bank_read_ptr`, `bank_write_ptr`, `vram_ptr`, `hw_regs` | load, store, bank switch, port with auto-increment, fetch | the cached pointers always say what `bank_sel` says; fetch sees what a load sees |
| Graphics (`graphics.c`) | VRAM, palettes, blitter registers | pixel access, blit, render | the blitter's fast path equals its general path; nothing outside the rectangle and the clip changes; the screen catches up |
| Instructions (`cpu.c` 101-388) | registers and flags | ALU, shifts, loads, branches | a line does what `isa.md` says of it, flags included, so encoder and decoder agree on every field |
| Assembler passes (`symbol.c`, `encode.c`, `handle.c`) | token list, symbol table, image, `bank_w` | pass 1 gives labels addresses, pass 2 emits bytes | the two passes agree; bytes lie where the CPU looks; branches reach |
| Assembler lexer (`lexer.c`) | token list, include chain | tokenise, include | includes end, cycles are refused, the text is the one the includes stand for |
| Verilog cores (`verilog/singlecycle`, `multicycle`, `pipelined`) | architectural and pipeline registers, Wishbone handshake | one clock | each executes the instruction set one instruction at a time, whatever the hazards, bus waits and interrupts, and always gets on |
| Guest software, tools | - | - | demonstrations, not part of the machine |

### How they interact

The emulator has two threads that share one `struct VirtualMachine` (`vm.h`)
and no lock.  *main* polls SDL and standard input, renders, and stops the
machine; the *CPU thread* executes the guest.  Main writes ring slots and
`tail`; the CPU thread writes `head` (as a side effect of a guest load through
`memory_read`), `vram`, `debug_mode` and, through SWI 0 or `q`, `running`.  The
debugger runs inside the CPU thread and reads the same standard input main
reads for the UART.  The signal handler writes `running`.  The assembler's
image is the emulator's ROM; the two meet in the bank windows.  Main renders
VRAM while the CPU thread draws.  In the multi-cycle core the control unit asks
the Wishbone master for one transfer at a time and waits for the slave; in the
pipelined core the five stages move together, and decode takes operands from
whichever later stage has them.  A device holds its interrupt line until the
core acknowledges it.

### What is hard

* **Unlocked sharing.**  The ring fields are plain `int`s, so even the order of
  the two stores of a thread is the compiler's (`memory.c` 157-163, `io.c` 105-109).
* **Ownership of standard input**, which changes some time *after* `debug_mode`.
* **Start and stop**: the CPU thread resets the UART ring after main has begun
  to fill it (`main.c` 42-43).
* **Interrupt nesting** on a stack in guest memory that may lie in ROM or wrap.
* **Liveness**: sources are polled every 1000th turn; WFI parks the thread.
* **Caches**: bank pointers; two readings of one address (fetch and load).
* **Two passes** written separately that must add up to the same addresses.
* **Numeric edges**: 8- and 16-bit wrap, a nine-bit branch field, shifts, and
  rectangles that hang over the edges of the screen.
* **Two paths for one thing**: the blitter's fast and general fill, encoder and
  decoder, decoder and disassembler.
* **Instructions in flight**: every pair of instructions at every distance, a
  flush or an interrupt in any clock of a transfer that takes several.
* **A bus of any speed**, under which an interrupt must not fall inside an
  instruction and nobody may change half of a two-byte value.

`PROJECT.json` lists these as hazards, each at its line.

## The modules

Order of construction: the rings first (shared by everything, and the one place
where two threads meet in earnest), then the CPU thread, the lifecycle, memory,
the assembler's passes, the blitter, the chain from source text to execution, and
the Verilog cores.  Each module's header says what it abstracts.

| Module | Role |
|---|---|
| `BoundedFifo` | abstract: a FIFO of bounded capacity with the outcome of each operation |
| `InputRing` | a ring, one action per access of either thread to shared memory |
| `UartStartup` | extends `InputRing` with the CPU thread's late reset |
| `InputRingProofs` | the theorems of both |
| `ControlStack` | abstract: what calls, interrupts and returns promise the guest |
| `CpuThread`, `MCCpuThread`, `CpuThreadProofs` | the CPU thread's loop and control instructions |
| `Lifecycle`, `LifecycleProofs` | threads, terminal, debugger's prompt, stop |
| `GuestMemory` | abstract: `arch.md`'s pool of banks behind windows, and a port |
| `BankedMemory`, `BankedMemoryProofs` | `memory.c` with its cached pointers |
| `AssemblerPasses`, `MCAssemblerPasses`, `AssemblerPassesProofs` | `symbol_build_table` and `encode_and_write` |
| `Blitter`, `MCBlitter`, `BlitterProofs` | `graphics.c`: pixels, blitter commands, rendering |
| `Lexer` | `lexer.c`: includes, one list of tokens |
| `Encoding` | `handle.c`, `encode.c`: a line into a word |
| `Execution` | `cpu.c`: what a word does to the machine |
| `Disassembly` | `debugger.c`: the line listed for a word |
| `InstructionSet` | abstract: what `isa.md` promises of a line |
| `Toolchain`, `MCToolchain` | the five above, composed |
| `ByteLogic` | `&`, `\|` and `^` of two bytes as closed forms |
| `Core` | what the two cores share: decoding, ALU, and the machine they are compared with |
| `Pipeline`, `MCPipeline`, `PipelineProofs` | the pipelined core |
| `WordMachine` | the multi-cycle core without its clock: what each word does as a whole |
| `Sequential` | abstract: instructions of `isa.md` and interrupts taken whole |
| `MultiCycle`, `MCMultiCycle` | the multi-cycle core, the Wishbone master and a slave |
| `MultiCycleSequence`, `MultiCycleProofs` | how far each clock has brought the machine between two boundaries, and the theorems |

### InputRing, UartStartup

`head`, `tail`, `slot` are `key_head`/`uart_head`, `key_tail`/`uart_tail` and
the buffer; `N` is 64.  `ppc` and `cpc` say between which accesses main and the
CPU thread stand; `ptail`, `pdatum`, `cdatum` are their locals.  Both rings have
the same code shape, so one module stands for both; STATUS loads (`StartPeek`,
`Peek`) are the keyboard's.  With `reorder` set (chosen at `Init`, so one run covers both) the two
stores of a thread may also happen in the other order, which a compiler may do
with plain `int`s: `Publish` before `Fill`, and `ReleaseThenTake`.

`UartStartup` adds `boot`, the position of `cpu_thread_worker` in its
initialisation, and numbers the characters.  It assumes program order.

### CpuThread

One behaviour step is half a turn of the loop: the *top* (`Exit`, `Dispatch`,
`NoDispatch`) and the *rest* (`Sleep` or one instruction).  The guest program is
not fixed: every turn may execute any instruction whose effect on control state
`cpu.c` defines, so the properties hold of every program.  Bytes have `Radix`
values (4 or 8) in place of 256, and the position of the flags in `csr[0]` is
kept: the top bit is I, then reserved bits, then one condition flag.  With
`Trusted` the guest keeps a stack discipline, which `frames` records and which
no action's effect on the machine depends on; without it, it does anything.
The stack grows down in `mem`; writes to ROM are dropped as `memory_write` does.
Dispatch, with the order timer, keyboard, UART, is
`check_and_dispatch_interrupts`; the retirement mask `csr[0] &= 0x8F` is
`Retire`.

### Lifecycle

`mpc` follows `main` and `handle_uart_events`: `CompareModes` is the first load
of `debug_mode`, `Gate` the second, and the CPU thread may change it between.
`raw` is `is_raw`, and stands for `O_NONBLOCK` too, since both are set and
cleared together (`SwitchTerminal` takes `tcsetattr` and `fcntl`, one after the
other, as one step).  Standard input is a terminal or redirected (`tty`).  A
flush discards what a terminal holds and fails on a redirected input.  The
debugger reads through a stdio stream: from a cooked terminal a line at a time,
else everything there is, into `buffer`; main calls `read()` itself.  Both meet
the end of the input, which is Ctrl-D on a cooked terminal (`End`, one read) or
the end of a redirected input (`closed`, for good).  The stream remembers the end
(`ended`; the C library's end-of-file is sticky), so from there on every
`fgets` returns NULL at once.  `PromptRead` is a call of `fgets` that finds no
line, `Command` one that returns a line.  `granted` and `freed` are history: how
many instructions commands have allowed, and whether `c` was ever given.

### BankedMemory

The sizes keep the code's proportions at any scale (a byte names a bank, two
bytes make an address, VRAM is as large as the address space).  Every store of
`memory_write` is an action; loads other than the port's change nothing and are
operators (`Value`, `Fetched`).

### AssemblerPasses

The program is a sequence of items chosen at `Init`, each an instruction, a
label or a directive with one operand.  Pass 1 (`Measure`, `DefineLabel`,
`DefineEqu`, `Refuse`) and pass 2 (the `Encode...` actions) keep an address
each, as the code does.  Bytes of the image are named by item and position, so
that a property can ask *which* byte lies where.  `field` and `placed` are
history.  What both passes abstract: operand syntax (a well-formed token list)
and the bit layouts of instructions other than the branch offset, which are
`Encoding`'s, and directives cut off by the end of the file.

### Blitter

`Command` is one store to BLIT_CMD: the CPU thread executes a whole command inside
it (`memory.c` 98).  `Render` is a step of main's frame: read the palette
(`BeginFrame`), unpack a row (`UnpackRow`), show it (`Present`).  It reads the same
VRAM without a lock, so a command falls between any two rows.  A command is a record
of the blitter's registers.  The four pixel formats differ only in how many
pixels share a byte, 2^mode, so one definition stands for each chain of `if`s
over the mode.  The general path of a rectangle and a line are both a *path*: a
sequence of dots, drawn one after the other.  `RectanglePath` has the order and the
places of the cells, `LinePath` those of the line's loop, `Track` its error term;
`Dot` is the body of the loops (clip, source pixel, key colour, write), and `After`
the VRAM after each dot.  The fast path of a fill is an operator of its own, as it
is separate code.  `Behind` is what a copy whose stride takes it past the end of VRAM reads
there, which C leaves undefined.  Mode and resolution are fixed within a behaviour.

### Lexer, Encoding, Execution, Disassembly, InstructionSet, Toolchain

`Toolchain` goes from files to effects.  `Lexer` reads lines, opens included
files, checks depth and cycles along the chain of open files, and joins a minus
sign with its number.  `Encoding` turns the tokens of one instruction into a word
(`encode_instructions`), `Execution` gives the outcomes of a word on the emulator's CPU
(`decode_execute`): none for an illegal word, two where C leaves a shift undefined.
`Disassembly` gives the tokens of the debugger's listing.  Words are numbers; the
shifts and masks of the code are products, remainders and sums of disjoint
fields.

`InstructionSet` is the reference for all of these and for the cores.  It takes a
line as *written* and says in plain arithmetic what becomes of registers, memory
and pc, and which flags have a promised value (`sure`); `isa.md` leaves some
unknown.  It shares no definition with the encoder or the decoder.

### Core, Pipeline

One action, `Clock`, moves all five stages of the pipelined core, as the edge
does; `Raise` is the device.  The registers between the stages are records of
what is still to be done of an instruction (`ahead`), `ifid` is what decode
holds, `cu` the control unit's registers.  The `o_id_...` operators are the outputs of
the forwarding unit, `o_stall` its load-use stall.  `cpu` is the machine of
`InstructionSet`, which takes each instruction whole in the clock in which the
core issues it: properties compare the two.

`Mishandled` lists, one disjunct each, the situations that the core's own hazard
logic gets wrong (below, *Also observed*).  The first of them sets `spoilt` and
the comparison ends there.  This is the extent to which the properties hold;
none of these situations is left out of the model.

### WordMachine, Sequential, MultiCycle

An action of `MultiCycle` is what the control unit does in one clock (`FetchLow`,
`FetchHigh`, `Fetched`, `Calculate`, `Pull`, `Single`, `Link`, `Branch`, `Enter`,
`EnterOn`, ...), conjoined in `Clock` with the master, the slave and the device.
`Wait` is a clock spent waiting for the slave, which may take any number.
`Sequential` takes instructions and interrupts whole.  The mapping shows the
core's registers at instruction boundaries and, between two of them, the machine
as it was at the last (`last`, a history variable).  Where the core departs from
`isa.md` for good, `Sequential` says what the core does, in its header.

`WordMachine` stands between the two: `After(m, w)` is what the control unit's
pattern for the word `w` makes of the machine `m`, all stages together, for each
of the 65536 words and not only for those a line of assembly has.  That the
clocks come to it (`WordsAreWhole`) is about stages, bus and interrupts; that it
is what `isa.md` promises of a line (`RunsInSequence`) is about patterns and ALU.

## What is checked

Every run finishes within a minute and a half with two workers.

| Run | Instance | Shows |
|---|---|---|
| `input_ring` | 4 slots, two data, both store orders | `NoSlotRace`, `StatusMatchesData`, refinement of `BoundedFifo` in program order (`ImplementsFifo`), and in number only, whatever the order (`ImplementsCount`) |
| `uart_startup` | 4 slots, 6 characters | the reset may lose what was typed before it, never duplicates or reorders (`ReceivedInOrder`), and loses nothing published after it (`NothingOwedIsLost`) |
| `cpu_trusted` | 6 bytes of stack, one source, Radix 4 | `ImplementsContract`: every disciplined program, interrupted anywhere, sees a stack of frames |
| `cpu_guest` | arbitrary programs, timer and keyboard, polling every 2nd turn | `DeafParkLasts`, `NeverIgnoredForever`, `StopStops` |
| `lifecycle` | 3 typed lines, `s 0`..`s 2`, a terminal or a redirected input that may end | `DebuggerOwnsInput`, `CommandedUntilFreed`, `StopIsFinal`, `StopCompletes`, `PromptGetsTerminal` |
| `lifecycle_pause` | the same | *violated*: a paused debugger executes nothing uncommanded while its input lasts |
| `banked_memory` | 4 banks of 8 bytes, 2 windows, one store that reaches an array | `LoadsSeePool`, `FetchSeesMemory`, refinement of `GuestMemory` (`ImplementsPool`) |
| `assembler_passes` | every program of up to 4 of 16 items; 4 windows and 6 banks of 4 bytes | `LabelsWhereCodeIs`, `BranchesReach`, `BytesWhereTheCpuLooks`, `VerdictIsExact` |
| `blitter` | an 8 by 4 screen in 64 bytes of VRAM, all four modes, any one command of five families | fast fill equals general fill (`FillsAgree`), `XorTwiceRestores`, `OnlyAskedPixels`, `TargetGetsSource`, `LineIsThin`, and `FrameCatchesUp` although main renders while the guest draws |
| `toolchain` | single lines on edge values of every operand, three programs, four files that include each other, and all 65536 words | `DoesWhatIsWritten`, `ListingsAreTrue`, `IncludesFlatten` |
| `pipeline` | all programs of three of 17 lines, all pairs of 28 lines at distances one to three, three longer ones; two interrupts at any clock | no instruction is lost, repeated or taken out of turn (`InOrder`), forwarding finds what the program has (`OperandsCurrent`), `CommittedState`, `GetsOn` |
| `multicycle` | all pairs of 29 lines, a slave of any speed, one interrupt at any clock | refinement of `Sequential` (`RunsInSequence`), every word and interrupt entry is done whole (`WordsAreWhole`), the bus is kept through every multi-byte access (`Undivided`), `Handshake`, and the core always gets on (`GetsOn`) |

Each property of a passing run also has a seeded bug (`PROJECT.json`, "mutants";
marked as such in the modules) under which TLC refutes it, so that none holds
vacuously.  The type invariants of `CpuThread`, `InputRing` and `Lifecycle` are
no run's property: they are there for the proofs.

**Bounds.**  A ring of four slots has the empty, the full and every wrapped
state with room for both threads to be one step apart; the theorems remove the
bound.  Six bytes of stack hold two nested frames, enough for an interrupt
inside an interrupt, a call or a push.  `PollEvery = 2` distinguishes polled from
unpolled turns.  Three lines suffice for a command, a second prompt and a line
read by the wrong reader.  `MaxStores` bounds only stores into arrays; bank
switches and port addressing are unbounded.  Four items suffice for "odd string,
instruction, label, branch"; addresses there become odd, negative, larger than
memory, and straddle windows.

An 8 by 4 screen has a whole byte per row in the narrowest format and eight in the
widest; coordinates lie before, on and past both edges, strides are zero, odd
and larger than a row, and 64 bytes leave room behind the screen and for the
palette.  One command per behaviour suffices because the properties relate VRAM
before and after one, from a pattern in which all neighbours differ.

In `toolchain` operands are the edges of sign, carry, field and shift count, on
machines whose registers hold such edges; `MaxDepth = 3` stands for ten includes,
`MaxLines = 6` for 65536 lines of a file, and `MaxTurns = 12` lets the longest of
the programs end.

In `pipeline` three consecutive instructions fill the stages between fetch and
write-back; pairs at distances up to three cover every forwarding path, and the
fourth instruction no longer sees the first.  Memory beyond a program holds WFI.
Flags start as C only and as I with Z (1 and 130), so branches go both ways and
interrupts are both enabled and not.  `Undriven = 165` is one arbitrary reading
of a wire nobody drives.  The constraint `Unspoilt` cuts what follows a
mishandled clock; every property of the run is conditional on `~spoilt` or
counts from there, so nothing is hidden by it that the properties say.  Two
lines suffice in `multicycle`, where nothing is in flight between instructions
but what the control unit's registers carry; the slave's delay is unbounded.

**Fairness.**  `CpuThread!FairSpec` and `Lifecycle!FairSpec` assume weak
fairness of the CPU thread, and of main in `Lifecycle`: the operating system
schedules both, and neither waits on a lock.  The operator, the signals, the
clock and the input sources are never assumed to act.  `MainRead` with an empty
cooked terminal and the debugger's blocked prompt are *disabled*, not unfair:
they wait for a person, and `StopCompletes` says so; of an input that has come
to its end it excepts nothing.  `MCBlitter!MCSpec` assumes
weak fairness of `Render`: main renders in every turn of its loop (`main.c`
199-204).`MultiCycle!FairSpec` assumes it of `Clock(TRUE)`: the clock runs, and a
slave that is asked answers in the end; the device need never ask.  `Pipeline`
assumes none: its `GetsOn` is a bound of ten clocks, a safety property.

**Deadlock checking** is off where the system may stop (a machine that exited, a
finished assembly, an exhausted bound) and on for the rings, the startup and
the two cores, whose clock never stops.

## What the violation says

`lifecycle_pause`: a breakpoint or SWI 1 pauses while the terminal is still
`O_NONBLOCK`; `fgets` returns NULL at once, the prompt is left as if answered,
and instructions run until main has restored the terminal.  `lifecycle` checks
what does hold, `CommandedUntilFreed`: with `-d` and before the first `c` the
input is blocking, and only its end gets an instruction past the prompt.

The end of the input is the other way past it (`debugger.c:267`, the same line).
Ctrl-D at a cooked prompt, or a redirected standard input that is used up,
makes `fgets` return NULL; the prompt is left as if answered, and so is every
later one, so that a machine started with `-d` runs on freely with `debug_mode`
still set.  `Commanded` and `CommandedUntilFreed` except it by name (`ended`),
since after it there is nobody left to command; `StopCompletes` covers that
nothing goes on waiting for such an input.

## Also observed

These are what the code does where a reader of the documents might expect
otherwise.  The models contain each of them, and the properties name it where
they must except it; none is a run of its own.

*Emulator.*
* An instruction fetch inside the register page reads the RAM beneath it, not
  the registers (`memory.c` 50-53); `FetchSeesMemory` is stated away from it.
* An illegal instruction pushes its frame as interrupt 2, but then `cpu.c`
  384-386 overwrites `pc` and stops the machine (`isa.md:17` has a vector for it).
* SUB and ADD compute V from registers one of which may have been overwritten
  (`cpu.c:231`); INCC and DECB clear V.  `LosesOverflow` names the cases.
* A fast fill whose rows cross VRAM's end wraps differently from the general
  path (`RowsWithin` in `FillsAgree`).
* Breakpoints are compared with the pc after the fetch (`main.c` 60-72), so
  breakpoint X stops before the instruction at X-2, and is missed at a branch
  target X.  A breakpoint met while `s n` still counts is announced but does not
  stop (`debugger.c`, `debug_prompt`: the counter is looked at first).
* The listing prints the wrong field of SWI and PUSH and one operand of INCC and
  DECB, takes a register for a number or the reverse in three shifts
  (`debugger.c:149`), has no name for control registers 1 to 5, and lists LI with
  its spare bit set as unknown though it executes.  `Misprinted` names them.

*Assembler.*
* Pass 2 pads an instruction at an odd address, pass 1 does not count the pad:
  labels after an odd string are one byte off (`symbol.c:268` against `encode.c`
  163-169).  `LabelsWhereCodeIs` says the exact extent: labels are right unless,
  since the last `.origin`, an instruction was padded or a `.space` had a negative
  operand.
* The branch offset is halved before it is compared with a range in bytes
  (`handle.c:495`), so distances of 256 to 511 halfwords are cut silently.  The
  immediate of ADD is cut silently too.
* Tokens left over after an instruction are ignored, an instruction may go on
  over the end of a line or file, CMN is a token no handler takes, and the register
  case of `handle_bracketparse` is never reached.

*Pipelined core*: the disjuncts of `Mishandled`, and what follows from them.
* A load-use stall never ends: the load itself stays in ID/EX (`README.md:22`
  says one cycle).  It also strikes an instruction that only has the load's
  register pair in bits 9:8 without reading it.
* A control transfer stalled in decode is flushed and lost.
* `w_mem_rdata` (`cpu.sv` 71, 239) is driven by nothing, so a load forwarded from
  MEM reads junk.
* A write to csr 0 wins over the flags of a younger instruction
  (`forwarding_unit.sv` 284-300); a half-written stack pointer overlays that of a
  younger PUSH or BL (207-244); MOV from a control register looks for pending
  changes of sp in the wrong bits (103-116).
* An interrupt taken while not asleep lets the instruction in decode execute after
  the frame was pushed, and may push a wrong pc.
* I is not cleared on entry.  WFI with an interrupt pending sleeps once more
  before its handler.  LB and POP leave Z and N, which `isa.md` marks modified.

*Multi-cycle core.*
* An untaken `BL cond, [aN]` waits for ever for a transfer it never asked for
  (`control_unit.sv` 844-847 against 871-874).  `GetsOn` names it (`Stuck`).
* An illegal word raises whatever id `r_int_id` last held; SRA shifts in zeros
  (`>>>` of an unsigned value, `alu.sv`); a handler starts with all flags
  cleared; the reserved flag bits are x and can be seen.
* `r_wb_req` has no reset value, so a build may begin with a transfer nobody asked
  for; the model begins without.

*Both cores.*  ADD of a negative immediate inverts the carry.  The acknowledge stays
up while the core is busy; a device that asks again meanwhile is taken for
acknowledged, and that request is lost.  `Sequential` promises *at most* one
entry for each request.

## What is proved

`InputRingProofs`, for every `N >= 2` and every `Data`:

* `RingInvariant`: `Inv` is inductive.  `TypeOK` and `NoSlotRace` alone are not:
  what keeps the slot free between main's look at `head` and its store is that
  the CPU thread only ever moves `head` *away* from `tail`.  `ProducerInv` says
  so at each of main's positions (its copy of `tail` is current; the room it saw
  is still there), `ConsumerInv` says the mirror image, and `OrderInv` that
  the swapped positions are reached only with `reorder`.
* `RingTypeCorrect`, `RingRaceFree`, `RingStatusHonest`: consequences.  (The type
  invariants are proved, and no run spends a property on them.)
* `RingImplementsFifo`: with `queue` mapped to the slots from `head` up to
  `tail`, every step is a step of `BoundedFifo` or a stutter, in program order.
  The lemmas `ContentsAppend` and `ContentsTail` say what moving `tail` and
  `head` does to that sequence, wrap included.
* `RingImplementsCount`: the same in number only, for any order of stores.

`LifecycleProofs`, for any number of typed lines and any longest `s n`:

* `LifecycleTypeCorrect`, from `TypeInv`: `TypeOK` with "received and queued
  lines together are no more than typed", without which `received <= typed` is
  not inductive.
* `DebuggerKeepsInput` and `StepsAreCommanded`, from `OwnInv`: until `c`,
  `debug_mode` is set, the input blocking, main outside `read()`, and
  `granted` equals the step counter (plus one while an instruction is under way,
  unless the stream has ended and both are 0).
* `StopHolds`: from the actions alone.

The second part of `InputRingProofs` is about `UartStartup`, for every ring size and
number of characters, from `StartupInv`.  The ring's own invariant does not survive the late reset: main may
hold a copy of `tail` from before it and publish what lies below it once more
(`StaleInv`).  The invariant says that those characters are still there, in
order, and that nothing was popped before the reset; `HistoryInv` puts what has
been popped and what is queued in one order.  It gives `StartupTypeCorrect`,
`StartupInOrder` and `StartupLosesNothingOwed`.

`CpuThreadProofs`, for every radix that is a multiple of four, RAM, vector table
and set of sources:

* `CpuTypeCorrect` for any guest, and `CpuDeafParkLasts` from the actions.
* `CpuInvariant` for a trusted guest: `StackInv` gives each recorded frame the
  depth at which it lies (`StackHolds`), byte for byte in `mem`, below those
  before it and within the room.  `ImplementsContract` alone is not inductive: it
  says nothing of *where* an older frame is, and so nothing of whether a push
  overwrites it.
* `CpuImplementsContract`: every step is one of `ControlStack` or a stutter.
  The proof showed that a stack that reaches down to address 0 breaks the
  argument (the pointer of a full one wraps); `CpuAssumption` now asks for three
  bytes of distance, which TLC's instance had by accident.

`BankedMemoryProofs`, for every number and size of banks and windows with
`AddressCount = BankCount^2`: `MemoryInvariant` (`PointerInv`: both pointers of
every window are those of the bank that BANK_SEL reads back), from it
`MemoryPointers`, `MemoryFetches`, `MemoryLoads`, and `MemoryImplementsPool`.  The
last maps three arrays to one pool; that two banks never share a cell of it is a
matter of division and remainder (`CellsApart`).

`AssemblerPassesProofs`, for programs of any length over any items: `AssemblerInv`
says that pass 1's plan is what each item measures at the address planned for
it, that the table holds names at their planned addresses, that pass 2 is where
it was planned to be wherever nothing has parted the passes (`PlacedInv`), and
that bank registers and offset fields are those of the program so far.
`AssemblerLabels`, `AssemblerBranches`, `AssemblerVerdict` and `AssemblerBytes`
follow.  `WellFormed` is what the token structures allow, assumed of `Items`.

`MultiCycleProofs`, for every memory, slave and device: neither `Undivided` nor
`Handshake` depends on what an instruction computes, so `BusInv` is about the
control unit's counters, the request and the bus alone.  `OneTransfer`: the
control unit waits exactly while one transfer is asked for or under way, never
both, with one exception (the untaken BL).  `LockInv`: where transfers belong
together the lock was asked for from the first one on.  `Undivided` alone is
not inductive: it does not say that the transfer under way is locked.
`Moves` states for any clock in which the control unit does not wait what it
leaves behind, one lemma per group of actions; the master's part is
`MovesKeep` and `WaitKeeps`.

`WholeWords` is about what is computed: for every word in memory, every speed of
the slave and every moment at which the device asks, the core goes from boundary
to boundary by one `After` of `WordMachine` or one interrupt entry, the latter
only with interrupts enabled and no oftener than asked.  Boundaries say nothing
of the clocks between them, so the invariant does (`SequenceInv`, in
`MultiCycleSequence`):

* `View` is the machine in the registers, with the store that is asked for or
  under way already made; a wait does not change it, though the slave writes
  its memory meanwhile (`wb_ram_slave` acknowledges a clock after it wrote).
* For each stage of each kind of instruction, and of the entry, `View` is the
  machine of the last boundary with so many bytes pushed or taken off, half of a
  pc replaced, flags already cleared; and the byte being read is the one the rest of
  the instruction needs (`FetchInv`, `PullInv`, `SingleInv`, `LinkInv`,
  `EnterInv`).
* `RequestInv` counts entries against requests, with the acknowledge that is
  still up; `RegisterTypes` keeps registers bytes and flags what `csr_file`
  keeps of them.

One lemma per action (`DoesFetchLow`, `DoesPull`, ...) brings `SequenceInv` from one
stage to the next, or to a boundary where what is left of the instruction is
its `After`.  TLC checked `SequenceInv` on the instance of `multicycle`, as an
INVARIANT of its cfg, before it was proved.  `MemoryPointers` of
`BankedMemoryProofs` likewise has no run of its own: in TLC a broken pointer shows as
a load that disagrees with the pool, or one outside its array.

`BlitterProofs`, for every size of VRAM and of the screen, every sequence of commands and every
value of their registers:

* `Types`: VRAM stays bytes, and a frame never asks its palette for a colour it
  does not have.
* A write replaces one pixel and no other (`PutOne`, by division and
  remainder in each format; `DotPuts`).  What a path does follows by induction along its
  dots (`UpTo`, natural numbers as a well-founded set, since the induction theorem
  with an operator for a parameter is out of reach).
* `NothingElseIsDrawn`: each dot of a rectangle lies in it, each of a line in the box
  of its ends.  `CopiesAreRight`: each cell has one dot, no other dot of the path
  touches its pixel, and its source pixel is still the one from before the command,
  since what overlaps has been read by then.
* `XorComesAway`: a dot given twice changes nothing, but dots may meet, when the
  stride is short.  So the proof shows that any two dots, and hence a dot and a path,
  may be drawn in either order (`XorDotsCommute`, `XorPathCommutes`).
* `FastPathIsRight`: `memset`'s rows are the general path's cells, none of which wraps.
* `LinesAreThin`: after `n` turns the place is `n` along the longer axis and the error
  term is its distance from the true line, within half a step on either side
  (`OnTrack`); so the loop takes exactly one turn for each place of the longer axis
  and meets its end (`LineTrack`).  Proving it showed that the property
  was false of blended lines, whose pixel may keep its colour; `LineIsThin` now
  excludes them.

`PipelineProofs`, for every program, memory and pattern of interrupts:
`PipelineProgress` puts the control unit in one of five phases (`Ready`,
`Transferring`, `Refilling`, `Stopped`, `EnteringOn`) and bounds in each the clocks
since an instruction issued by what the phase's own counter says;
`PipelineGetsOn` follows.  Nine clocks are reached: a software interrupt's.

The assumptions are those in the modules' `ASSUME`s, which TLC evaluates on
every run: sizes are natural numbers with the code's proportions, registers and
vectors lie in their ranges, a machine starts with bytes in its registers and
memory (`MachinesAssumption`), items are well formed.

**Model-checked only.**  All liveness (`NeverIgnoredForever`, `StopStops`,
`StopCompletes`, `PromptGetsTerminal`, `FrameCatchesUp`, `MultiCycle!GetsOn`): the
prover has no fairness.  `Toolchain` and its `Lexer` are RECURSIVE definitions,
which the prover cannot follow.  The three properties
that compare the pipelined core with its program (`InOrder`, `OperandsCurrent`,
`CommittedState`) need an invariant that says what each of four stages still owes
the machine, and have no theorem.  `RunsInSequence` has half of one: that clocks
come to words is `WholeWords`; that `After` of a line's word is what `isa.md` says
of the line is checked line by line.

## Not modelled

* SDL: windows, event decoding, textures, timing; terminal and text formatting;
  how characters become tokens in the lexer.
* Changes of resolution and graphics mode within a behaviour of `Blitter`.
* The breakpoint table and `print_state` (`debugger.c`): array handling and
  printing.  What a breakpoint does to the CPU thread is `Lifecycle`'s.
* Directives cut off by the end of the file; the sizes of the assembler's tables
  (`MAX_SYMBOLS`, `MAX_TOKENS`).
* The single-cycle core: combinational, with the decoder of the others.
* In the pipelined core memories slower than `ram.sv`, self-modifying code, and in
  both cores the unassigned control registers 1 to 5.
* Guest programs, the font, the image converter.

Torn reads of VRAM by the renderer, the loss of a signal before the machine runs,
typed lines discarded by a change of terminal mode, and listings that pop the
input queues are behaviours no document promises against; all but the last are in
the models, and no property forbids them.

## Plan

1. Theorems: `After` against `Sequential!Execute`, kind by kind, which with
   `WholeWords` gives `RunsInSequence`; an invariant for the pipeline's stages.
2. Then, if worth their size: the breakpoint table with deletion in the middle,
   the pipelined core with memories that stall, and the keyboard and UART rings
   composed with `CpuThread`'s counters.
