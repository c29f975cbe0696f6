----------------------------- MODULE Execution ------------------------------
(***************************************************************************)
(* cpu.c: what the emulator's CPU makes of a word.  The machine is a       *)
(* record cpu of the fields of struct VirtualMachine it touches.  Memory   *)
(* is a sample of RAM addresses, DOMAIN mem: elsewhere loads give 0 and    *)
(* stores are dropped, as in a window without a bank (BankedMemory has     *)
(* the windows).  pc has been advanced by the fetch.                       *)
(*                                                                         *)
(* An instruction has a set of outcomes: none if the word is illegal, two  *)
(* where a shift by 32 or more is undefined in C.                          *)
(***************************************************************************)
EXTENDS Integers, Sequences, ByteLogic

Field(w, low, n) == (w \div 2^low) % 2^n
dst(w) == Field(w, 13, 3)
src(w) == Field(w, 10, 3)
mod(w) == Field(w, 7, 3)
sign_extend(v, bits) == IF v >= 2^(bits - 1) THEN v - 2^bits ELSE v
Top(v) == Field(v, 7, 1)
SetIf(b, weight) == IF b THEN weight ELSE 0

memory_read(cpu, a) == IF a \in DOMAIN cpu.mem THEN cpu.mem[a] ELSE 0
memory_write(cpu, a, b) == IF a \in DOMAIN cpu.mem THEN [cpu EXCEPT !.mem[a] = b] ELSE cpu
sp(cpu) == cpu.csr[7] * 256 + cpu.csr[6]
SetSp(cpu, a) == [cpu EXCEPT !.csr[7] = (a \div 256) % 256, !.csr[6] = a % 256]
push(cpu, b) == SetSp(memory_write(cpu, sp(cpu), b), (sp(cpu) - 1) % 65536)
push_word(cpu, v) == push(push(cpu, v \div 256), v % 256)
Above(cpu, n) == memory_read(cpu, (sp(cpu) + n) % 65536)
Release(cpu, n) == SetSp(cpu, (sp(cpu) + n) % 65536)

\* The three set_flags_... functions, on a 16-bit result.
set_flags(cpu, res, overflow) ==
    [cpu EXCEPT !.csr[0] = 16 * (@ \div 16) + SetIf(res > 255, 1) + SetIf(res % 256 = 0, 2)
                         + SetIf(Top(res) = 1, 4) + SetIf(overflow, 8)]
set_flags_logic(cpu, res) == set_flags(cpu, res, FALSE)
set_flags_add(cpu, a, b, res) == set_flags(cpu, res, Top(a) # Top(res) /\ Top(b) # Top(res))
set_flags_sub(cpu, a, b, res) == set_flags(cpu, res, Top(a) # Top(b) /\ Top(a) # Top(res))

check_condition(cpu, cond) ==
    LET set == Field(cpu.csr[0], <<1, 0, 2, 3>>[(cond \div 2) + 1], 1) = 1
    IN  cond = 7 \/ (set <=> cond % 2 = 0)

Put(cpu, d, res) == [cpu EXCEPT !.gpr[d] = res % 256]
Logic(cpu, d, res) == set_flags_logic(Put(cpu, d, res), res)

trigger_interrupt(cpu, id) ==
    LET saved == push(push_word(cpu, cpu.pc), cpu.csr[0])
        vector == 65280 + 2 * (id % 128)
    IN  [saved EXCEPT !.csr[0] = @ % 128, !.wait_for_interrupt = FALSE,
                      !.pc = memory_read(saved, vector) + 256 * memory_read(saved, vector + 1)]

\* A taken branch to a pair of registers, or over imm bytes.
BranchTo(cpu, cond, link, target) ==
    IF ~check_condition(cpu, cond) THEN cpu
    ELSE [(IF link THEN push_word(cpu, cpu.pc) ELSE cpu) EXCEPT !.pc = target % 65536]
PairAt(cpu, w) == LET n == 2 * Field(w, 8, 2) IN cpu.gpr[n] + 256 * cpu.gpr[n + 1]

SoftwareInterrupt(cpu, w) ==
    LET id == cpu.gpr[src(w)] % 128
        entered == trigger_interrupt(cpu, id)
    IN  [entered EXCEPT !.running = @ /\ id # 0, !.debug_mode = @ \/ id = 1]

execute_op0(cpu, w) ==
    LET s == cpu.gpr[src(w)]
        m == cpu.gpr[mod(w)]
        carry == cpu.csr[0] % 2
        op10 == Field(w, 0, 10)
        onPair == Field(w, 10, 3) = 0
    IN  CASE w = 0 -> {cpu}
          [] w = 8192 -> {[Release(cpu, 2) EXCEPT !.pc = Above(cpu, 1) + 256 * Above(cpu, 2)]}
          [] w = 16384 -> {[cpu EXCEPT !.wait_for_interrupt = TRUE]}
          [] w = 1024 -> {[Release(cpu, 3) EXCEPT !.csr[0] = Above(cpu, 1),
                                                  !.pc = Above(cpu, 2) + 256 * Above(cpu, 3)]}
          [] Field(w, 0, 8) = 112 /\ onPair -> {BranchTo(cpu, dst(w), FALSE, PairAt(cpu, w))}
          [] Field(w, 0, 8) = 240 /\ onPair -> {BranchTo(cpu, dst(w), TRUE, PairAt(cpu, w))}
          [] op10 = 128 /\ dst(w) = 0 -> {SoftwareInterrupt(cpu, w)}
          [] op10 = 128 /\ dst(w) = 1 -> {push(cpu, s)}
          [] Field(w, 0, 13) = 256 -> {Logic(Release(cpu, 1), dst(w), Above(cpu, 1))}
          [] op10 = 16 -> {Logic(cpu, dst(w), cpu.csr[src(w)])}
          [] op10 = 144 -> {[cpu EXCEPT !.csr[dst(w)] = s]}
          [] op10 = 272 -> {Logic(cpu, dst(w), s + carry)}
          [] op10 = 400 -> {Logic(cpu, dst(w), s + 255 + carry)}
          [] Field(w, 0, 7) = 32 /\ dst(w) = 0 -> {set_flags_sub(cpu, s, m, s + (255 - m) + 1)}
          [] Field(w, 0, 7) = 32 /\ dst(w) = 1 -> {set_flags_logic(cpu, s & m)}
          [] OTHER -> {}

\* The destination is written first: gpr[src] and gpr[mod] in the flags'
\* arguments are read again, after it.
Arithmetic(cpu, w) ==
    LET s == cpu.gpr[src(w)]
        m == cpu.gpr[mod(w)]
        carry == cpu.csr[0] % 2
        op == Field(w, 4, 3)
        res == <<s + (255 - m) + 1, s + (255 - m) + carry, s + m, s + m + carry>>[op + 1]
        after == Put(cpu, dst(w), res)
    IN  IF op <= 1 THEN set_flags_sub(after, after.gpr[src(w)], after.gpr[mod(w)], res)
        ELSE set_flags_add(after, after.gpr[src(w)], after.gpr[mod(w)], res)

Bitwise3(cpu, w) ==
    LET s == cpu.gpr[src(w)]
        m == cpu.gpr[mod(w)]
        op == Field(w, 4, 3)
    IN  Logic(cpu, dst(w), CASE op = 4 -> s & m [] op = 5 -> s | m
                             [] op = 6 -> 255 - (s | m) [] op = 7 -> s ^^ m)

\* Shifts work on an int: sixteen places already shift everything out.  By 32
\* or more the machine's shift takes the count modulo 32, or shifts all out.
Counts(n) == LET cap(k) == IF k > 16 THEN 16 ELSE k
             IN  IF n < 32 THEN {cap(n)} ELSE {cap(n % 32), 16}
Shifted(op, x, n) == CASE op % 4 = 0 -> (x * 2^n) % 65536
                       [] op % 4 = 1 -> x \div 2^n
                       [] op % 4 = 2 -> (sign_extend(x, 8) \div 2^n) % 256
Shifts(cpu, w) ==
    LET op == Field(w, 4, 3)
        counts == IF op < 4 THEN Counts(cpu.gpr[mod(w)]) ELSE {mod(w)}
    IN  IF op % 4 = 3 THEN {}
        ELSE {Logic(cpu, dst(w), Shifted(op, cpu.gpr[src(w)], n)) : n \in counts}

AddImmediate(cpu, w) ==
    LET imm == sign_extend(Field(w, 4, 3) * 8 + Field(w, 7, 3), 6) % 256
        res == cpu.gpr[src(w)] + imm
        after == Put(cpu, dst(w), res)
    IN  set_flags_add(after, after.gpr[src(w)], imm, res)

Offset7(high, w) == sign_extend(high * 16 + Field(w, 4, 4), 7)

decode_execute(cpu, w) ==
    LET op == w % 16
        over == cpu.pc + 2 * sign_extend(Field(w, 4, 9), 9)
        li == sign_extend(Field(w, 5, 8), 8) % 65536
    IN  CASE op = 0 -> execute_op0(cpu, w)
          [] op = 1 -> {IF Field(w, 4, 3) < 4 THEN Arithmetic(cpu, w) ELSE Bitwise3(cpu, w)}
          [] op = 2 -> Shifts(cpu, w)
          [] op = 10 -> {Logic(cpu, dst(w), li)}
          [] op = 11 -> {AddImmediate(cpu, w)}
          [] op = 12 -> {memory_write(cpu, (PairAt(cpu, w) + Offset7(dst(w), w)) % 65536, cpu.gpr[src(w)])}
          [] op = 13 -> {Logic(cpu, dst(w), memory_read(cpu, (PairAt(cpu, w) + Offset7(src(w), w)) % 65536))}
          [] op = 14 -> {BranchTo(cpu, dst(w), FALSE, over)}
          [] op = 15 -> {BranchTo(cpu, dst(w), TRUE, over)}
          [] OTHER -> {}

Legal(w) == LET any == [gpr |-> [r \in 0..7 |-> 0], csr |-> [r \in 0..7 |-> 0], pc |-> 0, mem |-> <<>>,
                        wait_for_interrupt |-> FALSE, running |-> TRUE, debug_mode |-> FALSE]
            IN  decode_execute(any, w) # {}

\* The label "illegal", and what the loop of main.c does after an instruction.
Illegal(cpu) == [trigger_interrupt(cpu, 2) EXCEPT !.pc = 3844, !.running = FALSE]
Retire(cpu) == [cpu EXCEPT !.csr = [r \in 0..7 |-> IF r \in 1..5 THEN 0 ELSE @[r]],
                           !.csr[0] = (@ % 16) + 128 * (@ \div 128)]
=============================================================================
