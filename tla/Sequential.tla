----------------------------- MODULE Sequential -----------------------------
(***************************************************************************)
(* What the multi-cycle core promises its program, however long the bus    *)
(* takes: instructions one at a time, each of them whole, and an interrupt *)
(* between two of them, at most once for each time a device asked.         *)
(*                                                                         *)
(* Where the core departs from isa.md for good the promise is the core's:  *)
(* LB, POP and MOV from a control register leave the flags alone, SRA does *)
(* not keep the sign, a handler starts with all flags clear, and an        *)
(* illegal word raises whatever interrupt r_int_id names.                  *)
(***************************************************************************)
EXTENDS WordMachine

CONSTANTS Lines,     \* the line that each word of the programs stands for
          DeviceId   \* the interrupt the device asks for, 0..127

VARIABLES machine,
          asked, taken  \* how often the device asked, and was served

vars == <<machine, asked, taken>>

KeepsFlags(line) == \/ line[1].v \in {"LB", "POP"}
                    \/ line[1].v = "MOV" /\ line[3].v >= 20
Unsigned(line) == IF line[1].v = "SRA" THEN [line EXCEPT ![1].v = "SRL"] ELSE line

\* The machine may start with any contents.
Init == asked = 0 /\ taken = 0

Execute ==
    /\ ~machine.wait_for_interrupt
    /\ LET line == Lines[WordAt(machine)]
           after == Promised(machine, Unsigned(line), KeepsFlags(line), machine'.csr[0])
       IN  CASE line[1].t = "bad" -> \E id \in 0..127 : machine' = Entered(Past(machine), id, Cleared)
             [] line[1].v = "SWI" -> machine' = [after EXCEPT !.csr[0] = Cleared]
             [] OTHER -> machine' = [after EXCEPT !.csr[0] = Kept(@) + Cleared]
    /\ UNCHANGED <<asked, taken>>

Interrupt ==
    /\ machine.csr[0] >= 128 /\ taken < asked
    /\ machine' = Entered(machine, DeviceId, Cleared)
    /\ taken' = taken + 1
    /\ UNCHANGED asked

Ask == asked' = asked + 1 /\ UNCHANGED <<machine, taken>>

Next == Execute \/ Interrupt \/ Ask
Spec == Init /\ [][Next]_vars
=============================================================================
