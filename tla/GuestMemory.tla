----------------------------- MODULE GuestMemory -----------------------------
(***************************************************************************)
(* The memory arch.md describes to a guest program: a pool of banks, some  *)
(* of them read-only, seen through windows that each show one bank, and a  *)
(* second way into the video banks, a port with an address register that   *)
(* may step by itself.                                                     *)
(***************************************************************************)
EXTENDS Naturals

CONSTANTS
  Windows, Banks, Offsets,   \* 8 windows, 256 banks, 8192 offsets
  Bytes,
  ReadOnly,                  \* the ROM banks
  PortBank(_), PortOffset(_),\* where an address of the port lies in the banks
  PortSize                   \* 65536

VARIABLES shown, store, port, steps

vars == <<shown, store, port, steps>>

Init ==
  /\ shown \in [Windows -> Banks]
  /\ store \in [Banks -> [Offsets -> Bytes]]
  /\ port = 0
  /\ steps = [write |-> FALSE, read |-> FALSE]

\* What a program sees at offset o of window w, and at the port.
Load(w, o) == store[shown[w]][o]
PortLoad == store[PortBank(port)][PortOffset(port)]

Deposited(b, o, v) ==
  IF b \in ReadOnly THEN store ELSE [store EXCEPT ![b][o] = v]
Stepped(mode) == IF steps[mode] THEN (port + 1) % PortSize ELSE port

Store(w, o, v) ==
  /\ UNCHANGED <<shown, port, steps>>
  /\ store' = Deposited(shown[w], o, v)

Show(w, b) ==
  /\ shown' = [shown EXCEPT ![w] = b]
  /\ UNCHANGED <<port, steps, store>>

SetPort ==
  /\ port' \in 0 .. (PortSize - 1)
  /\ UNCHANGED <<shown, steps, store>>

SetSteps ==
  /\ steps' \in [{"write", "read"} -> BOOLEAN]
  /\ UNCHANGED <<shown, port, store>>

PortStore(v) ==
  /\ port' = Stepped("write")
  /\ UNCHANGED <<shown, steps>>
  /\ store' = Deposited(PortBank(port), PortOffset(port), v)

\* The step a load through the port makes.
PortLoadStep ==
  /\ port' = Stepped("read")
  /\ UNCHANGED <<shown, steps, store>>

Next ==
  \/ \E w \in Windows, o \in Offsets, v \in Bytes : Store(w, o, v)
  \/ \E w \in Windows, b \in Banks : Show(w, b)
  \/ SetPort
  \/ SetSteps
  \/ \E v \in Bytes : PortStore(v)
  \/ PortLoadStep

Spec == Init /\ [][Next]_vars
=============================================================================
