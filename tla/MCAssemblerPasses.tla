--------------------------- MODULE MCAssemblerPasses ---------------------------
(* Small programs for AssemblerPasses: one name, and one item or two of every  *)
(* kind, chosen so that addresses become odd, negative and larger than memory. *)
EXTENDS AssemblerPasses

MCItems == {
  [kind |-> "code"],
  [kind |-> "branch", name |-> "L"],
  [kind |-> "label", name |-> "L"],
  [kind |-> "string", size |-> 2, zero |-> TRUE],
  [kind |-> "number", size |-> 2],
  [kind |-> "symbol", name |-> "L", size |-> 4],
  [kind |-> "half", name |-> "L"],
  [kind |-> "align", size |-> 4],
  [kind |-> "origin", to |-> 14],
  [kind |-> "origin", to |-> 3],
  [kind |-> "space", size |-> -1],
  [kind |-> "space", size |-> 3],
  [kind |-> "equ", name |-> "L", value |-> 18],
  [kind |-> "bank", window |-> 0, bank |-> 5],
  [kind |-> "bank", window |-> 3, bank |-> 6],
  [kind |-> "unknown"]}

================================================================================
