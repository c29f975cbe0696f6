---------------------------- MODULE PipelineProofs ----------------------------
(***************************************************************************)
(* The pipelined core gets on, for every program, contents of memory and   *)
(* pattern of interrupts: nine clocks, a software interrupt's, are the     *)
(* longest it can go without issuing an instruction.                       *)
(*                                                                         *)
(* What an instruction computes does not matter to this, only where the    *)
(* control unit is: the proof looks at it and at the instruction in        *)
(* decode, phase by phase.  o_stall, w_cond and w_interrupt stay unopened. *)
(***************************************************************************)
EXTENDS Pipeline, TLAPS

-----------------------------------------------------------------------------
(* The kinds of transfer, and one edge of the clock. *)

LEMMA SeveralKinds ==
  ASSUME NEW kind, Several(kind)
  PROVE  /\ LastStage[kind] \in 1..3
         /\ kind \notin {"NOP", "WFI", "SWI", "ILLEGAL", "B"}
BY DEF Several, LastStage

LEMMA Unmishandled ==
  ASSUME ~Mishandled
  PROVE  ~o_stall /\ (Entering => cu.internal \/ cu.wfi)
BY DEF Mishandled

\* What becomes of the control unit's registers, field by field.
LEMMA NextFields ==
  ASSUME Clock
  PROVE  /\ cu'.stage = CASE Deciding /\ Working -> cu.stage + 1 [] ~Deciding -> cu.stage [] OTHER -> 0
         /\ cu'.held = ((Deciding /\ Starts) \/ (cu.held /\ ~(cu.stage = 0 /\ cu.if_stall = 0)))
         /\ cu'.if_stall = NextStall
         /\ cu'.wfi = NextWfi
         /\ cu'.internal = ((cu.internal \/ (Deciding /\ InDecode \in {"SWI", "ILLEGAL"})) /\ ~Entering)
         /\ cu'.int_stage = CASE Entering -> 1 [] cu.int_stage \in 1..3 -> cu.int_stage + 1 [] OTHER -> 0
         /\ cu' = [stage |-> cu'.stage, held |-> cu'.held, if_stall |-> cu'.if_stall, wfi |-> cu'.wfi,
                   internal |-> cu'.internal, int_stage |-> cu'.int_stage]
BY DEF Clock, NextControl

LEMMA NextStages ==
  ASSUME Clock, ControlTypes
  PROVE  /\ Deciding /\ Working => cu'.stage = cu.stage + 1
         /\ ~Deciding => cu'.stage = cu.stage
         /\ Deciding /\ ~Working => cu'.stage = 0
         /\ Entering => cu'.int_stage = 1
         /\ ~Entering /\ cu.int_stage \in {0, 4} => cu'.int_stage = 0
         /\ cu.int_stage \in 1..3 => cu'.int_stage = cu.int_stage + 1
         /\ Restarts => cu'.if_stall = 3
         /\ ~Restarts /\ cu.if_stall > 0 => cu'.if_stall = cu.if_stall - 1
         /\ ~Restarts /\ cu.if_stall = 0 => cu'.if_stall = 0
<1>1. cu.stage \in 0..3 /\ cu.int_stage \in 0..4 /\ cu.if_stall \in 0..3
  BY DEF ControlTypes
<1>2. /\ Deciding /\ Working => cu'.stage = cu.stage + 1
      /\ ~Deciding => cu'.stage = cu.stage
      /\ Deciding /\ ~Working => cu'.stage = 0
  BY NextFields
<1>3. /\ Entering => cu'.int_stage = 1
      /\ ~Entering /\ cu.int_stage \in {0, 4} => cu'.int_stage = 0
      /\ cu.int_stage \in 1..3 => cu'.int_stage = cu.int_stage + 1
  BY <1>1, NextFields DEF Entering
<1>4. /\ Restarts => cu'.if_stall = 3
      /\ ~Restarts /\ cu.if_stall > 0 => cu'.if_stall = cu.if_stall - 1
      /\ ~Restarts /\ cu.if_stall = 0 => cu'.if_stall = 0
  BY <1>1, NextFields DEF NextStall
<1> QED
  BY <1>2, <1>3, <1>4

\* What decode finds after the edge: the instruction it holds, a bubble, or
\* the next one fetched.
LEMMA NextDecode ==
  ASSUME Clock, ControlTypes, ~o_stall
  PROVE  /\ o_hold => ifid' = ifid
         /\ ~o_hold /\ o_if_stall => ~ifid'.real /\ ifid'.kind = "NOP"
         /\ ~o_hold /\ ~o_if_stall => ifid'.real
         /\ ifid' = [inst |-> ifid'.inst, kind |-> ifid'.kind, npc |-> ifid'.npc, real |-> ifid'.real]
         /\ ifid'.real \in BOOLEAN
         /\ ~ifid'.real => ifid'.kind = "NOP"
<1>1. /\ ifid = [inst |-> ifid.inst, kind |-> ifid.kind, npc |-> ifid.npc, real |-> ifid.real]
      /\ ifid.real \in BOOLEAN /\ (~ifid.real => ifid.kind = "NOP")
  BY DEF ControlTypes, InDecode
<1>2. ifid' = NextFetched
  BY DEF Clock
<1>3. CASE o_hold
  BY <1>1, <1>2, <1>3 DEF NextFetched
<1>4. CASE ~o_hold /\ o_if_stall
  <2>1. ifid' = [ifid EXCEPT !.inst = 0, !.kind = "NOP", !.real = FALSE]
    BY <1>2, <1>4 DEF NextFetched
  <2>2. ifid' = [inst |-> 0, kind |-> "NOP", npc |-> ifid.npc, real |-> FALSE]
    BY <1>1, <2>1
  <2> QED
    BY <1>4, <2>2
<1>5. CASE ~o_hold /\ ~o_if_stall
  <2>1. ifid' = [inst |-> InstructionAt(r_pc).word, kind |-> InstructionAt(r_pc).kind,
                 npc |-> (r_pc + 1) % 2^15, real |-> TRUE]
    BY <1>2, <1>5 DEF NextFetched
  <2> QED
    BY <1>5, <2>1
<1> QED
  BY <1>3, <1>4, <1>5

LEMMA NextFlags ==
  ASSUME Clock
  PROVE  cu'.held \in BOOLEAN /\ cu'.wfi \in BOOLEAN /\ cu'.internal \in BOOLEAN
<1>1. ((Deciding /\ Starts) \/ (cu.held /\ ~(cu.stage = 0 /\ cu.if_stall = 0))) \in BOOLEAN
  OBVIOUS
<1>2. NextWfi \in BOOLEAN
  BY DEF NextWfi
<1>3. ((cu.internal \/ (Deciding /\ InDecode \in {"SWI", "ILLEGAL"})) /\ ~Entering) \in BOOLEAN
  OBVIOUS
<1> QED
  BY <1>1, <1>2, <1>3, NextFields, Zenon

LEMMA NextTypes ==
  ASSUME Clock, ControlTypes, ~o_stall, cu'.stage \in 0..3
  PROVE  ControlTypes'
<1>1. cu'.int_stage \in 0..4
  <2>1. cu.int_stage \in 0..4 /\ (Entering \/ ~Entering)
    BY DEF ControlTypes
  <2> QED
    BY <2>1, NextStages DEF Entering
<1>2. cu'.if_stall \in 0..3
  <2>1. cu.if_stall \in 0..3 /\ (Restarts \/ ~Restarts)
    BY DEF ControlTypes
  <2> QED
    BY <2>1, NextStages
<1>3. cu' \in [stage : 0..3, held : BOOLEAN, if_stall : 0..3, wfi : BOOLEAN, internal : BOOLEAN, int_stage : 0..4]
  <2>1. cu'.held \in BOOLEAN /\ cu'.wfi \in BOOLEAN /\ cu'.internal \in BOOLEAN
    BY NextFlags
  <2>2. PICK st \in 0..3, is \in 0..4, fs \in 0..3 :
           st = cu'.stage /\ is = cu'.int_stage /\ fs = cu'.if_stall
    BY <1>1, <1>2
  <2>3. PICK he \in BOOLEAN, wf \in BOOLEAN, in \in BOOLEAN :
           he = cu'.held /\ wf = cu'.wfi /\ in = cu'.internal
    BY <2>1, Zenon
  <2>4. cu' = [stage |-> st, held |-> he, if_stall |-> fs, wfi |-> wf, internal |-> in, int_stage |-> is]
    BY <2>2, <2>3, NextFields, Zenon
  <2> QED
    BY <2>4
<1>4. /\ ifid' = [inst |-> ifid'.inst, kind |-> ifid'.kind, npc |-> ifid'.npc, real |-> ifid'.real]
      /\ ifid'.real \in BOOLEAN
      /\ ~ifid'.real => ifid'.kind = "NOP"
  BY NextDecode
<1> QED
  BY <1>3, <1>4 DEF ControlTypes, InDecode

LEMMA NextWaited ==
  ASSUME Clock, waited \in Nat
  PROVE  /\ waited' \in Nat /\ waited' <= waited + 1
         /\ Issuing \/ spoilt \/ Mishandled \/ (cu.wfi /\ ~w_interrupt) => waited' = 0
BY DEF Clock

-----------------------------------------------------------------------------
(* The phases. *)

LEMMA FiveAndThree == \A n \in Nat : n <= 5 => n + 3 <= 8
OBVIOUS

Phase == Ready \/ Transferring \/ Refilling \/ Stopped \/ EnteringOn

LEMMA ReadyGoesOn ==
  ASSUME Clock, ControlTypes, waited \in Nat, ~Mishandled, Ready
  PROVE  ControlTypes' /\ Phase'
<1>1. /\ ~o_stall /\ ~Entering
      /\ cu.stage = 0 /\ cu.int_stage = 0 /\ cu.if_stall = 0 /\ ~cu.held /\ ~cu.wfi /\ ~cu.internal
      /\ ifid.real
  BY Unmishandled DEF Ready, Resting
<1>2. Deciding /\ ~w_interrupt
  BY <1>1 DEF Deciding, Entering
<1>3. waited' = 0
  BY <1>1, <1>2, NextWaited DEF Issuing
<1>4. cu'.int_stage = 0
  BY <1>1, NextStages
<1>5. CASE Starts
  <2>1. Several(InDecode) /\ Working /\ o_hold
    BY <1>2, <1>5 DEF Starts, Working, o_hold
  <2>2. cu'.stage = 1 /\ ifid' = ifid
    BY <1>1, <1>2, <2>1, NextStages, NextDecode
  <2>3. cu'.held /\ ~cu'.wfi /\ ~cu'.internal
    BY <1>1, <1>2, <1>5, <2>1, NextFields, SeveralKinds DEF NextWfi
  <2>4. InDecode' = InDecode
    BY <2>2 DEF InDecode
  <2>5. Several(ifid'.kind) /\ 1 <= LastStage[ifid'.kind]
    BY <2>1, <2>2, SeveralKinds DEF InDecode
  <2>6. ControlTypes'
    BY <1>1, <2>2, NextTypes
  <2>7. Transferring'
    BY <1>3, <1>4, <2>2, <2>3, <2>5 DEF Transferring, InDecode, Several
  <2> QED
    BY <2>6, <2>7 DEF Phase
<1>6. CASE ~Starts
  <2>1. ~Working /\ ~o_hold
    BY <1>1, <1>6 DEF Working, o_hold
  <2>2. cu'.stage = 0 /\ ~cu'.held
    BY <1>1, <1>2, <1>6, <2>1, NextStages, NextFields
  <2>3. ControlTypes'
    BY <1>1, <2>2, NextTypes
  <2>4. cu'.wfi = (InDecode = "WFI") /\ cu'.internal = (InDecode \in {"SWI", "ILLEGAL"})
    BY <1>1, <1>2, NextFields DEF NextWfi
  <2>5. CASE InDecode \in {"WFI", "SWI", "ILLEGAL"}
    <3>1. o_if_stall
      BY <1>2, <2>5 DEF o_if_stall, Leaves
    <3>2. ~ifid'.real
      BY <1>1, <2>1, <3>1, NextDecode
    <3>3. Stopped'
      BY <1>3, <1>4, <2>2, <2>4, <2>5, <3>2 DEF Stopped
    <3> QED
      BY <2>3, <3>3 DEF Phase
  <2>6. CASE InDecode = "B" /\ w_cond
    <3>1. o_if_stall /\ Restarts
      BY <1>2, <2>6 DEF o_if_stall, Leaves, Restarts
    <3>2. ~ifid'.real /\ cu'.if_stall = 3
      BY <1>1, <2>1, <3>1, NextDecode, NextStages
    <3>3. Refilling'
      <4>1. ~cu'.wfi /\ ~cu'.internal
        BY <2>4, <2>6
      <4>2. waited' + cu'.if_stall <= 8
        BY <1>3, <3>2
      <4> QED
        BY <1>4, <2>2, <3>2, <4>1, <4>2 DEF Refilling, Resting
    <3> QED
      BY <2>3, <3>3 DEF Phase
  <2>7. CASE InDecode \notin {"WFI", "SWI", "ILLEGAL"} /\ ~(InDecode = "B" /\ w_cond)
    <3>1. ~o_if_stall /\ ~Restarts
      BY <1>1, <1>2, <1>6, <2>7 DEF o_if_stall, Leaves, Restarts
    <3>2. ifid'.real /\ cu'.if_stall = 0
      BY <1>1, <2>1, <3>1, NextDecode, NextStages
    <3>3. Ready'
      <4>1. ~cu'.wfi /\ ~cu'.internal
        BY <2>4, <2>7
      <4> QED
        BY <1>3, <1>4, <2>2, <3>2, <4>1 DEF Ready, Resting
    <3> QED
      BY <2>3, <3>3 DEF Phase
  <2> QED
    BY <2>5, <2>6, <2>7
<1> QED
  BY <1>5, <1>6

LEMMA TransferringGoesOn ==
  ASSUME Clock, ControlTypes, waited \in Nat, ~Mishandled, Transferring
  PROVE  ControlTypes' /\ Phase'
<1>1. /\ ~o_stall /\ ~Entering
      /\ cu.stage \in 1..3 /\ cu.held /\ Several(InDecode) /\ cu.stage <= LastStage[InDecode]
      /\ cu.int_stage = 0 /\ ~cu.wfi /\ ~cu.internal /\ waited < cu.stage
  BY Unmishandled DEF Transferring, ControlTypes, Entering
<1>2. Deciding /\ o_hold /\ LastStage[InDecode] \in 1..3
  BY <1>1, SeveralKinds DEF Deciding, o_hold
<1>3. /\ ifid' = ifid /\ cu'.int_stage = 0
      /\ cu'.held /\ ~cu'.wfi /\ ~cu'.internal
  <2>1. ifid' = ifid
    BY <1>1, <1>2, NextDecode
  <2>2. cu'.int_stage = 0
    BY <1>1, NextStages
  <2>3. InDecode \notin {"WFI", "SWI", "ILLEGAL"}
    BY <1>1, SeveralKinds
  <2>4. cu'.held /\ ~cu'.wfi /\ ~cu'.internal
    <3>1. cu.held /\ cu.stage # 0
      BY <1>1
    <3>2. cu'.held
      BY <3>1, NextFields, Zenon
    <3>3. ~cu'.wfi /\ ~cu'.internal
      BY <1>1, <2>3, NextFields DEF NextWfi
    <3> QED
      BY <3>2, <3>3
  <2> QED
    BY <2>1, <2>2, <2>4
<1>4. waited' \in Nat /\ waited' <= cu.stage
  BY <1>1, NextWaited
<1>5. Several(ifid'.kind) /\ LastStage[ifid'.kind] = LastStage[InDecode]
  BY <1>1, <1>3 DEF InDecode
<1>6. CASE cu.stage < LastStage[InDecode]
  <2>1. cu'.stage = cu.stage + 1
    BY <1>1, <1>2, <1>6, NextStages DEF Working
  <2>2. ControlTypes'
    BY <1>1, <1>2, <1>6, <2>1, NextTypes
  <2>3. Transferring'
    BY <1>1, <1>2, <1>3, <1>4, <1>5, <1>6, <2>1 DEF Transferring, InDecode, Several
  <2> QED
    BY <2>2, <2>3 DEF Phase
<1>7. CASE cu.stage = LastStage[InDecode]
  <2>1. ~Working /\ Restarts
    BY <1>1, <1>2, <1>7 DEF Working, Starts, Restarts
  <2>2. cu'.stage = 0 /\ cu'.if_stall = 3
    BY <1>2, <2>1, NextStages
  <2>3. ControlTypes'
    BY <1>1, <2>2, NextTypes
  <2>4. waited' + cu'.if_stall <= 8
    <3>1. waited' \in Nat /\ waited' <= 5
      BY <1>1, <1>4
    <3> QED
      BY <2>2, <3>1, FiveAndThree
  <2>5. Refilling'
    BY <1>3, <1>5, <2>2, <2>4 DEF Refilling, Resting, InDecode, Several
  <2> QED
    BY <2>3, <2>5 DEF Phase
<1> QED
  BY <1>1, <1>2, <1>6, <1>7

LEMMA RefillingGoesOn ==
  ASSUME Clock, ControlTypes, waited \in Nat, ~Mishandled, Refilling
  PROVE  ControlTypes' /\ Phase'
<1>1. /\ ~o_stall /\ ~Entering
      /\ cu.stage = 0 /\ cu.int_stage = 0 /\ ~cu.wfi /\ ~cu.internal
      /\ ~ifid.real \/ (cu.held /\ Several(InDecode))
      /\ waited + cu.if_stall <= 8 /\ cu.if_stall \in 0..3
  BY Unmishandled DEF Refilling, Resting, ControlTypes
<1>2. Deciding /\ ~w_interrupt
  BY <1>1 DEF Deciding, Entering
<1>3. InDecode \notin {"WFI", "SWI", "ILLEGAL", "B"} /\ ~Starts
  <2>1. CASE ~ifid.real
    <3>1. InDecode = "NOP"
      BY <2>1 DEF ControlTypes
    <3>2. ~Several("NOP")
      BY DEF Several, LastStage
    <3> QED
      BY <3>1, <3>2 DEF Starts
  <2>2. CASE cu.held /\ Several(InDecode)
    BY <2>2, SeveralKinds DEF Starts
  <2> QED
    BY <1>1, <2>1, <2>2
<1>4. ~Working /\ ~o_hold /\ ~Restarts /\ ~Leaves
  BY <1>1, <1>3 DEF Working, o_hold, Restarts, Leaves
<1>5. cu'.stage = 0 /\ cu'.int_stage = 0 /\ ~cu'.wfi /\ ~cu'.internal
  BY <1>1, <1>2, <1>3, <1>4, NextStages, NextFields DEF NextWfi
<1>6. ControlTypes'
  BY <1>1, <1>5, NextTypes
<1>7. waited' \in Nat /\ waited' <= waited + 1
  BY NextWaited
<1>8. CASE cu.if_stall > 0
  <2>1. ~ifid'.real /\ cu'.if_stall = cu.if_stall - 1
    BY <1>1, <1>4, <1>8, NextDecode, NextStages DEF o_if_stall
  <2>2. Refilling'
    BY <1>1, <1>5, <1>7, <2>1 DEF Refilling, Resting
  <2> QED
    BY <1>6, <2>2 DEF Phase
<1>9. CASE cu.if_stall = 0
  <2>1. ~o_if_stall
    BY <1>1, <1>2, <1>4, <1>9 DEF o_if_stall
  <2>2. ifid'.real /\ cu'.if_stall = 0 /\ ~cu'.held
    BY <1>1, <1>3, <1>4, <1>9, <2>1, NextDecode, NextStages, NextFields
  <2>3. Ready'
    BY <1>1, <1>5, <1>7, <1>9, <2>2 DEF Ready, Resting
  <2> QED
    BY <1>6, <2>3 DEF Phase
<1> QED
  BY <1>1, <1>8, <1>9

LEMMA StoppedGoesOn ==
  ASSUME Clock, ControlTypes, waited \in Nat, ~Mishandled, Stopped
  PROVE  ControlTypes' /\ Phase'
<1>1. /\ ~o_stall /\ cu.stage = 0 /\ cu.int_stage = 0 /\ (cu.wfi \/ cu.internal)
      /\ ~cu.held /\ ~ifid.real /\ waited = 0 /\ InDecode = "NOP"
  BY Unmishandled DEF Stopped, ControlTypes
<1>2. ~Deciding /\ cu'.stage = 0
  <2>1. ~Deciding
    BY <1>1 DEF Deciding, w_interrupt
  <2> QED
    BY <1>1, <2>1, NextStages
<1>3. ControlTypes' /\ ~cu'.held
  <2>1. ControlTypes'
    BY <1>1, <1>2, NextTypes
  <2>2. ~cu'.held
    BY <1>1, <1>2, NextFields
  <2> QED
    BY <2>1, <2>2
<1>4. CASE w_interrupt
  <2>1. Entering /\ o_hold
    BY <1>1, <1>4 DEF Entering, o_hold
  <2>2. ifid' = ifid /\ cu'.int_stage = 1 /\ ~cu'.wfi /\ ~cu'.internal
    BY <1>1, <2>1, NextDecode, NextStages, NextFields DEF NextWfi
  <2>3. waited' \in Nat /\ waited' <= 1
    BY <1>1, NextWaited
  <2>4. EnteringOn'
    BY <1>1, <1>2, <1>3, <2>2, <2>3 DEF EnteringOn
  <2> QED
    BY <1>3, <2>4 DEF Phase
<1>5. CASE ~w_interrupt
  <2>1. cu.wfi /\ ~Entering /\ ~o_hold /\ o_if_stall
    BY <1>1, <1>2, <1>5 DEF w_interrupt, Entering, o_hold, o_if_stall
  <2>2. ~ifid'.real /\ cu'.int_stage = 0 /\ cu'.wfi
    BY <1>1, <2>1, NextDecode, NextStages, NextFields DEF NextWfi
  <2>3. waited' = 0
    BY <1>5, <2>1, NextWaited
  <2>4. Stopped'
    BY <1>2, <1>3, <2>2, <2>3 DEF Stopped
  <2> QED
    BY <1>3, <2>4 DEF Phase
<1> QED
  BY <1>4, <1>5

LEMMA EnteringGoesOn ==
  ASSUME Clock, ControlTypes, waited \in Nat, ~Mishandled, EnteringOn
  PROVE  ControlTypes' /\ Phase'
<1>1. /\ ~o_stall /\ ~Entering /\ cu.stage = 0 /\ cu.int_stage \in 1..4 /\ ~cu.wfi /\ ~cu.internal
      /\ ~cu.held /\ ~ifid.real /\ waited <= cu.int_stage
  BY Unmishandled DEF EnteringOn, ControlTypes, Entering
<1>2. ~Deciding /\ o_hold
  BY <1>1 DEF Deciding, o_hold
<1>3. /\ ifid' = ifid /\ cu'.stage = 0 /\ ~cu'.held /\ ~cu'.wfi /\ ~cu'.internal
  BY <1>1, <1>2, NextDecode, NextStages, NextFields DEF NextWfi
<1>4. ControlTypes'
  BY <1>1, <1>3, NextTypes
<1>5. waited' \in Nat /\ waited' <= cu.int_stage + 1
  BY <1>1, NextWaited
<1>6. CASE cu.int_stage = 4
  <2>1. cu'.int_stage = 0 /\ cu'.if_stall = 3
    BY <1>1, <1>6, NextStages DEF Restarts
  <2>2. waited' \in Nat /\ waited' <= 5
    BY <1>5, <1>6
  <2>3. waited' + cu'.if_stall <= 8
    BY <2>1, <2>2, FiveAndThree
  <2>4. ~ifid'.real
    BY <1>1, <1>3
  <2>5. Refilling'
    BY <1>3, <2>1, <2>3, <2>4 DEF Refilling, Resting
  <2> QED
    BY <1>4, <2>5 DEF Phase
<1>7. CASE cu.int_stage \in 1..3
  <2>1. cu'.int_stage = cu.int_stage + 1
    BY <1>7, NextStages
  <2>2. EnteringOn'
    BY <1>1, <1>3, <1>5, <1>7, <2>1 DEF EnteringOn
  <2> QED
    BY <1>4, <2>2 DEF Phase
<1> QED
  BY <1>1, <1>6, <1>7

-----------------------------------------------------------------------------
(* The invariant. *)

LEMMA InitProgressInv == Init => ProgressInv
<1> SUFFICES ASSUME Init PROVE ProgressInv
  OBVIOUS
<1>1. /\ cu = [stage |-> 0, held |-> FALSE, if_stall |-> 0, wfi |-> FALSE, internal |-> FALSE, int_stage |-> 0]
      /\ ifid = [inst |-> 0, kind |-> "NOP", npc |-> 0, real |-> FALSE]
      /\ spoilt = FALSE /\ waited = 0
  BY DEF Init, Off
<1>2. ControlTypes
  BY <1>1 DEF ControlTypes, InDecode
<1>3. Refilling
  BY <1>1 DEF Refilling, Resting
<1> QED
  BY <1>1, <1>2, <1>3 DEF ProgressInv

LEMMA ClockGoesOn == ASSUME ProgressInv, Clock PROVE ProgressInv'
<1>1. spoilt \in BOOLEAN /\ waited \in Nat /\ (spoilt => waited = 0)
  BY DEF ProgressInv
<1>2. spoilt' = (spoilt \/ Mishandled)
  BY DEF Clock
<1>3. waited' \in Nat /\ (spoilt \/ Mishandled => waited' = 0)
  BY <1>1, NextWaited
<1>4. spoilt' \in BOOLEAN /\ (spoilt' => waited' = 0) /\ (~spoilt' => ~spoilt /\ ~Mishandled)
  BY <1>2, <1>3
<1>5. ASSUME ~spoilt' PROVE ControlTypes' /\ Phase'
  <2>1. ControlTypes /\ ~Mishandled /\ Phase
    BY <1>4, <1>5 DEF ProgressInv, Phase
  <2> QED
    BY <1>1, <2>1, ReadyGoesOn, TransferringGoesOn, RefillingGoesOn, StoppedGoesOn, EnteringGoesOn
    DEF Phase
<1> QED
  BY <1>3, <1>4, <1>5 DEF ProgressInv, Phase

LEMMA NextProgressInv == ProgressInv /\ [Next]_vars => ProgressInv'
<1> SUFFICES ASSUME ProgressInv, [Next]_vars PROVE ProgressInv'
  OBVIOUS
<1>1. CASE Clock
  BY <1>1, ClockGoesOn
<1>2. CASE UNCHANGED <<cu, ifid, spoilt, waited>>
  BY <1>2 DEF ProgressInv, ControlTypes, Ready, Transferring, Refilling, Stopped, EnteringOn, Resting,
     InDecode, Several
<1> QED
  BY <1>1, <1>2 DEF Next, Raise, vars

\* The control unit is always in one of its phases, and has been waiting no
\* longer than that phase explains.
THEOREM PipelineProgress == Spec => []ProgressInv
BY InitProgressInv, NextProgressInv, PTL DEF Spec

\* Up to the first clock the core mishandles, it never goes ten clocks without
\* issuing an instruction unless it sleeps: no program, memory or interrupt
\* stops it.
THEOREM PipelineGetsOn == Spec => []GetsOn
<1>1. ProgressInv => GetsOn
  BY DEF ProgressInv, ControlTypes, GetsOn, Ready, Transferring, Refilling, Stopped, EnteringOn
<1> QED
  BY <1>1, PipelineProgress, PTL
===============================================================================
