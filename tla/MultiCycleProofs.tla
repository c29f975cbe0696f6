--------------------------- MODULE MultiCycleProofs ---------------------------
(***************************************************************************)
(* The multi-cycle core and its bus, for every program and contents of     *)
(* memory, a slave that answers whenever it likes and a device that asks   *)
(* whenever it likes: the handshake with the master is kept, what takes    *)
(* several transfers is not divided, and the clocks come to whole words    *)
(* and whole interrupt entries.                                            *)
(*                                                                         *)
(* The first two do not depend on what an instruction computes, and their  *)
(* proofs look at the control unit's counters, the request and the bus     *)
(* alone.  The third follows the machine of WordMachine through every      *)
(* clock: one lemma per action (Does...) brings the machine in the         *)
(* registers from what SequenceInv says of one stage to what it says of    *)
(* the next.                                                               *)
(***************************************************************************)
EXTENDS MultiCycleSequence, TLAPS

-----------------------------------------------------------------------------
(* The master. *)

LEMMA BusCases ==
  ASSUME ControlInv, NEW ready \in BOOLEAN, ready => bus.stb
  PROVE  /\ NextBus(ready) \in [cyc : BOOLEAN, stb : BOOLEAN, we : BOOLEAN, lock : BOOLEAN]
         /\ bus.stb /\ ready => ~NextBus(ready).stb /\ NextBus(ready).cyc = bus.lock
         /\ bus.stb /\ ~ready => NextBus(ready) = bus
         /\ ~bus.stb /\ request.req => /\ NextBus(ready).stb /\ NextBus(ready).cyc
                                       /\ NextBus(ready).lock = request.lock
         /\ ~bus.stb /\ ~request.req => ~NextBus(ready).stb
BY DEF ControlInv, NextBus, Opened

-----------------------------------------------------------------------------
(* The control unit. *)

\* Every clock in which it does not wait: what it waited for has come, it asks
\* for the next transfer just if it is going to wait, and locks it where the
\* next one belongs with it.
Moves(ready) ==
  /\ Waiting => ready
  /\ cu' \in [stage : 0..6, int_stage : 0..5, internal : BOOLEAN, wfi : BOOLEAN]
  /\ request' \in [req : BOOLEAN, we : BOOLEAN, lock : BOOLEAN]
  /\ cu'.stage = 0 \/ cu'.int_stage = 0
  /\ cu'.stage > 3 => InDecode' \in Transfers
  /\ cu'.stage > 4 => InDecode' \in {"RET", "RETI", "BL"}
  /\ cu'.stage > 5 => InDecode' = "RETI"
  /\ request'.req => Waiting' /\ (Together' => request'.lock)
  /\ Waiting' => request'.req \/ (cu'.stage = 4 /\ InDecode' = "BL")
  /\ Halfway' => Waiting /\ Together

LEMMA Staged ==
  ASSUME ControlInv, NEW stage \in 0..6, To(stage)
  PROVE  /\ cu'.stage = stage /\ cu'.int_stage = cu.int_stage
         /\ cu' \in [stage : 0..6, int_stage : 0..5, internal : BOOLEAN, wfi : BOOLEAN]
BY DEF ControlInv, To

CuType == [stage : 0..6, int_stage : 0..5, internal : BOOLEAN, wfi : BOOLEAN]
LEMMA StageSet ==
  ASSUME cu \in CuType, NEW n \in 0..6, NEW w \in BOOLEAN, NEW i \in BOOLEAN,
         cu' = [cu EXCEPT !.stage = n, !.wfi = w, !.internal = i]
  PROVE  cu' \in CuType /\ cu'.stage = n /\ cu'.int_stage = cu.int_stage
BY DEF CuType

LEMMA IntStageSet ==
  ASSUME cu \in CuType, NEW n \in 0..5, NEW w \in BOOLEAN, NEW i \in BOOLEAN,
         cu' = [cu EXCEPT !.int_stage = n, !.wfi = w, !.internal = i]
  PROVE  cu' \in CuType /\ cu'.int_stage = n /\ cu'.stage = cu.stage
BY DEF CuType

LEMMA MovesIdle ==
  ASSUME ControlInv, NEW ready \in BOOLEAN, FetchLow \/ Enter
  PROVE  Moves(ready)
<1>1. CASE FetchLow
  <2>1. /\ cu.stage = 0 /\ cu.int_stage = 0 /\ To(1)
        /\ request' = [req |-> TRUE, we |-> FALSE, lock |-> TRUE]
    BY <1>1 DEF FetchLow, Idle, Ask
  <2>2. /\ cu'.stage = 1 /\ cu'.int_stage = 0
        /\ cu' \in [stage : 0..6, int_stage : 0..5, internal : BOOLEAN, wfi : BOOLEAN]
    BY <2>1, Staged
  <2> QED
    BY <2>1, <2>2 DEF Moves, Waiting, Together, Halfway
<1>2. CASE Enter
  <2>1. /\ cu.stage = 0 /\ cu.int_stage = 0
        /\ cu' = [cu EXCEPT !.int_stage = 1, !.wfi = FALSE, !.internal = FALSE]
        /\ request' = [req |-> TRUE, we |-> TRUE, lock |-> TRUE]
    BY <1>2 DEF Enter, Idle, PushByte, Send
  <2>2. cu \in CuType /\ 1 \in 0..5 /\ FALSE \in BOOLEAN
    BY DEF ControlInv, CuType
  <2>3. cu' \in CuType /\ cu'.int_stage = 1 /\ cu'.stage = cu.stage
    BY <2>1, <2>2, IntStageSet, Zenon
  <2> QED
    BY <2>1, <2>3 DEF Moves, Waiting, Together, Halfway, CuType
<1> QED
  BY <1>1, <1>2

LEMMA MovesFetch ==
  ASSUME ControlInv, NEW ready \in BOOLEAN, ready, FetchHigh \/ Fetched
  PROVE  Moves(ready)
<1>1. CASE FetchHigh
  <2>1. /\ cu.stage = 1 /\ To(2)
        /\ request' = [req |-> TRUE, we |-> FALSE, lock |-> TRUE]
    BY <1>1 DEF FetchHigh, Ask
  <2>2. /\ cu'.stage = 2 /\ cu'.int_stage = 0
        /\ cu' \in [stage : 0..6, int_stage : 0..5, internal : BOOLEAN, wfi : BOOLEAN]
    BY <2>1, Staged DEF ControlInv
  <2> QED
    BY <2>1, <2>2 DEF Moves, Waiting, Together, Halfway
<1>2. CASE Fetched
  <2>1. /\ cu.stage = 2 /\ To(3)
        /\ request' = [req |-> FALSE, we |-> FALSE, lock |-> FALSE]
    BY <1>2 DEF Fetched, Silent, NoRequest
  <2>2. /\ cu'.stage = 3 /\ cu'.int_stage = 0
        /\ cu' \in [stage : 0..6, int_stage : 0..5, internal : BOOLEAN, wfi : BOOLEAN]
    BY <2>1, Staged DEF ControlInv
  <2> QED
    BY <2>1, <2>2 DEF Moves, Waiting, Together, Halfway
<1> QED
  BY <1>1, <1>2

LEMMA MovesEnterOn ==
  ASSUME ControlInv, NEW ready \in BOOLEAN, ready, EnterOn
  PROVE  Moves(ready)
<1>1. /\ cu.int_stage \in 1..5 /\ cu.stage = 0
      /\ cu' = [cu EXCEPT !.int_stage = (cu.int_stage + 1) % 6]
  BY DEF EnterOn, ControlInv
<1>2. /\ request' \in [req : BOOLEAN, we : BOOLEAN, lock : BOOLEAN]
      /\ cu.int_stage < 5 => request'.req /\ request'.lock
      /\ cu.int_stage = 5 => ~request'.req
  <2>1. CASE cu.int_stage \in {1, 2}
    <3>1. cu.int_stage = 1 => request' = [req |-> TRUE, we |-> TRUE, lock |-> TRUE]
      BY DEF EnterOn, PushByte, Send
    <3>2. cu.int_stage = 2 => request' = [req |-> TRUE, we |-> TRUE, lock |-> TRUE]
      BY DEF EnterOn, Send
    <3>3. request' = [req |-> TRUE, we |-> TRUE, lock |-> TRUE]
      BY <2>1, <3>1, <3>2
    <3> QED
      BY <2>1, <3>3
  <2>2. CASE cu.int_stage \in {3, 4}
    <3>1. cu.int_stage = 3 => request' = [req |-> TRUE, we |-> FALSE, lock |-> TRUE]
      BY DEF EnterOn, Ask
    <3>2. cu.int_stage = 4 => request' = [req |-> TRUE, we |-> FALSE, lock |-> TRUE]
      BY DEF EnterOn, Ask
    <3>3. request' = [req |-> TRUE, we |-> FALSE, lock |-> TRUE]
      BY <2>2, <3>1, <3>2
    <3> QED
      BY <2>2, <3>3
  <2>3. CASE cu.int_stage = 5
    <3>1. request' = [req |-> FALSE, we |-> FALSE, lock |-> FALSE]
      BY <2>3 DEF EnterOn, Silent, NoRequest
    <3> QED
      BY <2>3, <3>1
  <2>4. cu.int_stage \in {1, 2} \/ cu.int_stage \in {3, 4} \/ cu.int_stage = 5
    BY <1>1
  <2> QED
    BY <2>1, <2>2, <2>3, <2>4
<1>3. /\ cu'.stage = 0
      /\ cu'.int_stage = IF cu.int_stage = 5 THEN 0 ELSE cu.int_stage + 1
      /\ cu' \in [stage : 0..6, int_stage : 0..5, internal : BOOLEAN, wfi : BOOLEAN]
  BY <1>1 DEF ControlInv
<1> QED
  BY <1>1, <1>2, <1>3 DEF Moves, Waiting, Together, Halfway

\* Instructions of one clock.
LEMMA MovesOnce ==
  ASSUME ControlInv, NEW ready \in BOOLEAN,
         Calculate \/ MoveFromCsr \/ MoveToCsr \/ Branch \/ Control
  PROVE  Moves(ready)
<1>1. cu.stage = 3 /\ Silent
  BY DEF Calculate, MoveFromCsr, MoveToCsr, Branch, Control, InStage3
<1>2. /\ cu'.stage = 0 /\ cu'.int_stage = cu.int_stage
      /\ cu' \in [stage : 0..6, int_stage : 0..5, internal : BOOLEAN, wfi : BOOLEAN]
  <2>1. CASE To(0)
    BY <2>1, Staged
  <2>2. CASE Control
    <3> DEFINE w == cu.wfi \/ InDecode = "WFI"
               i == cu.internal \/ InDecode \in {"SWI", "ILLEGAL"}
    <3>1. cu' = [cu EXCEPT !.stage = 0, !.wfi = w, !.internal = i]
      BY <2>2 DEF Control
    <3>2. cu \in CuType /\ 0 \in 0..6 /\ w \in BOOLEAN /\ i \in BOOLEAN
      BY DEF ControlInv, CuType
    <3> HIDE DEF w, i
    <3>3. cu' \in CuType /\ cu'.stage = 0 /\ cu'.int_stage = cu.int_stage
      BY <3>1, <3>2, StageSet, Zenon
    <3> QED
      BY <3>3 DEF CuType
  <2> QED
    BY <2>1, <2>2 DEF Calculate, MoveFromCsr, MoveToCsr, Branch
<1>3. cu.int_stage = 0 /\ request' = [req |-> FALSE, we |-> FALSE, lock |-> FALSE]
  BY <1>1 DEF ControlInv, Silent, NoRequest
<1> QED
  BY <1>1, <1>2, <1>3 DEF Moves, Waiting, Together, Halfway

\* The instructions that transfer: into stage n with a request, or out of it.
LEMMA MovesOut ==
  ASSUME ControlInv, NEW ready \in BOOLEAN, cu.stage \in 3..6, cu.stage > 3 => ready,
         To(0), request' = NoRequest
  PROVE  Moves(ready)
<1>1. /\ cu'.stage = 0 /\ cu'.int_stage = 0 /\ cu.int_stage = 0
      /\ cu' \in [stage : 0..6, int_stage : 0..5, internal : BOOLEAN, wfi : BOOLEAN]
  BY Staged DEF ControlInv
<1>2. request' = [req |-> FALSE, we |-> FALSE, lock |-> FALSE]
  BY DEF NoRequest
<1> QED
  BY <1>1, <1>2 DEF Moves, Waiting, Together, Halfway

LEMMA MovesInto ==
  ASSUME ControlInv, NEW ready \in BOOLEAN, cu.stage \in 3..5, cu.stage > 3 => ready,
         InDecode \in Transfers, r_instruction' = r_instruction,
         cu.stage > 3 => InDecode \in {"RET", "RETI", "BL"},
         cu.stage > 4 => InDecode = "RETI",
         To(cu.stage + 1),
         request' \in [req : BOOLEAN, we : BOOLEAN, lock : BOOLEAN],
         request'.req, InDecode \in {"RET", "RETI", "BL"} => request'.lock
  PROVE  Moves(ready)
<1>1. /\ cu'.stage = cu.stage + 1 /\ cu'.int_stage = 0 /\ cu.int_stage = 0
      /\ cu' \in [stage : 0..6, int_stage : 0..5, internal : BOOLEAN, wfi : BOOLEAN]
  BY Staged DEF ControlInv
<1>2. InDecode' = InDecode
  BY DEF InDecode
<1> QED
  BY <1>1, <1>2 DEF Moves, Waiting, Together, Halfway

LEMMA MovesPull ==
  ASSUME ControlInv, NEW ready \in BOOLEAN, Pull(ready)
  PROVE  Moves(ready)
<1>1. /\ InDecode \in {"POP", "RET", "RETI"} /\ Answered(ready) /\ r_instruction' = r_instruction
      /\ \/ /\ done < Pulls[InDecode] /\ To(cu.stage + 1)
            /\ request' = [req |-> TRUE, we |-> FALSE, lock |-> InDecode # "POP"]
         \/ request' = NoRequest /\ To(0)
  BY DEF Pull, Ask, Silent, Pulls
<1>2. cu.stage \in 3..6 /\ (cu.stage > 3 => ready)
  BY <1>1 DEF ControlInv, Answered
<1>3. CASE done < Pulls[InDecode] /\ To(cu.stage + 1)
           /\ request' = [req |-> TRUE, we |-> FALSE, lock |-> InDecode # "POP"]
  <2>1. /\ cu.stage < 6
        /\ cu.stage > 3 => InDecode \in {"RET", "RETI", "BL"}
        /\ cu.stage > 4 => InDecode = "RETI"
    BY <1>1, <1>2, <1>3 DEF Pulls, done
  <2>2. PICK lock \in BOOLEAN : lock = (InDecode # "POP")
    OBVIOUS
  <2>3. request' = [req |-> TRUE, we |-> FALSE, lock |-> lock]
    BY <1>3, <2>2
  <2>4. /\ request' \in [req : BOOLEAN, we : BOOLEAN, lock : BOOLEAN]
        /\ request'.req /\ (InDecode \in {"RET", "RETI", "BL"} => request'.lock)
    BY <2>2, <2>3
  <2>5. cu.stage \in 3..5 /\ (cu.stage > 3 => ready) /\ InDecode \in Transfers
    BY <1>1, <1>2, <2>1 DEF Transfers
  <2> QED
    BY <1>1, <1>3, <2>1, <2>4, <2>5, MovesInto, Zenon
<1> QED
  BY <1>1, <1>2, <1>3, MovesOut

LEMMA MovesSingle ==
  ASSUME ControlInv, NEW ready \in BOOLEAN, Single(ready)
  PROVE  Moves(ready)
<1>1. InDecode \in {"PUSH", "SB", "LB"} /\ Answered(ready) /\ r_instruction' = r_instruction
  BY DEF Single
<1>2. cu.stage \in 3..6 /\ (cu.stage > 3 => ready)
  BY <1>1 DEF ControlInv, Answered
<1>3. CASE done = 0
  <2>1. cu.stage = 3 /\ To(cu.stage + 1)
    BY <1>2, <1>3 DEF done, Single
  <2>2. request' \in [req : BOOLEAN, we : BOOLEAN, lock : BOOLEAN] /\ request'.req
    <3>1. CASE InDecode \in {"PUSH", "SB"}
      <4>1. InDecode = "PUSH" => request' = [req |-> TRUE, we |-> TRUE, lock |-> FALSE]
        BY <1>3 DEF Single, PushByte, Send
      <4>2. InDecode = "SB" => request' = [req |-> TRUE, we |-> TRUE, lock |-> FALSE]
        BY <1>3 DEF Single, Send
      <4>3. request' = [req |-> TRUE, we |-> TRUE, lock |-> FALSE]
        BY <3>1, <4>1, <4>2
      <4> QED
        BY <4>3
    <3>2. CASE InDecode = "LB"
      <4>1. request' = [req |-> TRUE, we |-> FALSE, lock |-> FALSE]
        BY <1>3, <3>2 DEF Single, Ask
      <4> QED
        BY <4>1
    <3> QED
      BY <1>1, <3>1, <3>2
  <2>3. /\ InDecode \in Transfers /\ InDecode \notin {"RET", "RETI", "BL"}
        /\ cu.stage \in 3..5 /\ ~(cu.stage > 3) /\ ~(cu.stage > 4)
    BY <1>1, <2>1 DEF Transfers
  <2> QED
    BY <1>1, <2>1, <2>2, <2>3, MovesInto
<1>4. CASE done # 0
  <2>1. To(0) /\ request' = NoRequest
    BY <1>4 DEF Single, Silent
  <2> QED
    BY <1>2, <2>1, MovesOut
<1> QED
  BY <1>3, <1>4

\* A BL to a pair of registers that is not taken waits in stage 4 for nothing.
LEMMA MovesLink ==
  ASSUME ControlInv, NEW ready \in BOOLEAN, Link(ready)
  PROVE  Moves(ready)
<1>1. InDecode = "BL" /\ Answered(ready) /\ r_instruction' = r_instruction
  BY DEF Link
<1>2. cu.stage \in 3..5 /\ (cu.stage > 3 => ready)
  BY <1>1 DEF ControlInv, Answered
<1>3. CASE cu.stage = 3 /\ w_cond
  <2>1. To(cu.stage + 1) /\ request' = [req |-> TRUE, we |-> TRUE, lock |-> TRUE]
    BY <1>3 DEF Link, done, PushByte, Send
  <2>2. request' \in [req : BOOLEAN, we : BOOLEAN, lock : BOOLEAN]
        /\ request'.req /\ request'.lock
    BY <2>1
  <2>3. /\ cu.stage \in 3..5 /\ ~(cu.stage > 3) /\ ~(cu.stage > 4)
        /\ InDecode \in Transfers
    BY <1>1, <1>3 DEF Transfers
  <2> QED
    BY <1>1, <2>1, <2>2, <2>3, MovesInto
<1>4. CASE cu.stage = 3 /\ ~w_cond
  <2>1. request' = NoRequest /\ (To(0) \/ To(4))
    BY <1>4 DEF Link, done, Silent
  <2>2. CASE To(4)
    <3>1. /\ cu'.stage = 4 /\ cu'.int_stage = 0 /\ cu.int_stage = 0
          /\ cu' \in [stage : 0..6, int_stage : 0..5, internal : BOOLEAN, wfi : BOOLEAN]
      BY <1>4, <2>2, Staged DEF ControlInv
    <3>2. InDecode' = "BL" /\ request' = [req |-> FALSE, we |-> FALSE, lock |-> FALSE]
      BY <1>1, <2>1 DEF InDecode, NoRequest
    <3> QED
      BY <1>1, <1>4, <3>1, <3>2 DEF Moves, Waiting, Together, Halfway, Transfers
  <2> QED
    BY <1>2, <2>1, <2>2, MovesOut
<1>5. CASE cu.stage = 4
  <2>1. To(cu.stage + 1) /\ request' = [req |-> TRUE, we |-> TRUE, lock |-> TRUE]
    BY <1>5 DEF Link, done, PushByte, Send
  <2>2. ready /\ cu.stage \in 3..5 /\ ~(cu.stage > 4)
        /\ InDecode \in Transfers /\ InDecode \in {"RET", "RETI", "BL"}
    BY <1>1, <1>2, <1>5 DEF Transfers
  <2>3. request' \in [req : BOOLEAN, we : BOOLEAN, lock : BOOLEAN]
        /\ request'.req /\ request'.lock
    BY <2>1
  <2> QED
    BY <1>1, <2>1, <2>2, <2>3, MovesInto
<1>6. CASE cu.stage = 5
  <2>1. To(0) /\ request' = NoRequest
    BY <1>6 DEF Link, done, Silent
  <2> QED
    BY <1>2, <2>1, MovesOut
<1> QED
  BY <1>2, <1>3, <1>4, <1>5, <1>6

\* A clock either moves the control unit on or changes none of its registers.
LEMMA ClockMoves ==
  ASSUME BusInv, NEW answer \in BOOLEAN, Clock(answer)
  PROVE  \E ready \in BOOLEAN : /\ ready => bus.stb
                                /\ bus' = NextBus(ready)
                                /\ \/ Moves(ready)
                                   \/ Wait(ready)
<1> DEFINE ready == answer /\ bus.stb
<1>1. ready \in BOOLEAN /\ (ready => bus.stb) /\ ControlInv
  BY DEF BusInv, ControlInv
<1>2. /\ bus' = NextBus(ready)
      /\ \/ FetchLow \/ Enter
         \/ Calculate \/ MoveFromCsr \/ MoveToCsr \/ Branch \/ Control
         \/ ready /\ (FetchHigh \/ Fetched)
         \/ ready /\ EnterOn
         \/ Pull(ready) \/ Single(ready) \/ Link(ready) \/ Wait(ready)
  BY DEF Clock
<1> HIDE DEF ready
<1>3. Moves(ready) \/ Wait(ready)
  BY <1>1, <1>2, MovesIdle, MovesOnce, MovesFetch, MovesEnterOn, MovesPull, MovesSingle, MovesLink
<1> QED
  BY <1>1, <1>2, <1>3

-----------------------------------------------------------------------------
(* The invariant. *)

LEMMA InitBusInv == Init => BusInv
BY DEF Init, Off, NoRequest, Closed, BusInv, ControlInv, OneTransfer, LockInv, Undivided, Waiting,
   Together, Halfway

LEMMA MovesKeep ==
  ASSUME BusInv, NEW ready \in BOOLEAN, ready => bus.stb, bus' = NextBus(ready), Moves(ready)
  PROVE  BusInv'
<1>1. ControlInv
  BY DEF BusInv
<1>2. bus' \in [cyc : BOOLEAN, stb : BOOLEAN, we : BOOLEAN, lock : BOOLEAN]
  BY <1>1, BusCases
<1>3. ~bus'.stb
  <2>1. CASE Waiting
    BY <1>1, <2>1, BusCases DEF Moves
  <2>2. CASE ~Waiting
    BY <1>1, <2>2, BusCases DEF BusInv, OneTransfer
  <2> QED
    BY <2>1, <2>2
<1>4. Halfway' => bus'.cyc
  <2> SUFFICES ASSUME Halfway' PROVE bus'.cyc
    OBVIOUS
  <2>1. ready /\ Together
    BY DEF Moves
  <2>2. bus.lock
    BY <2>1 DEF BusInv, LockInv
  <2> QED
    BY <1>1, <2>1, <2>2, BusCases
<1>5. ControlInv'
  BY <1>2 DEF Moves, ControlInv
<1>6. OneTransfer'
  BY <1>3 DEF Moves, OneTransfer
<1>7. LockInv'
  BY <1>3, <1>4 DEF Moves, LockInv, Undivided
<1> QED
  BY <1>5, <1>6, <1>7 DEF BusInv

LEMMA WaitKeeps ==
  ASSUME BusInv, NEW ready \in BOOLEAN, ready => bus.stb, bus' = NextBus(ready), Wait(ready)
  PROVE  BusInv'
<1>1. ControlInv /\ OneTransfer /\ LockInv
  BY DEF BusInv
<1>2. cu' = cu /\ r_instruction' = r_instruction /\ request' = NoRequest
  BY DEF Wait, Silent, registers
<1>3. InDecode' = InDecode
  BY <1>2 DEF InDecode
<1>4. bus' \in [cyc : BOOLEAN, stb : BOOLEAN, we : BOOLEAN, lock : BOOLEAN]
  BY <1>1, BusCases
<1>5. ControlInv'
  BY <1>1, <1>2, <1>3, <1>4 DEF ControlInv, NoRequest
<1>6. Waiting' = Waiting /\ Together' = Together /\ Halfway' = Halfway
  BY <1>2, <1>3 DEF Waiting, Together, Halfway
<1>7. CASE ~Waiting
  <2>1. ~bus'.stb /\ ~request'.req
    BY <1>1, <1>2, <1>7, BusCases DEF OneTransfer, NoRequest
  <2>2. ~Halfway
    BY <1>1, <1>7 DEF Halfway, Waiting, ControlInv
  <2> QED
    BY <1>5, <1>6, <1>7, <2>1, <2>2 DEF BusInv, OneTransfer, LockInv, Undivided
<1>8. CASE Waiting /\ ~ready
  <2>1. bus'.stb <=> bus.stb \/ request.req
    BY <1>1, <1>8, BusCases
  <2>2. ~request'.req
    BY <1>2 DEF NoRequest
  <2>3. bus'.stb => bus'.cyc
    BY <1>1, <1>8, BusCases DEF LockInv
  <2>4. OneTransfer'
    BY <1>1, <1>2, <1>3, <1>6, <1>8, <2>1, <2>2 DEF OneTransfer
  <2>5. Halfway => Waiting /\ (request.req \/ bus.stb)
    BY <1>1, <1>8 DEF Halfway, Waiting, OneTransfer, ControlInv
  <2>6. bus'.stb /\ Together => bus'.lock
    BY <1>1, <1>8, BusCases DEF LockInv
  <2>7. LockInv'
    BY <1>6, <2>1, <2>2, <2>3, <2>5, <2>6 DEF LockInv, Undivided
  <2> QED
    BY <1>5, <2>4, <2>7 DEF BusInv
<1>9. Waiting => ~ready
  BY <1>1 DEF Wait, Waiting, Idle, ControlInv
<1> QED
  BY <1>7, <1>8, <1>9

LEMMA NextBusInv == BusInv /\ [Next]_vars => BusInv'
<1> SUFFICES ASSUME BusInv, [Next]_vars PROVE BusInv'
  OBVIOUS
<1>1. ASSUME NEW answer \in BOOLEAN, Clock(answer) PROVE BusInv'
  BY <1>1, ClockMoves, MovesKeep, WaitKeeps
<1>2. CASE UNCHANGED <<cu, r_instruction, request, bus>>
  BY <1>2 DEF BusInv, ControlInv, OneTransfer, LockInv, Undivided, Waiting, Together, Halfway,
     InDecode
<1> QED
  BY <1>1, <1>2 DEF Next, Raise, registers, vars

\* The inductive invariant: the control unit waits exactly while one transfer
\* is asked for or under way (but for a BL to a pair of registers that is not
\* taken), and a transfer that has a successor it belongs with is locked.
THEOREM BusInvariant == Spec => []BusInv
BY InitBusInv, NextBusInv, PTL DEF Spec

\* Between the bytes of an instruction, of a return address, of a saved frame
\* or of a vector the bus cycle is not given up, whatever the program, however
\* long the slave takes and whenever a device interrupts.
THEOREM BusUndivided == Spec => []Undivided
<1>1. BusInv => Undivided
  BY DEF BusInv, LockInv
<1> QED
  BY <1>1, BusInvariant, PTL

\* The core asks for a transfer only when the master can take the request, and
\* address, data and direction hold until the slave acknowledges.
THEOREM BusHandshake == Spec => Handshake
<1> DEFINE Holding == bus.stb => /\ ~request.req
                                 /\ bus'.stb => UNCHANGED <<r_address, r_data, bus>>
<1>1. BusInv /\ [Next]_vars => [Holding]_vars
  <2> SUFFICES ASSUME BusInv, [Next]_vars, bus.stb
               PROVE  ~request.req /\ (bus'.stb => UNCHANGED <<r_address, r_data, bus>>)
    BY DEF vars
  <2>1. ~request.req /\ Waiting /\ ControlInv
    BY DEF BusInv, OneTransfer
  <2>2. ASSUME NEW answer \in BOOLEAN, Clock(answer), bus'.stb
        PROVE  UNCHANGED <<r_address, r_data, bus>>
    <3>1. PICK ready \in BOOLEAN : /\ ready => bus.stb
                                   /\ bus' = NextBus(ready)
                                   /\ Moves(ready) \/ Wait(ready)
      BY <2>2, ClockMoves
    <3>2. ~ready /\ bus' = bus
      BY <2>1, <2>2, <3>1, BusCases
    <3>3. Wait(ready)
      BY <2>1, <3>1, <3>2 DEF Moves
    <3> QED
      BY <3>2, <3>3 DEF Wait, Silent
  <2>3. CASE UNCHANGED <<r_address, r_data, bus>>
    BY <2>1, <2>3
  <2> QED
    BY <2>1, <2>2, <2>3 DEF Next, Raise, vars
<1> QED
  BY <1>1, BusInvariant, PTL DEF Spec, Handshake

-----------------------------------------------------------------------------
(* Machines, field by field. *)

Mach(g, c, p, m, w) == [gpr |-> g, csr |-> c, pc |-> p, mem |-> m, wait_for_interrupt |-> w,
                        running |-> TRUE, debug_mode |-> FALSE]
SpOf(c) == c[6] + 256 * c[7]
SpSet(c, a) == [c EXCEPT ![6] = a % 256, ![7] = (a \div 256) % 256]

\* A record of the right shape with the right fields is that machine.
LEMMA MachOnly ==
  ASSUME NEW g, NEW c, NEW p, NEW m, NEW w, NEW z,
         z \in [gpr : {g}, csr : {c}, pc : {p}, mem : {m}, wait_for_interrupt : {w},
                running : {TRUE}, debug_mode : {FALSE}]
  PROVE  z = Mach(g, c, p, m, w)
BY DEF Mach

\* What a machine is made of.
LEMMA MachFields ==
  ASSUME NEW g, NEW c, NEW p, NEW m, NEW w, NEW x, x = Mach(g, c, p, m, w)
  PROVE  x.gpr = g /\ x.csr = c /\ x.pc = p /\ x.mem = m /\ x.wait_for_interrupt = w
BY DEF Mach

\* Machines are equal just when their parts are.
LEMMA MachSame ==
  ASSUME NEW g, NEW c, NEW p, NEW m, NEW w, NEW g2, NEW c2, NEW p2, NEW m2, NEW w2,
         Mach(g, c, p, m, w) = Mach(g2, c2, p2, m2, w2)
  PROVE  g = g2 /\ c = c2 /\ p = p2 /\ m = m2 /\ w = w2
BY DEF Mach

\* A machine with one part replaced: each of its fields in turn.
LEMMA MachGpr ==
  ASSUME NEW g, NEW c, NEW p, NEW m, NEW w, NEW x, NEW y, x = Mach(g, c, p, m, w)
  PROVE  [x EXCEPT !.gpr = y] = Mach(y, c, p, m, w)
<1> DEFINE z == [x EXCEPT !.gpr = y]
<1>1. z \in [gpr : {y}, csr : {c}, pc : {p}, mem : {m}, wait_for_interrupt : {w},
             running : {TRUE}, debug_mode : {FALSE}]
  BY DEF Mach
<1> HIDE DEF z
<1>2. z = Mach(y, c, p, m, w)
  BY <1>1, MachOnly
<1> QED  BY <1>2 DEF z

LEMMA MachCsr ==
  ASSUME NEW g, NEW c, NEW p, NEW m, NEW w, NEW x, NEW y, x = Mach(g, c, p, m, w)
  PROVE  [x EXCEPT !.csr = y] = Mach(g, y, p, m, w)
<1> DEFINE z == [x EXCEPT !.csr = y]
<1>1. z \in [gpr : {g}, csr : {y}, pc : {p}, mem : {m}, wait_for_interrupt : {w},
             running : {TRUE}, debug_mode : {FALSE}]
  BY DEF Mach
<1> HIDE DEF z
<1>2. z = Mach(g, y, p, m, w)
  BY <1>1, MachOnly
<1> QED  BY <1>2 DEF z

LEMMA MachPc ==
  ASSUME NEW g, NEW c, NEW p, NEW m, NEW w, NEW x, NEW y, x = Mach(g, c, p, m, w)
  PROVE  [x EXCEPT !.pc = y] = Mach(g, c, y, m, w)
<1> DEFINE z == [x EXCEPT !.pc = y]
<1>1. z \in [gpr : {g}, csr : {c}, pc : {y}, mem : {m}, wait_for_interrupt : {w},
             running : {TRUE}, debug_mode : {FALSE}]
  BY DEF Mach
<1> HIDE DEF z
<1>2. z = Mach(g, c, y, m, w)
  BY <1>1, MachOnly
<1> QED  BY <1>2 DEF z

LEMMA MachMem ==
  ASSUME NEW g, NEW c, NEW p, NEW m, NEW w, NEW x, NEW y, x = Mach(g, c, p, m, w)
  PROVE  [x EXCEPT !.mem = y] = Mach(g, c, p, y, w)
<1> DEFINE z == [x EXCEPT !.mem = y]
<1>1. z \in [gpr : {g}, csr : {c}, pc : {p}, mem : {y}, wait_for_interrupt : {w},
             running : {TRUE}, debug_mode : {FALSE}]
  BY DEF Mach
<1> HIDE DEF z
<1>2. z = Mach(g, c, p, y, w)
  BY <1>1, MachOnly
<1> QED  BY <1>2 DEF z

\* A machine with one register replaced.
Updated(f, i, y) == [f EXCEPT ![i] = y]
WithCsr(x, i, y) == [x EXCEPT !.csr[i] = y]
WithGpr(x, i, y) == [x EXCEPT !.gpr[i] = y]
LEMMA MachCsrAt ==
  ASSUME NEW g, NEW c, NEW p, NEW m, NEW w, NEW x, NEW i, NEW y, x = Mach(g, c, p, m, w)
  PROVE  WithCsr(x, i, y) = Mach(g, Updated(c, i, y), p, m, w)
<1> DEFINE d == Updated(c, i, y)
<1>1. x.csr = c
  BY MachFields
<1>2. [x EXCEPT !.csr = d] = Mach(g, d, p, m, w)
  <2> HIDE DEF d
  <2> QED  BY MachCsr
<1>3. WithCsr(x, i, y) = [x EXCEPT !.csr = d]
  BY <1>1 DEF WithCsr, Updated
<1> QED  BY <1>2, <1>3

\* A machine with other flags.
Flagged(x, f) == [x EXCEPT !.csr[0] = f]
FlagSet(c, f) == [c EXCEPT ![0] = f]
LEMMA MachFlags ==
  ASSUME NEW g, NEW c, NEW p, NEW m, NEW w, NEW x, NEW f, x = Mach(g, c, p, m, w)
  PROVE  Flagged(x, f) = Mach(g, FlagSet(c, f), p, m, w)
<1> DEFINE d == FlagSet(c, f)
<1>1. x.csr = c
  BY MachFields
<1>2. [x EXCEPT !.csr = d] = Mach(g, d, p, m, w)
  <2> HIDE DEF d
  <2> QED  BY MachCsr
<1>3. Flagged(x, f) = [x EXCEPT !.csr = d]
  BY <1>1 DEF Flagged, FlagSet
<1> QED  BY <1>2, <1>3

LEMMA MachGprAt ==
  ASSUME NEW g, NEW c, NEW p, NEW m, NEW w, NEW x, NEW i, NEW y, x = Mach(g, c, p, m, w)
  PROVE  WithGpr(x, i, y) = Mach(Updated(g, i, y), c, p, m, w)
<1> DEFINE d == Updated(g, i, y)
<1>1. x.gpr = g
  BY MachFields
<1>2. [x EXCEPT !.gpr = d] = Mach(d, c, p, m, w)
  <2> HIDE DEF d
  <2> QED  BY MachGpr
<1>3. WithGpr(x, i, y) = [x EXCEPT !.gpr = d]
  BY <1>1 DEF WithGpr, Updated
<1> QED  BY <1>2, <1>3

\* A machine past the instruction it is at.
LEMMA MachPast ==
  ASSUME NEW g, NEW c, NEW p, NEW m, NEW w, NEW x, x = Mach(g, c, p, m, w)
  PROVE  Past(x) = Mach(g, c, (p + 2) % 65536, m, w)
<1>1. x.pc = p
  BY MachFields
<1>2. Past(x) = [x EXCEPT !.pc = (p + 2) % 65536]
  BY <1>1 DEF Past
<1> QED  BY <1>2, MachPc

\* What the stack operations of isa.md make of a machine.
LEMMA MachStack ==
  ASSUME NEW g, NEW c, NEW p, NEW m, NEW w, NEW x, NEW a, x = Mach(g, c, p, m, w)
  PROVE  /\ Manual!StackPointer(x) = SpOf(c)
         /\ Manual!WithStack(x, a) = Mach(g, SpSet(c, a), p, m, w)
<1> DEFINE z == Manual!WithStack(x, a)
           d == SpSet(c, a)
<1>1. z \in [gpr : {g}, csr : {d}, pc : {p}, mem : {m},
             wait_for_interrupt : {w}, running : {TRUE}, debug_mode : {FALSE}]
  BY DEF Manual!WithStack, Mach, SpSet
<1>2. z = Mach(g, d, p, m, w)
  <2> HIDE DEF z, d
  <2> QED  BY <1>1, MachOnly
<1>3. x.csr = c
  BY MachFields
<1> QED  BY <1>2, <1>3 DEF Manual!StackPointer, Manual!Pair, SpOf

LEMMA MachPushed ==
  ASSUME NEW g, NEW c, NEW p, NEW m, NEW w, NEW x, NEW b, x = Mach(g, c, p, m, w)
  PROVE  Manual!Pushed(x, b) = Mach(g, SpSet(c, (SpOf(c) - 1) % 65536), p, Manual!Store(m, SpOf(c), b), w)
<1> DEFINE y == [x EXCEPT !.mem = Manual!Store(m, SpOf(c), b)]
<1>1. y = Mach(g, c, p, Manual!Store(m, SpOf(c), b), w)
  BY MachMem
<1>2. Manual!StackPointer(x) = SpOf(c) /\ x.mem = m
  BY MachStack, MachFields
<1>3. Manual!Pushed(x, b) = Manual!WithStack(y, (SpOf(c) - 1) % 65536)
  BY <1>2 DEF Manual!Pushed
<1> HIDE DEF y
<1> QED  BY <1>1, <1>3, MachStack

LEMMA MachDropped ==
  ASSUME NEW g, NEW c, NEW p, NEW m, NEW w, NEW x, NEW n, x = Mach(g, c, p, m, w)
  PROVE  /\ Manual!Dropped(x, n) = Mach(g, SpSet(c, (SpOf(c) + n) % 65536), p, m, w)
         /\ Manual!Popped(x, n) = Manual!Load(m, (SpOf(c) + n) % 65536)
<1>1. Manual!StackPointer(x) = SpOf(c) /\ x.mem = m
  BY MachStack, MachFields
<1>2. Manual!WithStack(x, (SpOf(c) + n) % 65536) = Mach(g, SpSet(c, (SpOf(c) + n) % 65536), p, m, w)
  BY MachStack
<1> QED  BY <1>1, <1>2 DEF Manual!Dropped, Manual!Popped

-----------------------------------------------------------------------------
(* Bytes, words and addresses. *)

\* Their ranges, as inequalities: an interval that is written out is a
\* disjunction of as many cases.
LEMMA AddressIs == \A a \in Addresses : a \in Int /\ 0 <= a /\ a <= 65535
<1> DEFINE top == 65535
<1>1. Addresses = 0..top
  BY DEF Addresses
<1>2. top \in Int
  OBVIOUS
<1> HIDE DEF top
<1>3. \A a \in Addresses : a \in Int /\ 0 <= a /\ a <= top
  BY <1>1, <1>2
<1> QED  BY <1>3 DEF top

LEMMA WordAddressIs == \A a \in WordAddresses : a \in Int /\ 0 <= a /\ a <= 32767
<1> DEFINE top == 32767
<1>1. WordAddresses = 0..top
  BY DEF WordAddresses
<1>2. top \in Int
  OBVIOUS
<1> HIDE DEF top
<1>3. \A a \in WordAddresses : a \in Int /\ 0 <= a /\ a <= top
  BY <1>1, <1>2
<1> QED  BY <1>3 DEF top

LEMMA ByteIs == \A b \in AByte : b \in Int /\ 0 <= b /\ b <= 255
<1> DEFINE top == 255
<1>1. AByte = 0..top
  BY DEF AByte
<1>2. top \in Int
  OBVIOUS
<1> HIDE DEF top
<1>3. \A b \in AByte : b \in Int /\ 0 <= b /\ b <= top
  BY <1>1, <1>2
<1> QED  BY <1>3 DEF top

\* What is no larger than the last address is an address.
LEMMA InAddresses ==
  ASSUME NEW v \in Int, v >= 0, v <= 65535
  PROVE  v \in Addresses
<1> DEFINE top == 65535
<1>1. v <= top /\ top \in Int
  OBVIOUS
<1>2. Addresses = 0..top
  BY DEF Addresses
<1> HIDE DEF top
<1>3. v \in 0..top
  BY <1>1
<1> QED  BY <1>2, <1>3

LEMMA InWordAddresses ==
  ASSUME NEW v \in Int, v >= 0, v <= 32767
  PROVE  v \in WordAddresses
<1> DEFINE top == 32767
<1>1. v <= top /\ top \in Int
  OBVIOUS
<1>2. WordAddresses = 0..top
  BY DEF WordAddresses
<1> HIDE DEF top
<1>3. v \in 0..top
  BY <1>1
<1> QED  BY <1>2, <1>3

LEMMA InBytes ==
  ASSUME NEW v \in Int, v >= 0, v <= 255
  PROVE  v \in AByte
<1> DEFINE top == 255
<1>1. v <= top /\ top \in Int
  OBVIOUS
<1>2. AByte = 0..top
  BY DEF AByte
<1> HIDE DEF top
<1>3. v \in 0..top
  BY <1>1
<1> QED  BY <1>2, <1>3

\* What addresses do at the end of memory.
LEMMA Wraps == \A z \in Int : z % 65536 \in Addresses
<1> TAKE z \in Int
<1> DEFINE y == z % 65536
<1>1. y \in Int /\ y >= 0 /\ y <= 65535
  OBVIOUS
<1> HIDE DEF y
<1> QED  BY <1>1, InAddresses

LEMMA WrapsNot == ASSUME NEW z \in Addresses PROVE z % 65536 = z
<1>1. z \in Int /\ z >= 0 /\ z <= 65535
  BY AddressIs
<1> QED  BY <1>1

LEMMA WrapsOnce == \A y, n \in Int : (((y + n) % 65536) + 1) % 65536 = (y + (n + 1)) % 65536
OBVIOUS

\* Words and their bytes.
LEMMA Divided ==
  ASSUME NEW w \in Addresses
  PROVE  /\ w \div 256 \in AByte /\ w % 256 \in AByte /\ w = 256 * (w \div 256) + (w % 256)
<1> DEFINE h == w \div 256
           l == w % 256
<1>1. w \in Int /\ w >= 0 /\ w <= 65535
  BY AddressIs
<1>2. w = 256 * h + l /\ h \in Int /\ l \in Int /\ 0 <= l /\ l <= 255
  BY <1>1
<1> HIDE DEF h, l
<1>3. 0 <= h /\ h <= 255
  BY <1>1, <1>2
<1>4. h \in AByte /\ l \in AByte
  BY <1>2, <1>3, InBytes
<1> QED  BY <1>2, <1>4 DEF h, l

LEMMA Joined ==
  ASSUME NEW h \in AByte, NEW l \in AByte
  PROVE  256 * h + l \in Addresses /\ (256 * h + l) % 256 = l /\ (256 * h + l) \div 256 = h
<1>0. h \in Int /\ 0 <= h /\ h <= 255 /\ l \in Int /\ 0 <= l /\ l <= 255
  BY ByteIs
<1>1. 256 * h + l \in Addresses
  <2> DEFINE v == 256 * h + l
  <2>1. v \in Int /\ v >= 0 /\ v <= 65535
    BY <1>0
  <2> HIDE DEF v
  <2> QED  BY <2>1, InAddresses DEF v
<1>2. (256 * h + l) % 256 = l
  BY <1>0
<1>3. (256 * h + l) \div 256 = h
  BY <1>0
<1> QED  BY <1>1, <1>2, <1>3, Zenon

-----------------------------------------------------------------------------
(* The machine in the registers, and what a clock does to its memory. *)

VC == [csr EXCEPT ![0] = Shown]
VM == IF Storing THEN Manual!Store(mem, r_address, r_data) ELSE mem
BytesAt(m) == \A a \in DOMAIN m : m[a] \in AByte

\* The machine in the registers, and with the store under way made.
LEMMA ViewIs == /\ Now = Mach(gpr, VC, 2 * r_pc, mem, cu.wfi)
                /\ View = Mach(gpr, VC, 2 * r_pc, VM, cu.wfi)
<1>1. Now = Mach(gpr, VC, 2 * r_pc, mem, cu.wfi)
  BY DEF Now, Mach, VC
<1>2. [Now EXCEPT !.mem = VM] = Mach(gpr, VC, 2 * r_pc, VM, cu.wfi)
  BY <1>1, MachMem
<1>3. View = [Now EXCEPT !.mem = VM]
  <2>1. Now.mem = mem
    BY <1>1, MachFields
  <2> QED  BY <2>1 DEF View, VM
<1> QED  BY <1>1, <1>2, <1>3

LEMMA ViewNext == /\ Now' = Mach(gpr', VC', 2 * r_pc', mem', cu'.wfi)
                  /\ View' = Mach(gpr', VC', 2 * r_pc', VM', cu'.wfi)
<1>1. Now' = Mach(gpr', VC', 2 * r_pc', mem', cu'.wfi)
  BY DEF Now, Mach, VC
<1>2. [Now' EXCEPT !.mem = VM'] = Mach(gpr', VC', 2 * r_pc', VM', cu'.wfi)
  BY <1>1, MachMem
<1>3. View' = [Now' EXCEPT !.mem = VM']
  <2>1. Now'.mem = mem'
    BY <1>1, MachFields
  <2> QED  BY <2>1 DEF View, VM
<1> QED  BY <1>1, <1>2, <1>3

\* A typed record is the machine of its fields.
LEMMA MachTyped ==
  ASSUME NEW G, NEW C, NEW P, NEW M, NEW W, NEW m,
         m \in [gpr : G, csr : C, pc : P, mem : M, wait_for_interrupt : W, running : {TRUE}, debug_mode : {FALSE}]
  PROVE  m = Mach(m.gpr, m.csr, m.pc, m.mem, m.wait_for_interrupt)
BY DEF Mach

\* So is the machine of the last boundary.
LEMMA LastIs ==
  ASSUME NEW m, MachineTypes(m)
  PROVE  m = Mach(m.gpr, m.csr, m.pc, m.mem, m.wait_for_interrupt)
<1> DEFINE M == {m.mem}
<1>1. m \in [gpr : Bytes, csr : Bytes, pc : Addresses, mem : M,
              wait_for_interrupt : BOOLEAN, running : {TRUE}, debug_mode : {FALSE}]
  BY DEF MachineTypes
<1> HIDE DEF M
<1> QED  BY <1>1, MachTyped

\* What csr_file keeps of a byte written to the flags, and what a build reads.
LEMMA KeptIs ==
  ASSUME NEW b \in AByte
  PROVE  Kept(b) \in FlagBytes /\ Kept(b) \in 0..143
BY DEF Kept, FlagBytes, AByte

LEMMA FlagByteIs ==
  ASSUME NEW b \in FlagBytes, NEW r \in 0..7
  PROVE  /\ b \in 0..143 /\ Kept(b) = b
         /\ b + 16 * r \in 0..255 /\ Kept(b + 16 * r) = b
         /\ (b + 16 * r) \div 128 = b \div 128
         /\ (b + 16 * r) % 16 = b % 16
<1>1. PICK a \in 0..255 : b = Kept(a)
  BY DEF FlagBytes, AByte
<1>2. PICK i \in 0..15, j \in 0..1 : b = i + 128 * j
  <2>1. a % 16 \in 0..15 /\ a \div 128 \in 0..1
    OBVIOUS
  <2> QED  BY <1>1, <2>1 DEF Kept
<1> QED  BY <1>2 DEF Kept

\* The control registers as a program reads them are bytes, and hold the stack
\* pointer.
LEMMA VcIs ==
  ASSUME RegisterTypes
  PROVE  /\ VC \in Bytes /\ VC[0] = Shown /\ Shown \in AByte /\ Kept(Shown) = csr[0]
         /\ \A n \in 1..7 : VC[n] = csr[n]
         /\ SpOf(VC) = Sp /\ Sp \in Addresses
<1>0. csr \in Bytes /\ csr[0] \in FlagBytes
  BY DEF RegisterTypes
<1>1. Reserved \in 0..7
  BY MultiCycleAssumption
<1>2. Shown \in AByte /\ Kept(Shown) = csr[0]
  <2> DEFINE b == csr[0]
             n == b + 16 * Reserved
  <2>1. n \in 0..255 /\ Kept(n) = b
    <3>1. b \in FlagBytes
      BY <1>0
    <3> HIDE DEF b
    <3> QED  BY <1>1, <3>1, FlagByteIs
  <2>2. Shown = n
    BY DEF Shown
  <2> HIDE DEF b, n
  <2>3. n \in AByte
    BY <2>1 DEF AByte
  <2> QED  BY <2>1, <2>2, <2>3 DEF b
<1>3. /\ VC \in Bytes /\ VC[0] = Shown
      /\ \A n \in 1..7 : VC[n] = csr[n]
  BY <1>0, <1>2 DEF VC, Bytes
<1>4. csr[6] \in 0..255 /\ csr[7] \in 0..255 /\ VC[6] = csr[6] /\ VC[7] = csr[7]
  BY <1>0, <1>3 DEF Bytes, AByte
<1>5. SpOf(VC) = Sp /\ Sp \in Addresses
  <2> DEFINE a == csr[6]
             b == csr[7]
             z == a + 256 * b
  <2>1. SpOf(VC) = z /\ Sp = z
    BY <1>4 DEF SpOf, Sp
  <2>2. a \in AByte /\ b \in AByte
    BY <1>0 DEF Bytes
  <2> HIDE DEF a, b
  <2>3. z \in Addresses
    <3>1. 256 * b + a \in Addresses
      BY <2>2, Joined
    <3>2. z = 256 * b + a
      <4>1. a \in Int /\ b \in Int
        BY SMTT(30), <2>2, ByteIs
      <4> QED  BY <4>1
    <3> QED  BY <3>1, <3>2
  <2> HIDE DEF z
  <2> QED  BY <2>1, <2>3
<1> QED  BY <1>2, <1>3, <1>5

\* Loads and stores keep to bytes.
LEMMA LoadByte ==
  ASSUME NEW m, BytesAt(m), NEW a \in Addresses
  PROVE  Manual!Load(m, a) \in AByte
BY SMTT(30) DEF Manual!Load, Elsewhere, BytesAt, AByte, Addresses

LEMMA StoreBytes ==
  ASSUME NEW m, BytesAt(m), NEW a, NEW b \in AByte
  PROVE  BytesAt(Manual!Store(m, a, b)) /\ DOMAIN Manual!Store(m, a, b) = DOMAIN m
BY DEF Manual!Store, BytesAt

LEMMA VmBytes == ASSUME RegisterTypes PROVE BytesAt(VM) /\ BytesAt(mem)
<1>1. BytesAt(mem)
  BY DEF RegisterTypes, BytesAt
<1>2. r_data \in AByte
  BY DEF RegisterTypes
<1> QED  BY <1>1, <1>2, StoreBytes DEF VM

\* A clock that does not wait ends what was asked of the bus, and starts
\* nothing but what it asks for itself.
LEMMA MemoryMoves ==
  ASSUME BusInv, NEW ready \in BOOLEAN, ready => bus.stb, Moves(ready),
         bus' = NextBus(ready), mem' = NextMem(ready)
  PROVE  mem' = VM /\ bus' \in [cyc : BOOLEAN, stb : BOOLEAN, we : BOOLEAN, lock : BOOLEAN] /\ ~bus'.stb
<1>1. ~request.req /\ (bus.stb => ready)
  BY DEF BusInv, OneTransfer, Moves
<1>2. bus' \in [cyc : BOOLEAN, stb : BOOLEAN, we : BOOLEAN, lock : BOOLEAN] /\ ~bus'.stb
  BY <1>1, BusCases DEF BusInv
<1>3. mem' = VM
  <2>1. bus.we \in BOOLEAN /\ bus.stb \in BOOLEAN /\ request.req \in BOOLEAN
    BY DEF BusInv, ControlInv
  <2> QED  BY <1>1, <2>1 DEF VM, Storing, NextMem, Manual!Store
<1> QED  BY <1>2, <1>3

\* A clock that asks for nothing leaves the store under way as it was: made.
LEMMA AsksNothing ==
  ASSUME Silent, mem' = VM, ~bus'.stb
  PROVE  VM' = VM /\ ~Storing' /\ VM' = mem' /\ r_address' = r_address /\ r_data' = r_data
BY DEF Silent, NoRequest, VM, Storing

\* A clock that asks for a byte reads at that address.
LEMMA AsksFor ==
  ASSUME NEW a, NEW lock, Ask(a, lock), mem' = VM, ~bus'.stb
  PROVE  VM' = VM /\ r_address' = a /\ ~Storing' /\ VM' = mem' /\ r_data' = r_data
BY DEF Ask, VM, Storing

\* A clock that sends a byte puts one store on the way.
LEMMA Sends ==
  ASSUME NEW a, NEW b, NEW lock, Send(a, b, lock), mem' = VM, ~bus'.stb
  PROVE  VM' = Manual!Store(VM, a, b) /\ r_data' = b /\ r_address' = a
BY DEF Send, VM, Storing

\* The byte that comes is the one asked for.
LEMMA Comes ==
  ASSUME NEW a, Reads(a)
  PROVE  w_wb_data_o = Manual!Load(VM, a)
BY DEF Reads, VM, w_wb_data_o

\* A clock that waits puts nothing on the way and finishes nothing.
LEMMA WaitMemory ==
  ASSUME BusInv, NEW ready \in BOOLEAN, ready => bus.stb, Wait(ready), ~ready,
         bus' = NextBus(ready), mem' = NextMem(ready)
  PROVE  VM' = VM /\ (Storing' <=> Storing) /\ mem' = mem
<1>1. request.req \in BOOLEAN /\ request.we \in BOOLEAN /\ bus.we \in BOOLEAN /\ bus.stb \in BOOLEAN
      /\ ~(request.req /\ bus.stb)
  BY DEF BusInv, ControlInv, OneTransfer
<1>2. mem' = mem
  BY DEF NextMem
<1>3. r_address' = r_address /\ r_data' = r_data /\ request' = NoRequest /\ ~request'.req
  BY DEF Wait, Silent, NoRequest
<1>4. CASE bus.stb
  <2>1. bus' = bus
    BY <1>4 DEF NextBus
  <2> QED  BY <2>1, <1>1, <1>2, <1>3, <1>4 DEF VM, Storing
<1>5. CASE ~bus.stb /\ request.req
  <2>1. bus' = Opened
    BY <1>5 DEF NextBus
  <2>2. bus'.stb /\ (bus'.we <=> request.we)
    BY <2>1 DEF Opened
  <2> QED  BY <2>2, <1>1, <1>2, <1>3, <1>5 DEF VM, Storing
<1>6. CASE ~bus.stb /\ ~request.req
  <2>1. ~bus'.stb
    BY <1>6, BusCases DEF BusInv
  <2> QED  BY <2>1, <1>1, <1>2, <1>3, <1>6 DEF VM, Storing
<1> QED  BY <1>1, <1>4, <1>5, <1>6

-----------------------------------------------------------------------------
(* What holds around every clock that does not wait. *)

Rest == IdleInv /\ FetchInv /\ PullInv /\ SingleInv /\ LinkInv /\ EnterInv
\* A step from one boundary to the next, of the machine in last.
FromTo(t, u) ==
  \/ u = t
  \/ /\ ~t.machine.wait_for_interrupt
     /\ u.machine \in After(Past(t.machine), WordAt(t.machine))
     /\ u.taken = t.taken
  \/ /\ t.machine.csr[0] >= 128 /\ t.taken < raised
     /\ u.machine = Entered(t.machine, DeviceId, Cleared)
     /\ u.taken = t.taken + 1
Reached == [machine |-> Now, taken |-> taken]
Moving(ready) ==
  /\ ready \in BOOLEAN /\ (ready => bus.stb) /\ Moves(ready)
  /\ bus' = NextBus(ready) /\ mem' = NextMem(ready)
  /\ last' = IF Boundary' THEN Reached' ELSE last

\* The control unit's registers, and what moving to a stage leaves alone.
LEMMA CuFields ==
  ASSUME ControlInv
  PROVE  /\ cu.stage \in 0..6 /\ cu.int_stage \in 0..5 /\ cu.internal \in BOOLEAN /\ cu.wfi \in BOOLEAN
         /\ \A n : To(n) => /\ cu'.stage = n /\ cu'.int_stage = cu.int_stage
                            /\ cu'.internal = cu.internal /\ cu'.wfi = cu.wfi
BY DEF ControlInv, To

\* Registers of the right types make a machine of the right type.
LEMMA MachineOf ==
  ASSUME NEW g \in Bytes, NEW c \in Bytes, c[0] \in ShownFlags, NEW p \in WordAddresses, NEW m,
         BytesAt(m), NEW w \in BOOLEAN, NEW x, x = Mach(g, c, 2 * p, m, w)
  PROVE  MachineTypes(x)
<1>1. 2 * p \in Addresses /\ (2 * p) % 2 = 0
  <2> DEFINE q == 2 * p
  <2>1. p \in Int /\ 0 <= p /\ p <= 32767
    BY WordAddressIs
  <2>2. q \in Int /\ q >= 0 /\ q <= 65535 /\ q % 2 = 0
    BY <2>1
  <2> HIDE DEF q
  <2>3. q \in Addresses
    BY <2>2, InAddresses
  <2> QED  BY <2>2, <2>3 DEF q
<1>2. x.csr = c /\ x.pc = 2 * p /\ x.mem = m
  BY MachFields
<1> DEFINE q == 2 * p
           M == {x.mem}
<1>3. x \in [gpr : Bytes, csr : Bytes, pc : Addresses, mem : M,
             wait_for_interrupt : BOOLEAN, running : {TRUE}, debug_mode : {FALSE}]
  <2>1. x = Mach(g, c, q, m, w) /\ q \in Addresses /\ m \in M
    BY <1>1, <1>2
  <2> HIDE DEF q, M
  <2> QED  BY <2>1 DEF Mach
<1>4. \A a \in DOMAIN x.mem : x.mem[a] \in AByte
  BY <1>2 DEF BytesAt
<1> QED  BY <1>1, <1>2, <1>3, <1>4 DEF MachineTypes

\* The types of the registers after a clock.
LEMMA TypesKeep ==
  ASSUME RegisterTypes, gpr' \in Bytes, csr' \in Bytes, csr'[0] \in FlagBytes, r_pc' \in WordAddresses,
         r_instruction' \in Addresses, r_int_id' \in Ids, BytesAt(mem'), r_address' \in Addresses,
         r_data' \in AByte, cu'.wfi \in BOOLEAN, taken' \in Nat,
         last' = IF Boundary' THEN Reached' ELSE last
  PROVE  RegisterTypes'
<1>1. MachineTypes(last'.machine) /\ last'.taken \in Nat
  <2>1. CASE ~Boundary'
    <3>1. last' = last
      BY <2>1
    <3> QED  BY <3>1 DEF RegisterTypes
  <2>2. CASE Boundary'
    <3>1. last'.machine = Now' /\ last'.taken = taken'
      BY <2>2 DEF Reached
    <3>2. VC' \in Bytes /\ VC'[0] \in ShownFlags
      <4>1. Reserved \in 0..7
        BY MultiCycleAssumption
      <4>2. Shown' = csr'[0] + 16 * Reserved
        BY DEF Shown
      <4>3. Shown' \in ShownFlags
        BY <4>2 DEF ShownFlags
      <4>4. Shown' \in AByte
        BY <4>1, <4>2, FlagByteIs DEF AByte
      <4>5. VC' = [csr' EXCEPT ![0] = Shown']
        BY DEF VC
      <4> QED  BY <4>3, <4>4, <4>5 DEF Bytes
    <3>3. MachineTypes(Now')
      BY <3>2, ViewNext, MachineOf
    <3> QED  BY <3>1, <3>3
  <2> QED  BY <2>1, <2>2
<1> QED  BY <1>1 DEF RegisterTypes, BytesAt

\* Registers that stay leave the machine they stand for alone.
LEMMA VcStays ==
  ASSUME csr' = csr
  PROVE  VC' = VC /\ Shown' = Shown /\ Sp' = Sp
BY DEF VC, Shown, Sp

LEMMA ViewStays ==
  ASSUME gpr' = gpr, csr' = csr, r_pc' = r_pc, cu'.wfi = cu.wfi, VM' = VM
  PROVE  View' = View
<1>1. View' = Mach(gpr, VC, 2 * r_pc, VM, cu.wfi)
  BY ViewNext, VcStays
<1> QED  BY <1>1, ViewIs

\* At rest there is no store under way.
LEMMA IdleView ==
  ASSUME BusInv, Idle
  PROVE  ~Storing /\ View = Now /\ VM = mem
<1>1. ~request.req /\ ~bus.stb
  BY DEF BusInv, OneTransfer, Waiting, Idle
<1>2. ~Storing /\ VM = mem
  BY <1>1 DEF Storing, VM
<1>3. View = Now
  BY <1>2, ViewIs
<1> QED  BY <1>2, <1>3

\* Two machines are the same if their parts are.
LEMMA LastParts ==
  ASSUME RegisterTypes, NEW g, NEW c, NEW p, NEW m, NEW w, last.machine = Mach(g, c, p, m, w)
  PROVE  /\ last.machine.gpr = g /\ last.machine.csr = c /\ last.machine.pc = p /\ last.machine.mem = m
         /\ last.machine.wait_for_interrupt = w
         /\ Going = Mach(g, c, (p + 2) % 65536, m, w)
BY MachFields, MachPast DEF Going

-----------------------------------------------------------------------------
(* Fetch. *)

\* FetchLow begins an instruction at a boundary, with no interrupt in sight.
LEMMA DoesFetchLow ==
  ASSUME SequenceInv, NEW ready, Moving(ready), FetchLow
  PROVE  RegisterTypes' /\ Rest' /\ FromTo(last, last')
<1>0. /\ ControlInv /\ BusInv /\ RegisterTypes /\ IdleInv
      /\ taken \in Nat
  BY DEF SequenceInv, BusInv, RequestInv
<1>1. cu'.stage = 1 /\ cu'.int_stage = 0 /\ ~cu'.internal /\ ~cu'.wfi /\ ~cu.wfi /\ ~cu.internal /\ Idle
      /\ cu'.wfi = cu.wfi /\ cu'.wfi \in BOOLEAN
  BY <1>0, CuFields DEF FetchLow, w_interrupt, Idle
<1>2. mem' = VM /\ ~bus'.stb /\ VM' = VM /\ r_address' = 2 * r_pc /\ ~Storing' /\ r_data' = r_data
  BY <1>0, MemoryMoves, AsksFor DEF Moving, FetchLow
<1>3. gpr' = gpr /\ csr' = csr /\ r_pc' = r_pc /\ r_instruction' = r_instruction /\ r_int_id' = r_int_id /\ taken' = taken
  BY DEF FetchLow
<1>4. last' = last
  BY <1>1 DEF Moving, Boundary, Idle
<1>5. last = [machine |-> View, taken |-> taken]
  BY <1>0, <1>1 DEF IdleInv
<1>6. View' = last.machine /\ last.taken = taken /\ ~last.machine.wait_for_interrupt /\ last.machine.pc = 2 * r_pc
  <2>1. View' = View
    BY <1>1, <1>2, <1>3, ViewStays
  <2>2. last.machine = View /\ last.taken = taken
    BY <1>5
  <2>3. View.wait_for_interrupt = cu.wfi /\ View.pc = 2 * r_pc
    BY ViewIs, MachFields
  <2> QED  BY <1>1, <2>1, <2>2, <2>3
<1>7. RegisterTypes'
  <2>1. r_pc \in WordAddresses
    BY <1>0 DEF RegisterTypes
  <2>2. r_address' \in Addresses
    <3> DEFINE a == 2 * r_pc
    <3>1. r_address' = a
      BY <1>2
    <3>2. a \in Int /\ a >= 0 /\ a <= 65535
      BY <2>1, WordAddressIs
    <3> HIDE DEF a
    <3> QED  BY <3>1, <3>2, InAddresses
  <2>3. gpr \in Bytes /\ csr \in Bytes /\ csr[0] \in FlagBytes /\ r_pc \in WordAddresses
        /\ r_instruction \in Addresses /\ r_int_id \in Ids /\ r_data \in AByte
    BY <1>0 DEF RegisterTypes
  <2>4. BytesAt(mem')
    BY <1>0, <1>2, VmBytes
  <2> QED  BY <1>0, <1>1, <1>2, <1>3, <2>2, <2>3, <2>4, TypesKeep DEF Moving
<1>8. Rest'
  <2>1. IdleInv'
    BY <1>1, <1>3, <1>4, <1>6 DEF IdleInv, Idle
  <2>2. FetchInv'
    BY <1>1, <1>2, <1>4, <1>6 DEF FetchInv, Reads
  <2>3. PullInv' /\ SingleInv' /\ LinkInv' /\ EnterInv'
    BY <1>1 DEF PullInv, SingleInv, LinkInv, EnterInv
  <2> QED  BY <2>1, <2>2, <2>3 DEF Rest
<1> QED  BY <1>4, <1>7, <1>8 DEF FromTo

\* Around a clock that does not wait: the store under way is made, and the bus
\* is free for the next.
LEMMA Around ==
  ASSUME SequenceInv, NEW ready, Moving(ready)
  PROVE  /\ ControlInv /\ BusInv /\ RegisterTypes
         /\ taken \in Nat /\ gpr \in Bytes /\ csr \in Bytes /\ csr[0] \in FlagBytes /\ r_pc \in WordAddresses
         /\ r_instruction \in Addresses /\ r_int_id \in Ids /\ r_data \in AByte /\ r_address \in Addresses
         /\ mem' = VM /\ ~bus'.stb /\ BytesAt(mem') /\ BytesAt(VM)
         /\ cu'.wfi \in BOOLEAN /\ cu.wfi \in BOOLEAN
         /\ (ready \/ ~Waiting) /\ ~request.req
         /\ last' = IF Boundary' THEN Reached' ELSE last
<1>1. ControlInv /\ BusInv /\ RegisterTypes /\ taken \in Nat
  BY DEF SequenceInv, BusInv, RequestInv
<1>2. /\ gpr \in Bytes /\ csr \in Bytes /\ csr[0] \in FlagBytes /\ r_pc \in WordAddresses
      /\ r_instruction \in Addresses /\ r_int_id \in Ids /\ r_data \in AByte /\ r_address \in Addresses
  BY <1>1 DEF RegisterTypes
<1>3. mem' = VM /\ ~bus'.stb
  BY <1>1, MemoryMoves DEF Moving
<1>4. BytesAt(mem') /\ BytesAt(VM)
  BY <1>1, <1>3, VmBytes
<1>5. cu'.wfi \in BOOLEAN /\ cu.wfi \in BOOLEAN
  BY <1>1 DEF Moving, Moves, ControlInv
<1>6. (ready \/ ~Waiting) /\ ~request.req
  BY <1>1 DEF Moving, Moves, BusInv, OneTransfer
<1>7. last' = IF Boundary' THEN Reached' ELSE last
  BY DEF Moving
<1> QED  BY <1>1, <1>2, <1>3, <1>4, <1>5, <1>6, <1>7

\* The byte that came, and where it came from.
LEMMA ByteComes ==
  ASSUME SequenceInv, NEW ready, Moving(ready), NEW a, Reads(a)
  PROVE  w_wb_data_o = Manual!Load(VM, a) /\ w_wb_data_o \in AByte
<1>1. w_wb_data_o = Manual!Load(VM, a)
  BY Comes
<1>2. a = r_address
  BY DEF Reads
<1> QED  BY <1>1, <1>2, Around, LoadByte

\* What arrives from the bus is a byte.
LEMMA ByteArrives ==
  ASSUME SequenceInv, NEW ready, Moving(ready)
  PROVE  w_wb_data_o \in AByte
<1>1. BytesAt(mem)
  BY Around, VmBytes
<1> QED  BY <1>1, Around, LoadByte DEF w_wb_data_o

LEMMA Halves ==
  ASSUME NEW w \in Addresses, NEW b \in AByte
  PROVE  /\ 256 * (w \div 256) + b \in Addresses
         /\ (256 * (w \div 256) + b) % 256 = b
         /\ (w % 256) + 256 * b \in Addresses
<1> DEFINE h == w \div 256
           l == w % 256
<1>2. h \in AByte /\ l \in AByte
  BY Divided
<1> HIDE DEF h, l
<1>3. 256 * h + b \in Addresses /\ (256 * h + b) % 256 = b
  BY <1>2, Joined
<1>5. 256 * b + l \in Addresses
  BY <1>2, Joined
<1>4. l + 256 * b = 256 * b + l
  BY <1>2, ByteIs
<1> QED  BY <1>3, <1>4, <1>5 DEF h, l

\* The pc counts words and the address bytes.
LEMMA NextWord ==
  ASSUME NEW p \in WordAddresses
  PROVE  /\ (p + 1) % 2^15 \in WordAddresses
         /\ 2 * ((p + 1) % 2^15) = (2 * p + 2) % 65536
         /\ 2 * p + 1 = (2 * p + 1) % 65536 /\ 2 * p + 1 \in Addresses /\ 2 * p \in Addresses
<1>0. 2^15 = 32768
  BY SMTT(30)
<1>1. p \in Int /\ 0 <= p /\ p <= 32767
  BY SMTT(30) DEF WordAddresses
<1>2. CASE p = 32767
  BY <1>0, <1>2 DEF WordAddresses, Addresses
<1>3. CASE p # 32767
  <2>0. p <= 32766
    BY <1>1, <1>3
  <2>1. (p + 1) % 32768 = p + 1
    BY <1>1, <2>0
  <2>2. (2 * p + 2) % 65536 = 2 * p + 2
    BY <1>1, <2>0
  <2>3. (2 * p + 1) % 65536 = 2 * p + 1
    BY <1>1, <2>0
  <2>4. p + 1 \in WordAddresses
    <3> DEFINE q == p + 1
    <3>1. q \in Int /\ q >= 0 /\ q <= 32767
      BY <1>1, <2>0
    <3> HIDE DEF q
    <3>2. q \in WordAddresses
      BY <3>1, InWordAddresses
    <3> QED  BY <3>2 DEF q
  <2>6. 2 * p + 1 \in Addresses
    <3>1. 2 * p + 1 \in Int /\ 2 * p + 1 >= 0 /\ 2 * p + 1 <= 65535
      BY <1>1
    <3> QED  BY <3>1, InAddresses
  <2>7. 2 * p \in Addresses
    <3>1. 2 * p \in Int /\ 2 * p >= 0 /\ 2 * p <= 65535
      BY <1>1
    <3> QED  BY <3>1, InAddresses
  <2>5. 2 * (p + 1) = 2 * p + 2
    BY <1>1
  <2> QED  BY <1>0, <2>1, <2>2, <2>3, <2>4, <2>5, <2>6, <2>7
<1> QED  BY <1>2, <1>3

\* FetchHigh has the first byte and asks for the second.
LEMMA DoesFetchHigh ==
  ASSUME SequenceInv, NEW ready, Moving(ready), FetchHigh
  PROVE  RegisterTypes' /\ Rest' /\ FromTo(last, last')
<1>0. /\ ControlInv /\ RegisterTypes /\ FetchInv /\ IdleInv /\ taken \in Nat
  BY DEF SequenceInv, BusInv, RequestInv
<1>1. /\ cu.stage = 1 /\ cu'.stage = 2 /\ cu'.int_stage = cu.int_stage /\ cu'.internal = cu.internal /\ cu'.wfi = cu.wfi
      /\ cu'.int_stage = 0
  BY <1>0, CuFields DEF FetchHigh, ControlInv
<1>2. VM' = VM /\ r_address' = 2 * r_pc + 1 /\ ~Storing' /\ r_data' = r_data
  BY Around, AsksFor DEF FetchHigh
<1>3. gpr' = gpr /\ csr' = csr /\ r_pc' = r_pc /\ r_int_id' = r_int_id /\ taken' = taken
  BY DEF FetchHigh
<1>4. last' = last
  BY <1>1, Around DEF Boundary, Idle
<1>5. View = last.machine /\ Reads(last.machine.pc)
  BY <1>0, <1>1 DEF FetchInv
<1>6. View' = last.machine /\ last.machine.pc = 2 * r_pc /\ last.machine.mem = VM
  <2>1. View' = View
    BY <1>1, <1>2, <1>3, ViewStays
  <2>3. View.pc = 2 * r_pc /\ View.mem = VM
    BY ViewIs, MachFields
  <2> QED  BY <1>5, <2>1, <2>3
<1>7. /\ r_instruction' \in Addresses
      /\ r_instruction' % 256 = Manual!Load(last.machine.mem, last.machine.pc)
  <2>1. w_wb_data_o = Manual!Load(last.machine.mem, last.machine.pc) /\ w_wb_data_o \in AByte
    BY <1>5, <1>6, ByteComes
  <2>2. r_instruction' = 256 * (r_instruction \div 256) + w_wb_data_o
    BY DEF FetchHigh
  <2>3. /\ 256 * (r_instruction \div 256) + w_wb_data_o \in Addresses
        /\ (256 * (r_instruction \div 256) + w_wb_data_o) % 256 = w_wb_data_o
    BY <2>1, Around, Halves
  <2> QED  BY <2>1, <2>2, <2>3
<1>8. r_address' = (last.machine.pc + 1) % 65536 /\ r_address' \in Addresses
  BY <1>2, <1>6, Around, NextWord
<1>9. RegisterTypes'
  BY <1>1, <1>2, <1>3, <1>7, <1>8, Around, TypesKeep
<1>10. Rest'
  <2>1. IdleInv'
    BY <1>0, <1>1, <1>3, <1>4 DEF IdleInv, Idle
  <2>2. FetchInv'
    BY <1>1, <1>2, <1>4, <1>6, <1>7, <1>8 DEF FetchInv, Reads
  <2>3. PullInv' /\ SingleInv' /\ LinkInv' /\ EnterInv'
    BY <1>1 DEF PullInv, SingleInv, LinkInv, EnterInv
  <2> QED  BY <2>1, <2>2, <2>3 DEF Rest
<1> QED  BY <1>4, <1>9, <1>10 DEF FromTo

\* Fetched has the whole word, and the pc moves on.
LEMMA DoesFetched ==
  ASSUME SequenceInv, NEW ready, Moving(ready), Fetched
  PROVE  RegisterTypes' /\ Rest' /\ FromTo(last, last')
<1>0. /\ ControlInv /\ RegisterTypes /\ FetchInv /\ IdleInv /\ taken \in Nat
  BY DEF SequenceInv, BusInv, RequestInv
<1>1. /\ cu.stage = 2 /\ cu'.stage = 3 /\ cu'.int_stage = cu.int_stage /\ cu'.internal = cu.internal /\ cu'.wfi = cu.wfi
      /\ cu'.int_stage = 0
  BY <1>0, CuFields DEF Fetched, ControlInv
<1>2. VM' = VM /\ r_address' = r_address /\ ~Storing' /\ r_data' = r_data
  BY Around, AsksNothing DEF Fetched
<1>3. gpr' = gpr /\ csr' = csr /\ r_pc' = (r_pc + 1) % 2^15 /\ r_int_id' = r_int_id /\ taken' = taken
  BY DEF Fetched
<1>4. last' = last
  BY <1>1, Around DEF Boundary, Idle
<1>5. /\ View = last.machine /\ Reads((last.machine.pc + 1) % 65536)
      /\ r_instruction % 256 = Manual!Load(last.machine.mem, last.machine.pc)
  BY <1>0, <1>1 DEF FetchInv
<1>6. last.machine = Mach(gpr, VC, 2 * r_pc, VM, cu.wfi)
  BY <1>5, ViewIs
<1>7. View' = Going
  <2>1. Going = Mach(gpr, VC, (2 * r_pc + 2) % 65536, VM, cu.wfi)
    BY <1>0, <1>6, LastParts
  <2>2. View' = Mach(gpr, VC, 2 * r_pc', VM, cu.wfi)
    BY <1>1, <1>2, <1>3, ViewNext, VcStays
  <2>3. 2 * r_pc' = (2 * r_pc + 2) % 65536
    BY <1>3, Around, NextWord
  <2> QED  BY <2>1, <2>2, <2>3
<1>8. r_instruction' \in Addresses /\ r_instruction' = Here
  <2>1. w_wb_data_o = Manual!Load(VM, (last.machine.pc + 1) % 65536) /\ w_wb_data_o \in AByte
    BY <1>5, ByteComes
  <2>2. last.machine.mem = VM
    BY <1>6, MachFields
  <2>3. r_instruction' = (r_instruction % 256) + 256 * w_wb_data_o
    BY DEF Fetched
  <2>4. (r_instruction % 256) + 256 * w_wb_data_o \in Addresses
    BY <2>1, Around, Halves
  <2>5. r_instruction' = Manual!Load(last.machine.mem, last.machine.pc)
                         + 256 * Manual!Load(last.machine.mem, (last.machine.pc + 1) % 65536)
    BY <1>5, <2>1, <2>2, <2>3
  <2> QED  BY <2>3, <2>4, <2>5 DEF Here, WordAt
<1>9. RegisterTypes'
  <2>1. r_pc' \in WordAddresses
    BY <1>3, Around, NextWord
  <2> QED  BY <1>1, <1>2, <1>3, <1>8, <2>1, Around, TypesKeep
<1>10. Rest'
  <2>1. IdleInv'
    BY <1>0, <1>1, <1>3, <1>4 DEF IdleInv, Idle
  <2>2. Going' = Going /\ Here' = Here
    BY <1>4 DEF Going, Here
  <2>3. FetchInv'
    BY <1>1, <1>7, <1>8, <2>2 DEF FetchInv
  <2>4. PullInv' /\ SingleInv' /\ LinkInv' /\ EnterInv'
    BY <1>1 DEF PullInv, SingleInv, LinkInv, EnterInv
  <2> QED  BY <2>1, <2>3, <2>4 DEF Rest
<1> QED  BY <1>4, <1>9, <1>10 DEF FromTo

-----------------------------------------------------------------------------
(* Registers stay bytes. *)

\* The fields of a word, its immediate and its operation are in their ranges.
LEMMA FieldInt ==
  ASSUME NEW w \in Int
  PROVE  /\ dst(w) \in 0..7 /\ src(w) \in 0..7 /\ mod(w) \in 0..7
         /\ Field(w, 4, 3) \in 0..7 /\ Field(w, 4, 4) \in 0..15 /\ Field(w, 4, 9) \in 0..511
         /\ Field(w, 5, 8) \in 0..255 /\ Field(w, 8, 2) \in 0..3
<1>1. dst(w) \in 0..7 BY DEF dst, Field
<1>2. src(w) \in 0..7 BY DEF src, Field
<1>3. mod(w) \in 0..7 BY DEF mod, Field
<1>4. Field(w, 4, 3) \in 0..7 BY DEF Field
<1>5. Field(w, 4, 4) \in 0..15 BY DEF Field
<1>6. Field(w, 4, 9) \in 0..511 BY DEF Field
<1>7. Field(w, 5, 8) \in 0..255 BY DEF Field
<1>8. Field(w, 8, 2) \in 0..3 BY DEF Field
<1> QED  BY <1>1, <1>2, <1>3, <1>4, <1>5, <1>6, <1>7, <1>8

LEMMA FieldsAreInt ==
  ASSUME NEW w \in Int
  PROVE  /\ dst(w) \in Int /\ src(w) \in Int /\ mod(w) \in Int
         /\ Field(w, 4, 3) \in Int /\ Field(w, 4, 4) \in Int /\ Field(w, 4, 9) \in Int
         /\ Field(w, 5, 8) \in Int
<1>1. dst(w) \in Int /\ src(w) \in Int /\ mod(w) \in Int
  BY DEF dst, src, mod, Field
<1>2. Field(w, 4, 3) \in Int /\ Field(w, 4, 4) \in Int /\ Field(w, 4, 9) \in Int /\ Field(w, 5, 8) \in Int
  BY DEF Field
<1> QED  BY <1>1, <1>2

LEMMA ImmediateInt ==
  ASSUME NEW w \in Int, NEW kind
  PROVE  Immediate(kind, w) \in Addresses /\ Immediate(kind, w) \in Int
<1>1. \A v \in Int : v % 65536 \in Addresses
  BY Wraps
<1>2. 0 \in Addresses
  BY InAddresses
<1>3. \A v \in Int : sign_extend(v, 6) \in Int /\ sign_extend(v, 8) \in Int
                       /\ sign_extend(v, 7) \in Int /\ sign_extend(v, 9) \in Int
  BY DEF sign_extend
<1>4. /\ sign_extend(Field(w, 4, 3) * 8 + mod(w), 6) \in Int
      /\ sign_extend(Field(w, 5, 8), 8) \in Int
      /\ Offset7(dst(w), w) \in Int /\ Offset7(src(w), w) \in Int
      /\ 2 * sign_extend(Field(w, 4, 9), 9) \in Int
  <2> DEFINE a == Field(w, 4, 3)
             b == mod(w)
             c == dst(w)
             d == src(w)
             e == Field(w, 4, 4)
             f == Field(w, 5, 8)
             g == Field(w, 4, 9)
  <2>1. a \in Int /\ b \in Int /\ c \in Int /\ d \in Int /\ e \in Int /\ f \in Int /\ g \in Int
    BY FieldsAreInt
  <2> HIDE DEF a, b, c, d, e, f, g
  <2>2. a * 8 + b \in Int /\ c * 16 + e \in Int /\ d * 16 + e \in Int
    BY <2>1
  <2>3. /\ sign_extend(a * 8 + b, 6) \in Int /\ sign_extend(f, 8) \in Int
        /\ sign_extend(c * 16 + e, 7) \in Int /\ sign_extend(d * 16 + e, 7) \in Int
        /\ 2 * sign_extend(g, 9) \in Int
    BY <1>3, <2>1, <2>2
  <2> QED  BY <2>3 DEF Offset7, a, b, c, d, e, f, g
<1>5. Immediate(kind, w) \in Addresses
  BY <1>1, <1>2, <1>4 DEF Immediate
<1> DEFINE i == Immediate(kind, w)
<1> HIDE DEF i
<1>6. i \in Addresses
  BY <1>5 DEF i
<1>7. i \in Int
  BY <1>6 DEF Addresses
<1> QED  BY <1>6, <1>7 DEF i

\* Shifts and logic stay integers.
LEMMA PowerOfTwo ==
  ASSUME NEW n \in 0..7
  PROVE  2^n \in Int /\ 2^n # 0 /\ 2^n > 0
<1>0. CASE n = 0 BY <1>0
<1>1. CASE n = 1 BY <1>1
<1>2. CASE n = 2 BY <1>2
<1>3. CASE n = 3 BY <1>3
<1>4. CASE n = 4 BY <1>4
<1>5. CASE n = 5 BY <1>5
<1>6. CASE n = 6 BY <1>6
<1>7. CASE n = 7 BY <1>7
<1> QED  BY <1>0, <1>1, <1>2, <1>3, <1>4, <1>5, <1>6, <1>7

LEMMA LogicInt ==
  ASSUME NEW a \in Int, NEW b \in Int
  PROVE  (a & b) \in Int /\ (a | b) \in Int /\ (a ^^ b) \in Int
<1> DEFINE Weights == {1, 2, 4, 8, 16, 32, 64, 128}
<1>0. Weights \subseteq Int
  OBVIOUS
<1> HIDE DEF Weights
<1>1. ASSUME NEW x \in Int, NEW w \in Weights
      PROVE  BitOf(x, w) \in Int
  BY <1>0, <1>1 DEF BitOf
<1>2. (a & b) \in Int
  <2>1. \A w \in Weights : BitOf(a, w) * BitOf(b, w) \in Int
    <3> TAKE w \in Weights
    <3>1. BitOf(a, w) \in Int /\ BitOf(b, w) \in Int
      BY <1>1
    <3> QED  BY <3>1
  <2> DEFINE P(w) == BitOf(a, w) * BitOf(b, w)
  <2>2. P(1) \in Int /\ P(2) \in Int /\ P(4) \in Int /\ P(8) \in Int
        /\ P(16) \in Int /\ P(32) \in Int /\ P(64) \in Int /\ P(128) \in Int
    BY <2>1 DEF Weights
  <2>3. (a & b) = P(1) + 2 * P(2) + 4 * P(4) + 8 * P(8) + 16 * P(16) + 32 * P(32) + 64 * P(64) + 128 * P(128)
    BY DEF &, ByteOf
  <2> HIDE DEF P
  <2> QED  BY <2>2, <2>3
<1>3. (a ^^ b) \in Int
  <2>1. \A w \in Weights : (BitOf(a, w) + BitOf(b, w)) % 2 \in Int
    <3> TAKE w \in Weights
    <3>1. BitOf(a, w) \in Int /\ BitOf(b, w) \in Int
      BY <1>1
    <3> QED  BY <3>1
  <2> DEFINE P(w) == (BitOf(a, w) + BitOf(b, w)) % 2
  <2>2. P(1) \in Int /\ P(2) \in Int /\ P(4) \in Int /\ P(8) \in Int
        /\ P(16) \in Int /\ P(32) \in Int /\ P(64) \in Int /\ P(128) \in Int
    BY <2>1 DEF Weights
  <2>3. (a ^^ b) = P(1) + 2 * P(2) + 4 * P(4) + 8 * P(8) + 16 * P(16) + 32 * P(32) + 64 * P(64) + 128 * P(128)
    BY DEF ^^, ByteOf
  <2> HIDE DEF P
  <2> QED  BY <2>2, <2>3
<1> QED  BY <1>2, <1>3 DEF |

LEMMA AluOpInt ==
  ASSUME NEW w \in Int, NEW kind
  PROVE  AluOp(kind, w) \in 0..12
<1>1. Field(w, 4, 3) \in 0..7
  BY FieldInt
<1>2. Field(w, 4, 3) % 4 \in 0..3
  BY <1>1
<1>3. <<2, 3, 0, 1, 4, 5, 6, 7>>[Field(w, 4, 3) + 1] \in 0..12
  BY <1>1
<1>4. 8 + (Field(w, 4, 3) % 4) \in 0..12
  BY <1>2
<1> HIDE DEF Field
<1> QED  BY <1>3, <1>4 DEF AluOp

\* What the ALU gives, cut to a byte, is a byte, and its flags are four bits.
LEMMA AluInt ==
  ASSUME NEW op \in 0..12, NEW x \in Int, NEW y \in Int, NEW c \in Int, NEW signed \in BOOLEAN, NEW junk \in Int
  PROVE  Alu(op, x, y, c, signed, junk).r % 256 \in AByte /\ Alu(op, x, y, c, signed, junk).f \in 0..15
<1> DEFINE a == x % 256
           b == y % 256
           pow == 2^(b % 8)
           wide == IF op = 10 /\ signed THEN sign_extend(a, 8) ELSE a
           low == CASE op = 4 -> a & b [] op = 5 -> a | b [] op = 6 -> 255 - (a | b) [] op = 7 -> a ^^ b
                 [] op = 8 -> (a * pow) % 256
                 [] OTHER -> (wide \div pow) % 256
           r == CASE op = 0 -> (x + y) % 65536     [] op = 1 -> (x + y + c) % 65536
               [] op = 2 -> (x - y) % 65536     [] op = 3 -> (x - y - (1 - c)) % 65536
               [] op = 11 -> x [] op = 12 -> y  [] OTHER -> low + 256 * junk
           minus == op \in {2, 3}
           f == SetIf((Field(r, 8, 1) = 1) # minus, 1) + SetIf(r % 256 = 0, 2) + SetIf(Top(r) = 1, 4)
               + SetIf((Top(x) # Top(y)) = minus /\ Top(x) # Top(r), 8)
<1>1. Alu(op, x, y, c, signed, junk) = [r |-> r, f |-> f]
  BY DEF Alu
<1>2. a \in Int /\ b \in Int /\ b % 8 \in 0..7
  OBVIOUS
<1>3. pow \in Int /\ pow # 0 /\ pow > 0
  <2> HIDE DEF b
  <2> QED  BY <1>2, PowerOfTwo
<1>4. wide \in Int
  <2> HIDE DEF a
  <2> QED  BY <1>2 DEF sign_extend
<1>5. low \in Int
  <2> HIDE DEF a, b, pow, wide
  <2>1. (a * pow) % 256 \in Int /\ (wide \div pow) % 256 \in Int
    BY <1>2, <1>3, <1>4
  <2>2. (a & b) \in Int /\ (a | b) \in Int /\ (a ^^ b) \in Int
    BY <1>2, LogicInt
  <2> QED  BY <2>1, <2>2
<1>6. r \in Int
  <2> HIDE DEF low
  <2> QED  BY <1>5
<1>7. r % 256 \in AByte
  <2> HIDE DEF r
  <2> QED  BY <1>6 DEF AByte
<1>8. f \in 0..15
  <2> HIDE DEF r
  <2>1. \A t : SetIf(t, 1) \in {0, 1} /\ SetIf(t, 2) \in {0, 2} /\ SetIf(t, 4) \in {0, 4} /\ SetIf(t, 8) \in {0, 8}
    BY DEF SetIf
  <2> QED  BY <2>1
<1> HIDE DEF r, f
<1> QED  BY <1>1, <1>7, <1>8

-----------------------------------------------------------------------------
(* Instructions of one clock. *)

\* The instruction is in, the pc past it, and nothing else has changed.
LEMMA AtStage3 ==
  ASSUME SequenceInv, cu.stage = 3
  PROVE  /\ Going = Mach(gpr, VC, 2 * r_pc, VM, cu.wfi) /\ r_instruction = Here
         /\ ~cu.internal /\ cu.int_stage = 0 /\ last.taken = taken
         /\ ~last.machine.wait_for_interrupt /\ cu.wfi = FALSE
<1>1. ControlInv /\ FetchInv /\ IdleInv /\ RegisterTypes
  BY DEF SequenceInv, BusInv
<1>2. View = Going /\ r_instruction = Here
  BY <1>1 DEF FetchInv
<1>3. ~cu.internal /\ last.taken = taken /\ ~last.machine.wait_for_interrupt
  BY <1>1 DEF IdleInv
<1>4. cu.int_stage = 0
  BY <1>1 DEF ControlInv
<1>5. cu.wfi = FALSE
  <2>1. last.machine = Mach(last.machine.gpr, last.machine.csr, last.machine.pc, last.machine.mem,
                            last.machine.wait_for_interrupt)
    BY <1>1, LastIs DEF RegisterTypes
  <2>2. Going.wait_for_interrupt = last.machine.wait_for_interrupt
    BY <2>1, MachPast, MachFields DEF Going
  <2>3. View.wait_for_interrupt = cu.wfi
    BY ViewIs, MachFields
  <2>4. cu.wfi \in BOOLEAN
    BY <1>1, CuFields
  <2> QED  BY <1>2, <1>3, <2>2, <2>3, <2>4
<1> QED  BY <1>2, <1>3, <1>4, <1>5, ViewIs

\* The clock that ends an instruction.
LEMMA Finishes ==
  ASSUME SequenceInv, NEW ready, Moving(ready), cu'.stage = 0, cu'.int_stage = 0, ~cu'.internal,
         ~Storing', VM' = mem', taken' = taken, taken = last.taken, ~last.machine.wait_for_interrupt,
         View' \in After(Going, Here)
  PROVE  Rest' /\ FromTo(last, last')
<1>1. View' = Now'
  BY ViewNext
<1>2. last' = Reached'
  BY Around DEF Boundary, Idle
<1>3. IdleInv'
  BY <1>1, <1>2 DEF IdleInv, Idle, Reached
<1>4. FetchInv' /\ PullInv' /\ SingleInv' /\ LinkInv' /\ EnterInv'
  BY DEF FetchInv, PullInv, SingleInv, LinkInv, EnterInv
<1>5. last'.machine = View' /\ last'.taken = last.taken
  BY <1>1, <1>2 DEF Reached
<1>6. FromTo(last, last')
  BY <1>5 DEF FromTo, Going, Here
<1> QED  BY <1>3, <1>4, <1>6 DEF Rest

\* The cases of After.
LEMMA AfterCalculation ==
  ASSUME NEW m, NEW w, Kind(w) \in {"ALU", "SHIFT", "ADD", "LI", "CARRY", "COMPARE"}, NEW junk \in Choices(w)
  PROVE  Calculated(m, w, junk) \in After(m, w)
BY DEF After

\* What each kind of word comes to, one branch of After at a time.
LEMMA AfterIllegal ==
  ASSUME NEW m, NEW w, Kind(w) = "ILLEGAL", NEW id \in 0..127
  PROVE  Entered(m, id, Cleared) \in After(m, w)
BY DEF After

LEMMA AfterLb ==
  ASSUME NEW m, NEW w, Kind(w) = "LB"
  PROVE  [m EXCEPT !.gpr[dst(w)] = Manual!Load(m.mem, Place(m, w))] \in After(m, w)
BY DEF After

LEMMA AfterSb ==
  ASSUME NEW m, NEW w, Kind(w) = "SB"
  PROVE  [m EXCEPT !.mem = Manual!Store(m.mem, Place(m, w), Source(m, w))] \in After(m, w)
BY DEF After

LEMMA AfterPush ==
  ASSUME NEW m, NEW w, Kind(w) = "PUSH"
  PROVE  Manual!Pushed(m, Source(m, w)) \in After(m, w)
BY DEF After

LEMMA AfterPop ==
  ASSUME NEW m, NEW w, Kind(w) = "POP"
  PROVE  [Manual!Dropped(m, 1) EXCEPT !.gpr[dst(w)] = Manual!Popped(m, 1)] \in After(m, w)
BY DEF After

LEMMA AfterB ==
  ASSUME NEW m, NEW w, Kind(w) = "B"
  PROVE  (IF Condition(w, m.csr[0]) THEN [m EXCEPT !.pc = Goal(m, w)] ELSE m) \in After(m, w)
BY DEF After

LEMMA AfterBl ==
  ASSUME NEW m, NEW w, Kind(w) = "BL"
  PROVE  (IF Condition(w, m.csr[0]) THEN [Linked(m) EXCEPT !.pc = Goal(m, w)] ELSE m) \in After(m, w)
BY DEF After

LEMMA AfterRet ==
  ASSUME NEW m, NEW w, Kind(w) = "RET"
  PROVE  [Manual!Dropped(m, 2) EXCEPT !.pc = Back(m, 1)] \in After(m, w)
BY DEF After

LEMMA AfterReti ==
  ASSUME NEW m, NEW w, Kind(w) = "RETI"
  PROVE  [Manual!Dropped(m, 3) EXCEPT !.pc = Back(m, 2), !.csr[0] = Kept(Manual!Popped(m, 1)) + Cleared] \in After(m, w)
BY DEF After

LEMMA AfterSwi ==
  ASSUME NEW m, NEW w, Kind(w) = "SWI"
  PROVE  Entered(m, Source(m, w) % 128, Cleared) \in After(m, w)
BY DEF After

LEMMA AfterWfi ==
  ASSUME NEW m, NEW w, Kind(w) = "WFI"
  PROVE  [m EXCEPT !.wait_for_interrupt = TRUE] \in After(m, w)
BY DEF After

LEMMA AfterNop ==
  ASSUME NEW m, NEW w, Kind(w) = "NOP"
  PROVE  m \in After(m, w)
BY DEF After

LEMMA AfterFromCsr ==
  ASSUME NEW m, NEW w, Kind(w) = "FROM CSR"
  PROVE  [m EXCEPT !.gpr[dst(w)] = m.csr[src(w)]] \in After(m, w)
BY DEF After

LEMMA AfterToCsr ==
  ASSUME NEW m, NEW w, Kind(w) = "TO CSR"
  PROVE  [m EXCEPT !.csr[dst(w)] = IF dst(w) = 0 THEN Kept(Source(m, w)) + Cleared ELSE Source(m, w)] \in After(m, w)
BY DEF After

\* Flags the ALU replaces keep the interrupt bit and nothing else.
LEMMA NewFlags ==
  ASSUME NEW b \in FlagBytes, NEW f \in 0..15
  PROVE  128 * (b \div 128) + f \in FlagBytes /\ 128 * (b \div 128) + f \in AByte
<1>1. b \in 0..143
  BY MultiCycleAssumption, FlagByteIs
<1>2. b \div 128 \in 0..1
  BY <1>1
<1> DEFINE d == b \div 128
           v == 128 * d + f
<1>3. v \in 0..255 /\ Kept(v) = v
  <2> HIDE DEF d
  <2>1. d = 0 \/ d = 1
    BY <1>2 DEF d
  <2>2. CASE d = 0
    BY <2>2 DEF Kept
  <2>3. CASE d = 1
    BY <2>3 DEF Kept
  <2> QED  BY <2>1, <2>2, <2>3
<1> HIDE DEF v
<1>4. v \in FlagBytes /\ v \in AByte
  BY <1>3 DEF FlagBytes, AByte
<1> QED  BY <1>4 DEF v

\* The bits of the flags that conditions look at do not change by what is shown above them.
LEMMA ConditionShown ==
  ASSUME RegisterTypes, NEW w \in Addresses
  PROVE  Condition(w, Shown) <=> Condition(w, csr[0])
<1>1. PICK i \in 0..15, j \in 0..1 : csr[0] = i + 128 * j
  <2>1. PICK a \in 0..255 : csr[0] = (a % 16) + 128 * (a \div 128)
    BY DEF RegisterTypes, FlagBytes, AByte, Kept
  <2>2. a % 16 \in 0..15 /\ a \div 128 \in 0..1
    OBVIOUS
  <2> QED  BY <2>1, <2>2
<1>2. PICK r \in 0..7 : r = Reserved
  BY MultiCycleAssumption
<1>3. Shown = i + 128 * j + 16 * r
  BY <1>1, <1>2 DEF Shown
<1> DEFINE a == csr[0]
           b == Shown
<1>4. /\ Field(b, 0, 1) = Field(a, 0, 1) /\ Field(b, 1, 1) = Field(a, 1, 1)
      /\ Field(b, 2, 1) = Field(a, 2, 1) /\ Field(b, 3, 1) = Field(a, 3, 1)
  <2>1. a = i + 128 * j /\ b = i + 128 * j + 16 * r
    BY <1>1, <1>3
  <2> HIDE DEF a, b
  <2>2. Field(b, 0, 1) = Field(a, 0, 1)
    BY <2>1 DEF Field
  <2>3. Field(b, 1, 1) = Field(a, 1, 1)
    BY <2>1 DEF Field
  <2>4. Field(b, 2, 1) = Field(a, 2, 1)
    BY <2>1 DEF Field
  <2>5. Field(b, 3, 1) = Field(a, 3, 1)
    BY <2>1 DEF Field
  <2> QED  BY <2>2, <2>3, <2>4, <2>5
<1> HIDE DEF a, b
<1>5. <<1, 0, 2, 3>>[(dst(w) \div 2) + 1] \in 0..3
  <2> DEFINE d == dst(w)
  <2>1. d \in 0..7
    BY FieldInt, AddressIs
  <2> HIDE DEF d
  <2>2. (d \div 2) + 1 \in 1..4
    BY <2>1
  <2>3. \A k \in 1..4 : <<1, 0, 2, 3>>[k] \in 0..3
    OBVIOUS
  <2> DEFINE e == (d \div 2) + 1
  <2>4. e \in 1..4
    BY <2>2
  <2> HIDE DEF e
  <2>5. <<1, 0, 2, 3>>[e] \in 0..3
    BY <2>3, <2>4
  <2> QED  BY <2>5 DEF d, e
<1>6. Condition(w, b) <=> Condition(w, a)
  <2> DEFINE n == <<1, 0, 2, 3>>[(dst(w) \div 2) + 1]
  <2>1. Field(b, n, 1) = Field(a, n, 1)
    <3>1. n \in 0..3
      BY <1>5
    <3> HIDE DEF n
    <3>2. n = 0 \/ n = 1 \/ n = 2 \/ n = 3
      BY <3>1
    <3> QED  BY <1>4, <3>2
  <2> QED  BY <2>1 DEF Condition
<1> QED  BY <1>6 DEF a, b

\* A pair of registers is an address.
LEMMA PairOf ==
  ASSUME gpr \in Bytes, NEW w \in Addresses
  PROVE  /\ \A m : m.gpr = gpr => PairAt(m, w) = PairAt([gpr |-> gpr], w)
         /\ PairAt([gpr |-> gpr], w) \in Addresses
<1>1. Field(w, 8, 2) \in 0..3
  BY SMTT(30), FieldInt DEF Addresses
<1>2. gpr[2 * Field(w, 8, 2)] \in AByte /\ gpr[2 * Field(w, 8, 2) + 1] \in AByte
  BY <1>1 DEF Bytes
<1> DEFINE lo == gpr[2 * Field(w, 8, 2)]
           hi == gpr[2 * Field(w, 8, 2) + 1]
<1>3. lo + 256 * hi \in Addresses
  <2>1. lo \in AByte /\ hi \in AByte
    BY <1>2
  <2> HIDE DEF lo, hi
  <2>2. 256 * hi + lo \in Addresses
    BY <2>1, Joined
  <2>3. 256 * hi + lo = lo + 256 * hi
    <3>1. lo \in Int /\ hi \in Int
      BY <2>1, ByteIs
    <3> QED  BY <3>1
  <2> QED  BY <2>2, <2>3
<1>4. \A m : PairAt(m, w) = m.gpr[2 * Field(w, 8, 2)] + 256 * m.gpr[2 * Field(w, 8, 2) + 1]
  BY DEF PairAt
<1> DEFINE sum == lo + 256 * hi
           own == PairAt([gpr |-> gpr], w)
<1>5. own = sum
  BY <1>4
<1>6. \A m : m.gpr = gpr => PairAt(m, w) = sum
  BY <1>4
<1>7. sum \in Addresses
  BY <1>3
<1> HIDE DEF sum, own
<1>8. own \in Addresses
  BY <1>5, <1>7
<1>9. \A m : m.gpr = gpr => PairAt(m, w) = own
  BY <1>5, <1>6
<1> QED  BY SMTT(30), <1>8, <1>9 DEF own

\* Where a taken branch goes.
LEMMA TargetIs ==
  ASSUME RegisterTypes, NEW m, m.gpr = gpr, m.pc = 2 * r_pc
  PROVE  2 * Target = Goal(m, r_instruction) /\ Target \in WordAddresses
<1>1. r_pc \in WordAddresses /\ r_instruction \in Addresses /\ gpr \in Bytes
  BY DEF RegisterTypes
<1>2. CASE Relative(r_instruction)
  <2> DEFINE i == Immediate("B", r_instruction)
             t == (r_pc + (i \div 2)) % 2^15
  <2>1. PICK j \in Int : i = 2 * j
    <3>1. i = (2 * sign_extend(Field(r_instruction, 4, 9), 9)) % 65536
      BY DEF Immediate
    <3>2. sign_extend(Field(r_instruction, 4, 9), 9) \in Int
      <4>1. r_instruction \in Int
        BY <1>1, AddressIs
      <4>2. Field(r_instruction, 4, 9) \in Int
        BY <4>1, FieldsAreInt
      <4> QED  BY <4>2 DEF sign_extend
    <3> DEFINE x == sign_extend(Field(r_instruction, 4, 9), 9)
    <3> HIDE DEF x
    <3>3. x \in Int /\ i = (2 * x) % 65536
      BY <3>1, <3>2 DEF x
    <3> HIDE DEF i
    <3> DEFINE y == x % 32768
    <3>4. y \in Int
      BY <3>3
    <3>5. (2 * x) % 65536 = 2 * y
      BY <3>3
    <3> HIDE DEF y
    <3>6. i = 2 * y
      BY <3>3, <3>5
    <3> QED  BY <3>4, <3>6
  <2>2. Target = t /\ Goal(m, r_instruction) = (2 * r_pc + i) % 65536
    BY <1>2 DEF Target, Goal
  <2> HIDE DEF i
  <2>3. i \div 2 = j
    BY <2>1
  <2>4. 2^15 = 32768
    OBVIOUS
  <2>5. r_pc \in Int
    BY <1>1, WordAddressIs
  <2>6. (r_pc + j) % 32768 \in WordAddresses
    <3> DEFINE q == (r_pc + j) % 32768
    <3>1. q \in Int /\ q >= 0 /\ q <= 32767
      BY <2>5
    <3> HIDE DEF q
    <3> QED  BY <3>1, InWordAddresses DEF q
  <2>7. 2 * ((r_pc + j) % 32768) = (2 * r_pc + 2 * j) % 65536
    BY <2>5
  <2>8. Target = (r_pc + j) % 32768
    BY <2>2, <2>3, <2>4
  <2>9. Goal(m, r_instruction) = (2 * r_pc + 2 * j) % 65536
    BY <2>1, <2>2
  <2>10. Target \in WordAddresses
    <3> DEFINE q == (r_pc + j) % 32768
    <3>1. q \in WordAddresses /\ Target = q
      BY <2>6, <2>8
    <3> HIDE DEF q
    <3> QED  BY <3>1
  <2> QED  BY <2>7, <2>8, <2>9, <2>10
<1>3. CASE ~Relative(r_instruction)
  <2>1. Target = Pair \div 2 /\ Goal(m, r_instruction) = Even(PairAt(m, r_instruction))
    BY <1>3 DEF Target, Goal
  <2>2. Pair \in Addresses /\ PairAt(m, r_instruction) = Pair
    <3>1. PairAt([gpr |-> gpr], r_instruction) \in Addresses
          /\ PairAt(m, r_instruction) = PairAt([gpr |-> gpr], r_instruction)
      BY <1>1, PairOf
    <3>2. Pair = PairAt([gpr |-> gpr], r_instruction)
      BY DEF Pair
    <3> DEFINE q == PairAt([gpr |-> gpr], r_instruction)
    <3>3. q \in Addresses /\ PairAt(m, r_instruction) = q /\ Pair = q
      BY <3>1, <3>2
    <3> HIDE DEF q
    <3> QED  BY <3>3
  <2> DEFINE q == Pair
             h == q \div 2
  <2>3. h \in WordAddresses
    <3>1. q \in Int /\ 0 <= q /\ q <= 65535
      BY <2>2, AddressIs
    <3> HIDE DEF q
    <3>2. h \in Int /\ h >= 0 /\ h <= 32767
      BY <3>1
    <3> QED  BY <3>2, InWordAddresses
  <2>4. Goal(m, r_instruction) = 2 * h
    BY <2>1, <2>2 DEF Even
  <2> HIDE DEF h
  <2> QED  BY <2>1, <2>3, <2>4 DEF h
<1> QED  BY <1>2, <1>3

\* At stage 3 the registers hold the machine past its instruction.
LEMMA GoingParts ==
  ASSUME SequenceInv, cu.stage = 3
  PROVE  /\ Going.gpr = gpr /\ Going.csr = VC /\ Going.pc = 2 * r_pc /\ Going.mem = VM
         /\ Source(Going, r_instruction) = s
BY AtStage3, MachFields DEF Source, s

\* Operands are bytes.
LEMMA ByteOfGpr ==
  ASSUME RegisterTypes
  PROVE  s \in AByte /\ gpr[mod(r_instruction)] \in AByte
<1> DEFINE i == src(r_instruction)
           j == mod(r_instruction)
<1>1. r_instruction \in Addresses /\ gpr \in Bytes
  BY DEF RegisterTypes
<1>2. r_instruction \in Int
  BY <1>1, AddressIs
<1>3. i \in 0..7 /\ j \in 0..7
  BY <1>2, FieldInt
<1> HIDE DEF i, j
<1>4. gpr[i] \in AByte /\ gpr[j] \in AByte
  BY <1>1, <1>3 DEF Bytes
<1> QED  BY <1>4 DEF s, i, j

\* One clock without the bus, from stage 3 back to rest.
LEMMA EndsAtOnce ==
  ASSUME SequenceInv, NEW ready, Moving(ready), cu.stage = 3, Silent, To(0), taken' = taken,
         r_instruction' = r_instruction, r_int_id' = r_int_id,
         gpr' \in Bytes, csr' \in Bytes, csr'[0] \in FlagBytes, r_pc' \in WordAddresses,
         Mach(gpr', VC', 2 * r_pc', VM, cu.wfi) \in After(Going, r_instruction)
  PROVE  RegisterTypes' /\ Rest' /\ FromTo(last, last')
<1>1. VM' = VM /\ ~Storing' /\ VM' = mem' /\ r_address' = r_address /\ r_data' = r_data
  BY Around, AsksNothing
<1>2. cu'.stage = 0 /\ cu'.int_stage = 0 /\ ~cu'.internal /\ cu'.wfi = cu.wfi
  BY Around, CuFields, AtStage3
<1>3. View' \in After(Going, Here)
  <2>1. View' = Mach(gpr', VC', 2 * r_pc', VM, cu.wfi)
    BY <1>1, <1>2, ViewNext
  <2> QED  BY <2>1, AtStage3
<1>4. RegisterTypes'
  BY <1>1, <1>2, Around, TypesKeep
<1> QED  BY <1>1, <1>2, <1>3, <1>4, AtStage3, Finishes

\* Calculate does what its word says, whatever the unknown carry of a logical
\* operation is.
LEMMA DoesCalculate ==
  ASSUME SequenceInv, NEW ready, Moving(ready), Calculate
  PROVE  RegisterTypes' /\ Rest' /\ FromTo(last, last')
<1>1. /\ cu.stage = 3 /\ Silent /\ To(0) /\ taken' = taken /\ r_instruction' = r_instruction
      /\ r_int_id' = r_int_id /\ r_pc' = r_pc
      /\ Kind(r_instruction) \in {"ALU", "SHIFT", "ADD", "LI", "CARRY", "COMPARE"}
  BY DEF Calculate, InStage3, InDecode
<1>2. PICK junk \in Junk :
        /\ csr' = WithFlags(Result(junk).f)
        /\ gpr' = IF InDecode = "COMPARE" THEN gpr
                  ELSE [gpr EXCEPT ![dst(r_instruction)] = Result(junk).r % 256]
  BY DEF Calculate
<1> DEFINE res == Result(junk)
           w == r_instruction
           f0 == 128 * (csr[0] \div 128) + res.f
<1>3. res.r % 256 \in AByte /\ res.f \in 0..15
  <2>1. r_instruction \in Int /\ s \in Int /\ csr[0] % 2 \in Int /\ junk \in Int
    <3>1. csr[0] \in 0..143
      BY Around, MultiCycleAssumption, FlagByteIs
    <3>2. s \in AByte
      BY Around, ByteOfGpr
    <3>3. junk \in Int
      BY DEF Junk
    <3>4. r_instruction \in Int
      <4>1. r_instruction \in Addresses
        BY Around
      <4> QED  BY <4>1, AddressIs
    <3>5. csr[0] % 2 \in Int
      BY <3>1
    <3> QED  BY <3>2, <3>3, <3>4, <3>5 DEF AByte
  <2>2. w_alu_b \in Int
    <3>1. gpr[mod(r_instruction)] \in Int
      BY Around, ByteOfGpr, ByteIs
    <3>2. Immediate(InDecode, r_instruction) \in Int
      BY <2>1, ImmediateInt
    <3> QED  BY <3>1, <3>2 DEF w_alu_b
  <2>3. AluOp(InDecode, r_instruction) \in 0..12
    BY <2>1, AluOpInt
  <2> DEFINE op == AluOp(InDecode, r_instruction)
             y == w_alu_b
             c == csr[0] % 2
  <2>4. op \in 0..12 /\ y \in Int /\ c \in Int /\ s \in Int /\ junk \in Int
    BY <2>1, <2>2, <2>3
  <2>5. res = Alu(op, s, y, c, FALSE, junk)
    BY DEF Result
  <2> HIDE DEF op, y, c, res
  <2>6. Alu(op, s, y, c, FALSE, junk).r % 256 \in AByte /\ Alu(op, s, y, c, FALSE, junk).f \in 0..15
    BY ZenonT(40), <2>4, AluInt
  <2> QED  BY <2>5, <2>6
<1>4. csr[0] \in FlagBytes /\ csr \in Bytes /\ gpr \in Bytes
  BY Around
<1>5. f0 \in FlagBytes /\ f0 \in AByte
  BY <1>3, <1>4, NewFlags
<1>6. csr' = [csr EXCEPT ![0] = f0]
  BY <1>2 DEF WithFlags
<1>7. csr' \in Bytes /\ csr'[0] = f0
  <2> HIDE DEF f0
  <2> QED  BY <1>4, <1>5, <1>6 DEF Bytes
<1>8. gpr' \in Bytes
  BY <1>2, <1>3, <1>4 DEF Bytes
<1>9. VC' = [VC EXCEPT ![0] = f0 + Cleared]
  <2> HIDE DEF f0
  <2>1. Shown' = f0 + Cleared
    BY <1>7 DEF Shown, Cleared
  <2>2. VC' = [csr' EXCEPT ![0] = Shown']
    BY DEF VC
  <2> QED  BY <1>4, <1>6, <2>1, <2>2 DEF VC, Bytes
<1>10. Mach(gpr', VC', 2 * r_pc', VM, cu.wfi) = Calculated(Going, w, junk)
  <2>1. Going = Mach(gpr, VC, 2 * r_pc, VM, cu.wfi)
    BY <1>1, AtStage3
  <2>2. Going.gpr = gpr /\ Going.csr = VC /\ VC[0] = Shown /\ Source(Going, w) = s
    BY <1>1, Around, GoingParts, VcIs
  <2>3. Shown \div 128 = csr[0] \div 128 /\ Shown % 2 = csr[0] % 2
    <3>1. PICK r \in 0..7 : r = Reserved
      BY MultiCycleAssumption
    <3>2. Shown = csr[0] + 16 * r /\ csr[0] \in 0..143 /\ Shown \div 128 = csr[0] \div 128
      BY <1>4, <3>1, FlagByteIs DEF Shown
    <3> DEFINE c0 == csr[0]
    <3> HIDE DEF c0
    <3>3. c0 \in 0..143 => (c0 + 16 * r) % 2 = c0 % 2
      OBVIOUS
    <3> QED  BY <3>2, <3>3 DEF c0
  <2>4. Operand(Going, w) = w_alu_b
    BY <2>2 DEF Operand, w_alu_b, InDecode
  <2>5. Alu(AluOp(Kind(w), w), Source(Going, w), Operand(Going, w), Going.csr[0] % 2, FALSE, junk) = res
    BY <2>2, <2>3, <2>4 DEF Result, InDecode
  <2> DEFINE g == IF Kind(w) = "COMPARE" THEN gpr ELSE [gpr EXCEPT ![dst(w)] = res.r % 256]
             f1 == 128 * (Going.csr[0] \div 128) + res.f + Cleared
  <2>6. f1 = f0 + Cleared /\ gpr' = g
    <3>1. Going.csr[0] \div 128 = csr[0] \div 128
      BY <2>2, <2>3
    <3>2. f1 = f0 + Cleared
      BY <3>1
    <3>3. gpr' = g
      BY <1>2 DEF InDecode
    <3> QED  BY <3>2, <3>3
  <2> DEFINE y == [Going EXCEPT !.gpr = g]
  <2>7. Calculated(Going, w, junk) = [y EXCEPT !.csr[0] = f1]
    BY <2>2, <2>5 DEF Calculated
  <2>8. y = Mach(g, VC, 2 * r_pc, VM, cu.wfi)
    <3> HIDE DEF g
    <3> QED  BY <2>1, MachGpr
  <2>9. [y EXCEPT !.csr[0] = f1] = Mach(g, [VC EXCEPT ![0] = f1], 2 * r_pc, VM, cu.wfi)
    <3> DEFINE p == 2 * r_pc
               t == cu.wfi
               c == VC
               m == VM
    <3>1. y = Mach(g, c, p, m, t)
      BY <2>8
    <3> HIDE DEF y, f1, g, c, m, p, t
    <3>2. Flagged(y, f1) = Mach(g, FlagSet(c, f1), p, m, t)
      BY <3>1, MachFlags
    <3> QED  BY <3>2 DEF Flagged, FlagSet, c, m, p, t
  <2> HIDE DEF y, f1, g, f0
  <2> QED  BY <1>1, <1>9, <2>6, <2>7, <2>9
<1>11. Calculated(Going, w, junk) \in After(Going, w)
  <2>1. Junk = Choices(w)
    BY DEF Junk, Choices, InDecode
  <2> QED  BY <1>1, <2>1, AfterCalculation
<1> HIDE DEF f0
<1>12. csr'[0] \in FlagBytes
  BY <1>5, <1>7
<1> QED  BY <1>1, <1>7, <1>8, <1>10, <1>11, <1>12, Around, EndsAtOnce

\* MoveFromCsr reads the flags as they are shown.
LEMMA DoesMoveFromCsr ==
  ASSUME SequenceInv, NEW ready, Moving(ready), MoveFromCsr
  PROVE  RegisterTypes' /\ Rest' /\ FromTo(last, last')
<1> DEFINE w == r_instruction
           b == IF src(w) = 0 THEN Shown ELSE csr[src(w)]
<1>1. /\ cu.stage = 3 /\ Silent /\ To(0) /\ taken' = taken /\ r_instruction' = r_instruction
      /\ r_int_id' = r_int_id /\ r_pc' = r_pc /\ csr' = csr /\ Kind(w) = "FROM CSR"
      /\ gpr' = [gpr EXCEPT ![dst(w)] = b]
  BY DEF MoveFromCsr, InStage3, InDecode
<1>2. RegisterTypes /\ gpr \in Bytes /\ csr \in Bytes /\ csr[0] \in FlagBytes /\ w \in Addresses /\ r_pc \in WordAddresses
  BY Around
<1>3. src(w) \in 0..7
  <2>1. w \in Int
    BY <1>2, AddressIs
  <2> QED  BY <2>1, FieldInt
<1>4. b = VC[src(w)] /\ b \in AByte
  <2>1. VC \in Bytes /\ VC[0] = Shown /\ \A n \in 1..7 : VC[n] = csr[n]
    BY <1>2, VcIs
  <2>2. b = VC[src(w)]
    BY <1>3, <2>1
  <2>3. VC[src(w)] \in AByte
    BY <1>3, <2>1 DEF Bytes
  <2> HIDE DEF b
  <2> QED  BY <2>2, <2>3
<1>5. gpr' \in Bytes
  <2> HIDE DEF b
  <2> QED  BY <1>1, <1>2, <1>4 DEF Bytes
<1>6. Mach(gpr', VC', 2 * r_pc', VM, cu.wfi) \in After(Going, w)
  <2>0. Going = Mach(gpr, VC, 2 * r_pc, VM, cu.wfi)
    BY <1>1, AtStage3
  <2>1. Going.csr = VC
    BY <1>1, GoingParts
  <2>2. [Going EXCEPT !.gpr[dst(w)] = b] = Mach([gpr EXCEPT ![dst(w)] = b], VC, 2 * r_pc, VM, cu.wfi)
    <3> DEFINE d == dst(w)
    <3> HIDE DEF b, d
    <3>1. [Going EXCEPT !.gpr[d] = b] = Mach([gpr EXCEPT ![d] = b], VC, 2 * r_pc, VM, cu.wfi)
      <4> DEFINE g == gpr
                 p == 2 * r_pc
                 c == VC
                 m == VM
                 u == cu.wfi
                 x == Going
      <4>1. x = Mach(g, c, p, m, u)
        BY <2>0
      <4> HIDE DEF g, p, c, m, u, x
      <4>2. WithGpr(x, d, b) = Mach(Updated(g, d, b), c, p, m, u)
        BY <4>1, MachGprAt
      <4> QED  BY <4>2 DEF WithGpr, Updated, g, p, c, m, u, x
    <3> QED  BY <3>1 DEF d
  <2>3. [Going EXCEPT !.gpr[dst(w)] = Going.csr[src(w)]] \in After(Going, w)
    BY <1>1, AfterFromCsr
  <2>4. Going.csr[src(w)] = b
    BY <1>4, <2>1
  <2> HIDE DEF b
  <2> QED  BY <1>1, <2>2, <2>3, <2>4, VcStays
<1> HIDE DEF b
<1> QED  BY <1>1, <1>2, <1>5, <1>6, EndsAtOnce

\* MoveToCsr cuts what it writes to the flags.
LEMMA DoesMoveToCsr ==
  ASSUME SequenceInv, NEW ready, Moving(ready), MoveToCsr
  PROVE  RegisterTypes' /\ Rest' /\ FromTo(last, last')
<1> DEFINE w == r_instruction
           b == IF dst(w) = 0 THEN Kept(s) ELSE s
           c == IF dst(w) = 0 THEN Kept(s) + Cleared ELSE s
<1>1. /\ cu.stage = 3 /\ Silent /\ To(0) /\ taken' = taken /\ r_instruction' = r_instruction
      /\ r_int_id' = r_int_id /\ r_pc' = r_pc /\ gpr' = gpr /\ Kind(w) = "TO CSR"
      /\ csr' = [csr EXCEPT ![dst(w)] = b]
  BY DEF MoveToCsr, InStage3, InDecode
<1>2. RegisterTypes /\ gpr \in Bytes /\ csr \in Bytes /\ csr[0] \in FlagBytes /\ w \in Addresses /\ r_pc \in WordAddresses
  BY Around
<1>3. dst(w) \in 0..7
  <2>1. w \in Int
    BY <1>2, AddressIs
  <2> QED  BY <2>1, FieldInt
<1>4. s \in AByte /\ Kept(s) \in FlagBytes /\ Kept(s) \in AByte /\ b \in AByte
  <2>1. s \in AByte
    BY <1>2, ByteOfGpr
  <2>2. Kept(s) \in FlagBytes /\ Kept(s) \in 0..143
    BY <2>1, KeptIs
  <2>3. Kept(s) \in AByte
    BY <2>2 DEF AByte
  <2> QED  BY <2>1, <2>2, <2>3
<1>5. csr' \in Bytes /\ csr'[0] \in FlagBytes
  <2>1. csr' \in Bytes
    <3> HIDE DEF b
    <3> QED  BY <1>1, <1>2, <1>4 DEF Bytes
  <2>2. CASE dst(w) = 0
    <3>1. csr' = [csr EXCEPT ![0] = Kept(s)]
      BY <1>1, <2>2
    <3>2. csr'[0] = Kept(s)
      BY <1>2, <3>1 DEF Bytes
    <3> QED  BY <1>4, <2>1, <3>2
  <2>3. CASE dst(w) # 0
    <3> DEFINE d == dst(w)
    <3>1. csr' = [csr EXCEPT ![d] = b] /\ d # 0
      BY <1>1, <2>3
    <3> HIDE DEF b, d
    <3>2. csr'[0] = csr[0]
      BY <1>2, <3>1 DEF Bytes
    <3> QED  BY <1>2, <2>1, <3>2
  <2> QED  BY <2>1, <2>2, <2>3
<1>6. VC' = [VC EXCEPT ![dst(w)] = c]
  <2>1. VC' = [csr' EXCEPT ![0] = Shown'] /\ VC = [csr EXCEPT ![0] = Shown]
    BY DEF VC
  <2>2. CASE dst(w) = 0
    <3>1. csr' = [csr EXCEPT ![0] = Kept(s)]
      BY <1>1, <2>2
    <3>2. csr'[0] = Kept(s)
      BY <1>2, <3>1 DEF Bytes
    <3>3. Shown' = Kept(s) + Cleared
      BY <3>2 DEF Shown, Cleared
    <3>4. VC' = [VC EXCEPT ![0] = Kept(s) + Cleared]
      <4> DEFINE k == Kept(s) + Cleared
      <4> HIDE DEF k
      <4>1. Shown' = k
        BY <3>3 DEF k
      <4>2. VC' = [VC EXCEPT ![0] = k]
        BY <1>2, <2>1, <3>1, <4>1 DEF Bytes
      <4> QED  BY <4>2 DEF k
    <3> QED  BY <2>2, <3>4
  <2>3. CASE dst(w) # 0
    <3> DEFINE d == dst(w)
    <3>1. csr' = [csr EXCEPT ![d] = s] /\ d # 0 /\ d \in 0..7
      BY <1>1, <1>3, <2>3
    <3>2. Shown' = Shown
      BY <1>2, <3>1 DEF Shown, Bytes
    <3> HIDE DEF d
    <3>3. VC' = [VC EXCEPT ![d] = s]
      BY <1>2, <2>1, <3>1, <3>2 DEF Bytes
    <3> QED  BY <2>3, <3>3 DEF d
  <2> QED  BY <2>2, <2>3
<1>7. Mach(gpr', VC', 2 * r_pc', VM, cu.wfi) \in After(Going, w)
  <2>1. Going = Mach(gpr, VC, 2 * r_pc, VM, cu.wfi) /\ Source(Going, w) = s
    BY <1>1, AtStage3, GoingParts
  <2>2. [Going EXCEPT !.csr[dst(w)] = c] = Mach(gpr, [VC EXCEPT ![dst(w)] = c], 2 * r_pc, VM, cu.wfi)
    <3> DEFINE d == dst(w)
    <3> HIDE DEF c, d
    <3> DEFINE e == VC
               p == 2 * r_pc
               m == VM
               u == cu.wfi
               x == Going
    <3>1. x = Mach(gpr, e, p, m, u)
      BY <2>1
    <3> HIDE DEF e, p, m, u, x
    <3>2. WithCsr(x, d, c) = Mach(gpr, Updated(e, d, c), p, m, u)
      BY <3>1, MachCsrAt
    <3> QED  BY <3>2 DEF WithCsr, Updated, d, e, p, m, u, x
  <2>3. [Going EXCEPT !.csr[dst(w)] = c] \in After(Going, w)
    <3>1. [Going EXCEPT !.csr[dst(w)] = IF dst(w) = 0 THEN Kept(Source(Going, w)) + Cleared ELSE Source(Going, w)]
            \in After(Going, w)
      BY <1>1, AfterToCsr
    <3> QED  BY <2>1, <3>1
  <2> HIDE DEF c
  <2> QED  BY <1>1, <1>6, <2>2, <2>3
<1> HIDE DEF b, c
<1> QED  BY <1>1, <1>2, <1>5, <1>7, EndsAtOnce

\* Branch goes where its word says, or on.
LEMMA DoesBranch ==
  ASSUME SequenceInv, NEW ready, Moving(ready), Branch
  PROVE  RegisterTypes' /\ Rest' /\ FromTo(last, last')
<1> DEFINE w == r_instruction
<1>1. /\ cu.stage = 3 /\ Silent /\ To(0) /\ taken' = taken /\ r_instruction' = r_instruction
      /\ r_int_id' = r_int_id /\ gpr' = gpr /\ csr' = csr /\ Kind(w) = "B"
      /\ r_pc' = IF w_cond THEN Target ELSE r_pc
  BY DEF Branch, InStage3, InDecode
<1>2. RegisterTypes /\ gpr \in Bytes /\ csr \in Bytes /\ csr[0] \in FlagBytes /\ w \in Addresses /\ r_pc \in WordAddresses
  BY Around
<1>3. Going = Mach(gpr, VC, 2 * r_pc, VM, cu.wfi) /\ Going.gpr = gpr /\ Going.pc = 2 * r_pc /\ Going.csr = VC
  BY <1>1, AtStage3, GoingParts
<1>4. Goal(Going, w) = 2 * Target /\ Target \in WordAddresses
  BY <1>2, <1>3, TargetIs
<1>5. Condition(w, Going.csr[0]) <=> w_cond
  <2>1. Going.csr[0] = Shown
    BY <1>2, <1>3, VcIs
  <2> QED  BY <1>2, <2>1, ConditionShown DEF w_cond
<1>6. r_pc' \in WordAddresses
  BY <1>1, <1>2, <1>4
<1>7. Mach(gpr', VC', 2 * r_pc', VM, cu.wfi) \in After(Going, w)
  <2>1. (IF Condition(w, Going.csr[0]) THEN [Going EXCEPT !.pc = Goal(Going, w)] ELSE Going) \in After(Going, w)
    BY <1>1, AfterB
  <2>2. [Going EXCEPT !.pc = Goal(Going, w)] = Mach(gpr, VC, Goal(Going, w), VM, cu.wfi)
    BY <1>3, MachPc
  <2>3. VC' = VC
    BY <1>1, VcStays
  <2>4. CASE w_cond
    BY <1>1, <1>4, <1>5, <2>1, <2>2, <2>3, <2>4
  <2>5. CASE ~w_cond
    BY <1>1, <1>3, <1>5, <2>1, <2>3, <2>5
  <2> QED  BY <2>4, <2>5
<1> QED  BY <1>1, <1>2, <1>6, <1>7, EndsAtOnce

\* The clock of NOP, WFI and SWI.
LEMMA ControlFields ==
  ASSUME ControlInv, NEW w, NEW i, cu' = [cu EXCEPT !.stage = 0, !.wfi = w, !.internal = i]
  PROVE  cu'.stage = 0 /\ cu'.wfi = w /\ cu'.internal = i /\ cu'.int_stage = cu.int_stage
<1>1. cu \in [stage : 0..6, int_stage : 0..5, internal : BOOLEAN, wfi : BOOLEAN]
  BY DEF ControlInv
<1> QED  BY <1>1

\* A machine asleep.
LEMMA MachAsleep ==
  ASSUME NEW g, NEW c, NEW p, NEW m, NEW w, NEW x, x = Mach(g, c, p, m, w)
  PROVE  [x EXCEPT !.wait_for_interrupt = TRUE] = Mach(g, c, p, m, TRUE)
<1> DEFINE z == [x EXCEPT !.wait_for_interrupt = TRUE]
<1>1. z \in [gpr : {g}, csr : {c}, pc : {p}, mem : {m}, wait_for_interrupt : {TRUE},
             running : {TRUE}, debug_mode : {FALSE}]
  BY DEF Mach
<1> HIDE DEF z
<1>2. z = Mach(g, c, p, m, TRUE)
  BY <1>1, MachOnly
<1> QED  BY <1>2 DEF z

\* The clock that ends an instruction which has changed no more than the core's sleep.
LEMMA EndsAsleepOrNot ==
  ASSUME SequenceInv, NEW ready, Moving(ready), cu.stage = 3, Silent, taken' = taken,
         cu'.stage = 0, cu'.int_stage = 0, ~cu'.internal,
         r_instruction' = r_instruction, r_int_id' = r_int_id, gpr' = gpr, csr' = csr, r_pc' = r_pc,
         Mach(gpr, VC, 2 * r_pc, VM, cu'.wfi) \in After(Going, Here)
  PROVE  RegisterTypes' /\ Rest' /\ FromTo(last, last')
<1>1. VM' = VM /\ ~Storing' /\ VM' = mem' /\ r_address' = r_address /\ r_data' = r_data
  BY Around, AsksNothing
<1>2. View' \in After(Going, Here)
  <2>1. View' = Mach(gpr, VC, 2 * r_pc, VM, cu'.wfi)
    BY <1>1, ViewNext, VcStays
  <2> QED  BY <2>1
<1>3. RegisterTypes'
  BY <1>1, Around, TypesKeep
<1> QED  BY <1>1, <1>2, <1>3, AtStage3, Finishes

\* WFI puts the machine to sleep; a software interrupt is noted and is no
\* boundary yet.
LEMMA DoesControl ==
  ASSUME SequenceInv, NEW ready, Moving(ready), Control
  PROVE  RegisterTypes' /\ Rest' /\ FromTo(last, last')
<1> DEFINE w == r_instruction
           y == cu.wfi \/ Kind(w) = "WFI"
           i == cu.internal \/ Kind(w) \in {"SWI", "ILLEGAL"}
<1>1. /\ cu.stage = 3 /\ Silent /\ taken' = taken /\ r_instruction' = r_instruction
      /\ gpr' = gpr /\ csr' = csr /\ r_pc' = r_pc /\ Kind(w) \in {"NOP", "WFI", "SWI", "ILLEGAL"}
      /\ r_int_id' = IF Kind(w) = "SWI" THEN s % 128 ELSE r_int_id
  BY DEF Control, InStage3, InDecode
<1>2. cu'.stage = 0 /\ cu'.wfi = y /\ cu'.internal = i /\ cu'.int_stage = cu.int_stage
  <2>1. cu' = [cu EXCEPT !.stage = 0, !.wfi = y, !.internal = i]
    BY DEF Control, InDecode
  <2> HIDE DEF y, i
  <2> QED  BY <2>1, Around, ControlFields
<1>0. Going = Mach(gpr, VC, 2 * r_pc, VM, cu.wfi)
  BY <1>1, AtStage3
<1>3. /\ r_instruction = Here
      /\ ~cu.internal /\ cu.int_stage = 0 /\ last.taken = taken
      /\ ~last.machine.wait_for_interrupt /\ cu.wfi = FALSE
  BY <1>1, AtStage3
<1>4. CASE Kind(w) = "NOP"
  <2>1. cu'.wfi = FALSE /\ ~cu'.internal /\ cu'.int_stage = 0 /\ r_int_id' = r_int_id
    BY <1>1, <1>2, <1>3, <1>4
  <2>2. Going \in After(Going, Here)
    BY <1>3, <1>4, AfterNop
  <2> QED  BY <1>0, <1>1, <1>2, <1>3, <2>1, <2>2, EndsAsleepOrNot
<1>5. CASE Kind(w) = "WFI"
  <2>1. cu'.wfi = TRUE /\ ~cu'.internal /\ cu'.int_stage = 0 /\ r_int_id' = r_int_id
    BY <1>1, <1>2, <1>3, <1>5
  <2>2. [Going EXCEPT !.wait_for_interrupt = TRUE] \in After(Going, Here)
    BY <1>3, <1>5, AfterWfi
  <2>3. [Going EXCEPT !.wait_for_interrupt = TRUE] = Mach(gpr, VC, 2 * r_pc, VM, TRUE)
    BY <1>0, MachAsleep
  <2> QED  BY <1>1, <1>2, <2>1, <2>2, <2>3, EndsAsleepOrNot
<1>6. CASE Kind(w) \in {"SWI", "ILLEGAL"}
  <2>1. cu'.wfi = FALSE /\ cu'.internal /\ cu'.int_stage = 0 /\ cu'.wfi = cu.wfi
    BY <1>2, <1>3, <1>6
  <2>2. last' = last
    BY <2>1, Around DEF Boundary
  <2>3. VM' = VM /\ ~Storing' /\ VM' = mem' /\ r_address' = r_address /\ r_data' = r_data
    BY <1>1, Around, AsksNothing
  <2>4. Going' = Going /\ Here' = Here
    BY <2>2 DEF Going, Here
  <2>5. View' = Going
    <3>1. View' = View
      BY <1>1, <2>1, <2>3, ViewStays
    <3> QED  BY <1>0, <3>1, ViewIs
  <2>6. r_int_id' \in Ids
    <3>1. s \in 0..255 /\ r_int_id \in Ids
      BY Around, ByteOfGpr, ByteIs
    <3>2. s % 128 \in Ids
      <4> DEFINE b == s
      <4> HIDE DEF b
      <4>1. b \in 0..255 => b % 128 \in Ids
        BY DEF Ids
      <4> QED  BY <3>1, <4>1 DEF b
    <3> QED  BY <1>1, <3>1, <3>2
  <2>7. Named(r_int_id')
    <3>1. CASE Kind(w) = "ILLEGAL"
      BY <1>3, <3>1 DEF Named
    <3>2. CASE Kind(w) = "SWI"
      <4>1. r_int_id' = s % 128 /\ s = gpr[src(Here)]
        BY <1>1, <1>3, <3>2 DEF s
      <4>2. last.machine.gpr = gpr
        <5>1. last.machine = Mach(last.machine.gpr, last.machine.csr, last.machine.pc, last.machine.mem,
                                  last.machine.wait_for_interrupt)
          BY Around, LastIs DEF RegisterTypes
        <5>2. Going.gpr = last.machine.gpr
          BY <5>1, MachPast, MachFields DEF Going
        <5> QED  BY <1>1, <5>2, GoingParts
      <4> QED  BY <1>3, <3>2, <4>1, <4>2 DEF Named
    <3> QED  BY <1>6, <3>1, <3>2
  <2>8. Named(r_int_id)'
    BY <2>2, <2>4, <2>7 DEF Named
  <2>9. RegisterTypes'
    BY <1>1, <2>1, <2>3, <2>6, Around, TypesKeep
  <2>10. Rest'
    <3>1. IdleInv'
      BY <1>1, <1>2, <1>3, <2>1, <2>2, <2>4, <2>5, <2>8 DEF IdleInv
    <3>2. FetchInv' /\ PullInv' /\ SingleInv' /\ LinkInv' /\ EnterInv'
      BY <1>2, <2>1 DEF FetchInv, PullInv, SingleInv, LinkInv, EnterInv
    <3> QED  BY <3>1, <3>2 DEF Rest
  <2> QED  BY <2>2, <2>9, <2>10 DEF FromTo
<1> QED  BY <1>1, <1>4, <1>5, <1>6

-----------------------------------------------------------------------------
(* The stack pointer in its two registers. *)

\* The two bytes of an address.
LEMMA StackParts ==
  ASSUME NEW a \in Addresses
  PROVE  a % 256 \in AByte /\ a \div 256 \in AByte /\ (a \div 256) % 256 = a \div 256
         /\ (a % 256) + 256 * (a \div 256) = a
<1> DEFINE h == a \div 256
           l == a % 256
<1>1. h \in AByte /\ l \in AByte /\ a = 256 * h + l
  BY Divided
<1> HIDE DEF h, l
<1>2. h \in Int /\ 0 <= h /\ h <= 255 /\ l \in Int
  BY <1>1, ByteIs
<1>3. h % 256 = h
  BY <1>2
<1>4. l + 256 * h = 256 * h + l
  BY <1>2
<1>5. l + 256 * h = a
  BY <1>1, <1>4
<1> QED  BY <1>1, <1>3, <1>5 DEF h, l

\* A stack pointer that is set is read back, and nothing else changes.
LEMMA SpSetIs ==
  ASSUME NEW c \in Bytes, NEW a \in Addresses
  PROVE  /\ SpSet(c, a) \in Bytes /\ SpOf(SpSet(c, a)) = a
         /\ \A n \in 0..5 : SpSet(c, a)[n] = c[n]
         /\ SpSet(c, a) = [c EXCEPT ![6] = a % 256, ![7] = a \div 256]
         /\ SpSet(c, a)[6] = a % 256 /\ SpSet(c, a)[7] = a \div 256
<1> DEFINE l == a % 256
           h == a \div 256
<1>1. l \in AByte /\ h \in AByte /\ SpSet(c, a) = [c EXCEPT ![6] = l, ![7] = h] /\ l + 256 * h = a
  <2>1. l \in AByte /\ h \in AByte /\ h % 256 = h /\ l + 256 * h = a
    BY StackParts
  <2>2. SpSet(c, a) = [c EXCEPT ![6] = l, ![7] = h % 256]
    BY DEF SpSet
  <2> HIDE DEF l, h
  <2> QED  BY <2>1, <2>2
<1> HIDE DEF l, h
<1> DEFINE e == SpSet(c, a)
<1>2. e \in Bytes /\ \A n \in 0..5 : e[n] = c[n]
  <2>1. e = [c EXCEPT ![6] = l, ![7] = h]
    BY <1>1
  <2> HIDE DEF e
  <2>2. e \in Bytes
    BY <1>1, <2>1 DEF Bytes
  <2>3. \A n \in 0..7 : n # 6 /\ n # 7 => e[n] = c[n]
    BY <2>1 DEF Bytes
  <2>4. \A n \in 0..5 : n \in 0..7 /\ n # 6 /\ n # 7
    OBVIOUS
  <2> QED  BY <2>2, <2>3, <2>4
<1>3. SpSet(c, a)[6] = l /\ SpSet(c, a)[7] = h
  BY <1>1 DEF Bytes
<1>4. SpOf(SpSet(c, a)) = a
  BY <1>1, <1>3 DEF SpOf
<1> QED  BY <1>1, <1>2, <1>3, <1>4 DEF l, h

\* The last stack pointer set counts.
LEMMA SpSetTwice ==
  ASSUME NEW c \in Bytes, NEW a \in Addresses, NEW b \in Addresses, NEW f
  PROVE  SpSet([SpSet(c, a) EXCEPT ![0] = f], b) = [SpSet(c, b) EXCEPT ![0] = f]
<1> DEFINE l == a % 256
           h == a \div 256
           i == b % 256
           j == b \div 256
<1>1. SpSet(c, a) = [c EXCEPT ![6] = l, ![7] = h] /\ SpSet(c, b) = [c EXCEPT ![6] = i, ![7] = j]
  BY SpSetIs
<1>2. SpSet([SpSet(c, a) EXCEPT ![0] = f], b) = [[SpSet(c, a) EXCEPT ![0] = f] EXCEPT ![6] = i, ![7] = j]
  <2>1. j % 256 = j
    BY StackParts
  <2> DEFINE x == [SpSet(c, a) EXCEPT ![0] = f]
  <2> HIDE DEF x
  <2>2. SpSet(x, b) = [x EXCEPT ![6] = i, ![7] = j % 256]
    BY DEF SpSet
  <2> HIDE DEF i, j
  <2>3. SpSet(x, b) = [x EXCEPT ![6] = i, ![7] = j]
    BY <2>1, <2>2
  <2> QED  BY <2>3 DEF x
<1> DEFINE x == SpSet(c, a)
           y == [x EXCEPT ![0] = f]
           z == SpSet(c, b)
<1>3. x = [c EXCEPT ![6] = l, ![7] = h] /\ z = [c EXCEPT ![6] = i, ![7] = j]
      /\ SpSet(y, b) = [y EXCEPT ![6] = i, ![7] = j] /\ y = [x EXCEPT ![0] = f]
  BY <1>1, <1>2
<1> HIDE DEF l, h, i, j, x, y, z
<1> DEFINE u == [y EXCEPT ![6] = i, ![7] = j]
           v == [z EXCEPT ![0] = f]
<1>4. u = [n \in 0..7 |-> u[n]] /\ v = [n \in 0..7 |-> v[n]]
  BY <1>3 DEF Bytes
<1>5. \A n \in 0..7 : u[n] = v[n]
  BY <1>3 DEF Bytes
<1> HIDE DEF u, v
<1>6. u = v
  BY <1>4, <1>5
<1> QED  BY <1>3, <1>6 DEF u, v, x, y, z

\* Setting it to what it is changes nothing.
LEMMA SpSetSame ==
  ASSUME NEW c \in Bytes
  PROVE  SpOf(c) \in Addresses /\ SpSet(c, SpOf(c)) = c
<1> DEFINE l == c[6]
           h == c[7]
           a == SpOf(c)
<1>1. l \in AByte /\ h \in AByte /\ a = 256 * h + l
  <2>1. l \in AByte /\ h \in AByte
    BY DEF Bytes
  <2>2. a = l + 256 * h
    BY DEF SpOf
  <2> HIDE DEF l, h, a
  <2> QED  BY <2>1, <2>2, ByteIs
<1>2. a \in Addresses /\ a % 256 = l /\ a \div 256 = h
  <2> HIDE DEF l, h, a
  <2>1. 256 * h + l \in Addresses /\ (256 * h + l) % 256 = l /\ (256 * h + l) \div 256 = h
    BY <1>1, Joined
  <2> QED  BY <1>1, <2>1
<1>3. SpSet(c, a) = [c EXCEPT ![6] = l, ![7] = h]
  <2>1. SpSet(c, a) = [c EXCEPT ![6] = a % 256, ![7] = a \div 256]
    BY <1>2, SpSetIs
  <2> HIDE DEF l, h, a
  <2> QED  BY <1>2, <2>1
<1>4. [c EXCEPT ![6] = l, ![7] = h] = c
  BY DEF Bytes
<1> QED  BY <1>2, <1>3, <1>4

\* What csr' = WithSp(a) comes to.
LEMMA NewSp ==
  ASSUME RegisterTypes, NEW a \in Addresses
  PROVE  /\ WithSp(a) = SpSet(csr, a) /\ WithSp(a) \in Bytes /\ WithSp(a)[0] = csr[0]
         /\ \A f : [[WithSp(a) EXCEPT ![0] = f] EXCEPT ![0] = f + Cleared]
                   = [SpSet(VC, a) EXCEPT ![0] = f + Cleared]
         /\ [WithSp(a) EXCEPT ![0] = Shown] = SpSet(VC, a)
         /\ [SpSet(VC, a) EXCEPT ![0] = Shown] = SpSet(VC, a)
<1>1. csr \in Bytes /\ VC \in Bytes /\ VC = [csr EXCEPT ![0] = Shown] /\ Shown \in AByte
  BY VcIs DEF RegisterTypes, VC
<1>2. WithSp(a) = SpSet(csr, a) /\ WithSp(a) \in Bytes /\ WithSp(a)[0] = csr[0]
  <2> DEFINE x == SpSet(csr, a)
  <2>1. x = [csr EXCEPT ![6] = a % 256, ![7] = a \div 256]
    BY <1>1, SpSetIs
  <2>2. x \in Bytes /\ \A n \in 0..5 : x[n] = csr[n]
    BY <1>1, SpSetIs
  <2> HIDE DEF x
  <2>3. x[0] = csr[0]
    BY <2>2
  <2>4. WithSp(a) = x
    BY <2>1 DEF WithSp
  <2> QED  BY <2>2, <2>3, <2>4 DEF x
<1> DEFINE l == a % 256
           h == a \div 256
           f0 == Shown
<1>3. WithSp(a) = [csr EXCEPT ![6] = l, ![7] = h] /\ SpSet(VC, a) = [VC EXCEPT ![6] = l, ![7] = h]
  <2>1. csr \in Bytes /\ VC \in Bytes
    BY <1>1
  <2>2. SpSet(csr, a) = [csr EXCEPT ![6] = l, ![7] = h]
    BY <2>1, SpSetIs
  <2>3. SpSet(VC, a) = [VC EXCEPT ![6] = l, ![7] = h]
    BY <2>1, SpSetIs
  <2> QED  BY <1>2, <2>2, <2>3
<1>4. VC = [csr EXCEPT ![0] = f0]
  BY <1>1
<1> HIDE DEF l, h, f0
<1> DEFINE x == WithSp(a)
           y == SpSet(VC, a)
           v == VC
<1>7. x = [csr EXCEPT ![6] = l, ![7] = h] /\ y = [v EXCEPT ![6] = l, ![7] = h] /\ v = [csr EXCEPT ![0] = f0]
  BY <1>3, <1>4
<1> HIDE DEF x, y, v
<1>5. ASSUME NEW f
      PROVE  [[x EXCEPT ![0] = f] EXCEPT ![0] = f + Cleared] = [y EXCEPT ![0] = f + Cleared]
  <2> DEFINE g == f + Cleared
             d == [[x EXCEPT ![0] = f] EXCEPT ![0] = g]
             k == [y EXCEPT ![0] = g]
  <2> HIDE DEF g
  <2>1. d = [n \in 0..7 |-> d[n]] /\ k = [n \in 0..7 |-> k[n]]
    BY <1>1, <1>7 DEF Bytes
  <2>2. \A n \in 0..7 : d[n] = k[n]
    BY <1>1, <1>7 DEF Bytes
  <2> HIDE DEF d, k
  <2>3. d = k
    BY <2>1, <2>2
  <2> QED  BY <2>3 DEF g, d, k
<1>6. [x EXCEPT ![0] = f0] = y /\ [y EXCEPT ![0] = f0] = y
  <2> DEFINE d == [x EXCEPT ![0] = f0]
             k == [y EXCEPT ![0] = f0]
  <2>1. d = [n \in 0..7 |-> d[n]] /\ k = [n \in 0..7 |-> k[n]] /\ y = [n \in 0..7 |-> y[n]]
    BY <1>1, <1>7 DEF Bytes
  <2>2. \A n \in 0..7 : d[n] = y[n] /\ k[n] = y[n]
    BY <1>1, <1>7 DEF Bytes
  <2> HIDE DEF d, k
  <2>3. d = y /\ k = y
    BY <2>1, <2>2
  <2> QED  BY <2>3 DEF d, k
<1> QED  BY <1>2, <1>5, <1>6 DEF f0, x, y

\* Addresses wrap.
LEMMA Neighbours ==
  ASSUME NEW a \in Addresses
  PROVE  (a - 1) % 65536 \in Addresses /\ (a + 1) % 65536 \in Addresses
<1>1. \A z \in Int : z % 65536 \in Addresses
  BY Wraps
<1>2. a - 1 \in Int /\ a + 1 \in Int
  BY AddressIs
<1> QED  BY <1>1, <1>2

\* One byte onto the stack.
LEMMA PushesByte ==
  ASSUME SequenceInv, NEW ready, Moving(ready), NEW b \in AByte, \E lock \in BOOLEAN : PushByte(b, lock)
  PROVE  /\ csr' \in Bytes /\ csr'[0] = csr[0] /\ r_address' \in Addresses /\ r_data' \in AByte
         /\ \A p, w, x : x = Mach(gpr, VC, p, VM, w)
                         => Mach(gpr, VC', p, VM', w) = Manual!Pushed(x, b)
         /\ VC' = SpSet(VC, (Sp - 1) % 65536) /\ VM' = Manual!Store(VM, Sp, b)
<1>1. RegisterTypes /\ mem' = VM /\ ~bus'.stb
  BY Around
<1>2. Sp \in Addresses /\ SpOf(VC) = Sp
  BY <1>1, VcIs
<1>3. PICK lock \in BOOLEAN : Send(Sp, b, lock) /\ csr' = WithSp((Sp - 1) % 65536)
  BY DEF PushByte
<1>4. VM' = Manual!Store(VM, Sp, b) /\ r_data' = b /\ r_address' = Sp
  BY <1>1, <1>3, Sends
<1>5. csr' \in Bytes /\ csr'[0] = csr[0] /\ VC' = SpSet(VC, (Sp - 1) % 65536)
  <2> DEFINE a == (Sp - 1) % 65536
  <2>1. a \in Addresses /\ csr' = WithSp(a)
    BY <1>2, <1>3, Neighbours
  <2> HIDE DEF a
  <2>2. csr' \in Bytes /\ csr'[0] = csr[0]
    BY <1>1, <2>1, NewSp
  <2>3. Shown' = Shown
    BY <2>2 DEF Shown
  <2>4. VC' = [csr' EXCEPT ![0] = Shown']
    BY DEF VC
  <2>5. VC' = SpSet(VC, a)
    BY <1>1, <2>1, <2>3, <2>4, NewSp
  <2> QED  BY <2>2, <2>5 DEF a
<1>6. ASSUME NEW p, NEW w, NEW x, x = Mach(gpr, VC, p, VM, w)
      PROVE  Mach(gpr, VC', p, VM', w) = Manual!Pushed(x, b)
  BY <1>2, <1>4, <1>5, <1>6, MachPushed
<1> QED  BY <1>2, <1>4, <1>5, <1>6

-----------------------------------------------------------------------------
(* Instructions of several clocks. *)

LEMMA WrapsEven ==
  ASSUME NEW z \in Addresses, z % 2 = 0
  PROVE  (z + 2) % 65536 \in Addresses /\ ((z + 2) % 65536) % 2 = 0
<1>1. z \in Int
  BY AddressIs
<1> DEFINE y == z \div 2
<1>2. y \in Int /\ z = 2 * y
  BY <1>1
<1> HIDE DEF y
<1>3. (2 * y + 2) % 65536 = 2 * ((y + 1) % 32768)
  BY <1>2
<1> DEFINE u == (y + 1) % 32768
<1>4. u \in Int
  BY <1>2
<1> HIDE DEF u
<1>5. (2 * u) % 2 = 0
  BY <1>4
<1>6. (z + 2) % 65536 = 2 * u
  BY <1>2, <1>3 DEF u
<1> DEFINE v == z + 2
           x == v % 65536
<1>7. v \in Int
  BY <1>1
<1>8. x = 2 * u
  BY <1>6
<1> HIDE DEF v
<1>9. x \in Addresses
  BY <1>7, Wraps
<1> HIDE DEF x
<1>10. x % 2 = 0
  BY <1>5, <1>8
<1> QED  BY <1>9, <1>10 DEF v, x

\* The machine past its instruction differs from that of the boundary in its
\* pc alone.
LEMMA GoingIs ==
  ASSUME RegisterTypes
  PROVE  /\ Going = Mach(Going.gpr, Going.csr, Going.pc, Going.mem, Going.wait_for_interrupt)
         /\ Going.gpr \in Bytes /\ Going.csr \in Bytes /\ Going.pc \in Addresses /\ Going.pc % 2 = 0
         /\ Going.wait_for_interrupt = last.machine.wait_for_interrupt
         /\ Going.gpr = last.machine.gpr /\ Going.csr = last.machine.csr /\ Going.mem = last.machine.mem
<1>1. MachineTypes(last.machine)
  BY DEF RegisterTypes
<1> DEFINE x == last.machine
           q == (x.pc + 2) % 65536
<1>2. x = Mach(x.gpr, x.csr, x.pc, x.mem, x.wait_for_interrupt)
  BY <1>1, LastIs
<1>3. Going = Mach(x.gpr, x.csr, q, x.mem, x.wait_for_interrupt)
  BY <1>2, MachPast DEF Going
<1>4. x.gpr \in Bytes /\ x.csr \in Bytes /\ x.pc \in Addresses /\ x.pc % 2 = 0
  <2> DEFINE M == {x.mem}
  <2>1. x \in [gpr : Bytes, csr : Bytes, pc : Addresses, mem : M,
              wait_for_interrupt : BOOLEAN, running : {TRUE}, debug_mode : {FALSE}]
    BY <1>1 DEF MachineTypes
  <2>2. x.pc % 2 = 0
    BY <1>1 DEF MachineTypes
  <2> HIDE DEF M
  <2> QED  BY <2>1, <2>2
<1>5. q \in Addresses /\ q % 2 = 0
  <2> HIDE DEF x
  <2> QED  BY <1>4, WrapsEven
<1> HIDE DEF x, q
<1>6. Going.gpr = x.gpr /\ Going.csr = x.csr /\ Going.pc = q /\ Going.mem = x.mem
      /\ Going.wait_for_interrupt = x.wait_for_interrupt
  BY <1>3, MachFields
<1>7. Going = Mach(Going.gpr, Going.csr, Going.pc, Going.mem, Going.wait_for_interrupt)
  BY <1>3, <1>6
<1> QED  BY <1>4, <1>5, <1>6, <1>7 DEF x

\* From stage 3 on the word is known and no interrupt is being entered.
LEMMA AtWork ==
  ASSUME SequenceInv, cu.stage \in 3..6
  PROVE  /\ r_instruction = Here /\ ~cu.internal /\ cu.int_stage = 0 /\ last.taken = taken
         /\ ~last.machine.wait_for_interrupt
         /\ cu.stage = 3 => View = Going
<1>1. ControlInv /\ FetchInv /\ IdleInv
  BY DEF SequenceInv, BusInv
<1>2. r_instruction = Here /\ (cu.stage = 3 => View = Going)
  BY <1>1 DEF FetchInv
<1>3. ~cu.internal /\ last.taken = taken /\ ~last.machine.wait_for_interrupt
  BY <1>1 DEF IdleInv
<1>4. cu.int_stage = 0
  BY <1>1 DEF ControlInv
<1> QED  BY <1>2, <1>3, <1>4

\* A clock from one transfer of an instruction to the next.
LEMMA GoesOn ==
  ASSUME SequenceInv, NEW ready, Moving(ready), cu.stage \in 3..5, To(cu.stage + 1),
         taken' = taken, r_instruction' = r_instruction
  PROVE  /\ last' = last /\ Going' = Going /\ InDecode' = InDecode /\ done' = done + 1
         /\ IdleInv' /\ FetchInv' /\ EnterInv'
         /\ cu'.wfi = cu.wfi /\ cu'.wfi \in BOOLEAN /\ cu'.stage = cu.stage + 1
         /\ FromTo(last, last')
<1>1. /\ r_instruction = Here /\ ~cu.internal /\ cu.int_stage = 0 /\ last.taken = taken
      /\ ~last.machine.wait_for_interrupt
  BY AtWork
<1>2. cu'.stage = cu.stage + 1 /\ cu'.int_stage = 0 /\ ~cu'.internal /\ cu'.wfi = cu.wfi /\ cu'.wfi \in BOOLEAN
  BY <1>1, Around, CuFields
<1>3. last' = last
  BY <1>2, Around DEF Boundary, Idle
<1>4. Going' = Going /\ Here' = Here
  BY <1>3 DEF Going, Here
<1>5. InDecode' = InDecode /\ done' = done + 1
  BY <1>2 DEF InDecode, done
<1>6. IdleInv'
  BY <1>1, <1>2, <1>3 DEF IdleInv, Idle
<1>7. FetchInv'
  BY <1>1, <1>2, <1>4 DEF FetchInv
<1>8. EnterInv'
  BY <1>2 DEF EnterInv
<1> QED  BY <1>2, <1>3, <1>4, <1>5, <1>6, <1>7, <1>8 DEF FromTo

\* The clock that takes the last acknowledgement of an instruction.
LEMMA EndsNow ==
  ASSUME SequenceInv, NEW ready, Moving(ready), cu.stage \in 3..6, Silent, To(0), taken' = taken,
         r_instruction' = r_instruction, r_int_id' = r_int_id,
         gpr' \in Bytes, csr' \in Bytes, csr'[0] \in FlagBytes, r_pc' \in WordAddresses,
         Mach(gpr', VC', 2 * r_pc', VM, cu.wfi) \in After(Going, r_instruction)
  PROVE  RegisterTypes' /\ Rest' /\ FromTo(last, last')
<1>0. r_instruction = Here /\ ~cu.internal /\ cu.int_stage = 0 /\ last.taken = taken
      /\ ~last.machine.wait_for_interrupt
  BY AtWork
<1>1. VM' = VM /\ ~Storing' /\ VM' = mem' /\ r_address' = r_address /\ r_data' = r_data
  BY Around, AsksNothing
<1>2. cu'.stage = 0 /\ cu'.int_stage = 0 /\ ~cu'.internal /\ cu'.wfi = cu.wfi
  BY <1>0, Around, CuFields
<1>3. View' \in After(Going, Here)
  <2>1. View' = Mach(gpr', VC', 2 * r_pc', VM, cu.wfi)
    BY <1>1, <1>2, ViewNext
  <2> QED  BY <2>1, <1>0
<1>4. RegisterTypes'
  BY <1>1, <1>2, Around, TypesKeep
<1> QED  BY <1>0, <1>1, <1>2, <1>3, <1>4, Finishes

-----------------------------------------------------------------------------
(* POP, RET and RETI. *)

\* A machine with some bytes off its stack.
LEMMA PulledOffIs ==
  ASSUME NEW g, NEW c, NEW p, NEW m, NEW w, NEW x, x = Mach(g, c, p, m, w), NEW kind, NEW k
  PROVE  PulledOff(x, kind, k) = Mach(g, [SpSet(c, (SpOf(c) + k) % 65536) EXCEPT ![0] = FlagsBack(x, kind, k)],
                                      HalfBack(x, kind, k), m, w)
<1> DEFINE a == (SpOf(c) + k) % 65536
           e == SpSet(c, a)
           q == HalfBack(x, kind, k)
           f == FlagsBack(x, kind, k)
           d == Manual!Dropped(x, k)
           y == [d EXCEPT !.pc = q]
           z == [y EXCEPT !.csr[0] = f]
<1>1. d = Mach(g, e, p, m, w)
  BY MachDropped
<1>2. PulledOff(x, kind, k) = z
  BY DEF PulledOff
<1> HIDE DEF a, e, q, f, d
<1>3. y = Mach(g, e, q, m, w)
  BY <1>1, MachPc
<1> HIDE DEF y
<1>4. z = Mach(g, [e EXCEPT ![0] = f], q, m, w)
  <2>1. WithCsr(y, 0, f) = Mach(g, Updated(e, 0, f), q, m, w)
    BY <1>3, MachCsrAt
  <2> QED  BY <2>1 DEF WithCsr, Updated
<1> HIDE DEF z
<1> QED  BY <1>2, <1>4 DEF a, e, q, f

\* Which byte each of those is.
LEMMA PullsIs ==
  /\ DOMAIN Pulls = {"POP", "RET", "RETI"}
  /\ Pulls["POP"] = 1 /\ Pulls["RET"] = 2 /\ Pulls["RETI"] = 3
  /\ \A kind : Pulled(kind, 0) = "nothing"
  /\ Pulled("POP", 1) = "register"
  /\ Pulled("RET", 1) = "lower" /\ Pulled("RET", 2) = "upper"
  /\ Pulled("RETI", 1) = "flags" /\ Pulled("RETI", 2) = "lower" /\ Pulled("RETI", 3) = "upper"
BY DEF Pulls, Pulled

\* What has come off the stack so far.
LEMMA PullState ==
  ASSUME SequenceInv, cu.stage \in 3..6, InDecode \in DOMAIN Pulls,
         NEW a, a = (SpOf(Going.csr) + done) % 65536
  PROVE  /\ gpr = Going.gpr /\ VM = Going.mem /\ cu.wfi = Going.wait_for_interrupt
         /\ VC = [SpSet(Going.csr, a) EXCEPT ![0] = FlagsBack(Going, InDecode, done)]
         /\ 2 * r_pc = HalfBack(Going, InDecode, done)
         /\ a \in Addresses /\ Sp = a
         /\ cu.stage > 3 => Reads(a)
<1>1. RegisterTypes /\ PullInv
  BY DEF SequenceInv
<1>2. /\ Going = Mach(Going.gpr, Going.csr, Going.pc, Going.mem, Going.wait_for_interrupt)
      /\ Going.csr \in Bytes
  BY <1>1, GoingIs
<1>3. SpOf(Going.csr) \in Addresses
  BY <1>2, SpSetSame
<1>4. done \in 0..3
  BY DEF done
<1>5. a \in Addresses
  <2> DEFINE y == SpOf(Going.csr)
             n == done
  <2>0. y \in Addresses /\ n \in 0..3
    BY <1>3, <1>4
  <2> HIDE DEF y, n
  <2>1. y \in Int /\ n \in Int
    BY <2>0, AddressIs
  <2>2. y + n \in Int
    BY <2>1
  <2>3. (y + n) % 65536 \in Addresses
    BY <2>2, Wraps
  <2> QED  BY <2>3 DEF y, n
<1> DEFINE c == Going.csr
           f == FlagsBack(Going, InDecode, done)
           q == HalfBack(Going, InDecode, done)
           v == [SpSet(c, a) EXCEPT ![0] = f]
<1>6. View = Mach(Going.gpr, v, q, Going.mem, Going.wait_for_interrupt)
  <2>1. View = PulledOff(Going, InDecode, done)
    <3>1. CASE cu.stage > 3
      BY <1>1, <3>1 DEF PullInv
    <3>2. CASE cu.stage = 3
      <4>1. done = 0 /\ View = Going
        BY <3>2, AtWork DEF done
      <4>2. f = c[0] /\ q = Going.pc
        BY <4>1 DEF FlagsBack, HalfBack
      <4>3. a = SpOf(c)
        <5> DEFINE y == SpOf(c)
        <5>0. y \in Addresses /\ a = (y + 0) % 65536
          BY <1>3, <4>1
        <5> HIDE DEF y
        <5>1. y \in Int
          BY <5>0, AddressIs
        <5>2. y + 0 = y
          BY <5>1
        <5>3. a = y
          BY <5>0, <5>2, WrapsNot
        <5> QED  BY <5>3 DEF y
      <4>4. SpSet(c, a) = c
        BY <1>2, <4>3, SpSetSame
      <4>5. [c EXCEPT ![0] = c[0]] = c
        <5> DEFINE e == c
        <5>1. e \in Bytes
          BY <1>2
        <5> HIDE DEF e
        <5>2. [e EXCEPT ![0] = e[0]] = e
          BY <5>1 DEF Bytes
        <5> QED  BY <5>2 DEF e
      <4>6. v = c
        BY <4>2, <4>4, <4>5
      <4>7. PulledOff(Going, InDecode, done) = Mach(Going.gpr, v, q, Going.mem, Going.wait_for_interrupt)
        BY <1>2, PulledOffIs
      <4> HIDE DEF v, q, f, c
      <4> QED  BY <1>2, <4>1, <4>2, <4>6, <4>7 DEF c
    <3> QED  BY <3>1, <3>2
  <2>2. PulledOff(Going, InDecode, done) = Mach(Going.gpr, v, q, Going.mem, Going.wait_for_interrupt)
    BY <1>2, PulledOffIs
  <2> QED  BY <2>1, <2>2
<1>7. View = Mach(gpr, VC, 2 * r_pc, VM, cu.wfi)
  BY ViewIs
<1>8. gpr = Going.gpr /\ VC = v /\ 2 * r_pc = q /\ VM = Going.mem /\ cu.wfi = Going.wait_for_interrupt
  <2> HIDE DEF v, q
  <2>1. Mach(gpr, VC, 2 * r_pc, VM, cu.wfi) = Mach(Going.gpr, v, q, Going.mem, Going.wait_for_interrupt)
    BY <1>6, <1>7
  <2> QED  BY <2>1, MachSame
<1>9. Sp = a
  <2>1. Sp = SpOf(VC)
    BY <1>1, VcIs
  <2>2. SpOf(SpSet(c, a)) = a /\ SpSet(c, a) \in Bytes
    BY <1>2, <1>5, SpSetIs
  <2>3. SpOf(v) = SpOf(SpSet(c, a))
    <3> DEFINE e == SpSet(c, a)
    <3>1. e \in Bytes
      BY <2>2
    <3> HIDE DEF e, f
    <3>2. [e EXCEPT ![0] = f][6] = e[6] /\ [e EXCEPT ![0] = f][7] = e[7]
      BY <3>1 DEF Bytes
    <3> QED  BY <3>2 DEF SpOf, e
  <2> HIDE DEF v
  <2> QED  BY <1>8, <2>1, <2>2, <2>3
<1>10. cu.stage > 3 => Reads(a)
  <2>1. Manual!StackPointer(Going) = SpOf(Going.csr)
    BY <1>2, MachStack
  <2> QED  BY <1>1, <2>1 DEF PullInv
<1> QED  BY <1>5, <1>8, <1>9, <1>10

\* A pc with its lower byte replaced.
LEMMA LowerByte ==
  ASSUME NEW p \in WordAddresses, NEW b \in AByte
  PROVE  /\ 128 * (p \div 128) + (b \div 2) \in WordAddresses
         /\ 2 * (128 * (p \div 128) + (b \div 2)) = HalfPc(2 * p, b)
<1>1. p \in Int /\ 0 <= p /\ p <= 32767
  BY WordAddressIs
<1>9. b \in Int /\ 0 <= b /\ b <= 255
  BY ByteIs
<1> DEFINE h == p \div 128
           l == b \div 2
<1>3. (2 * p) \div 256 = h
  BY <1>1
<1>2. h \in Int /\ 0 <= h /\ h <= 255
  BY <1>1
<1>8. l \in Int /\ 0 <= l /\ l <= 127
  BY <1>9
<1> HIDE DEF h, l
<1>4. 128 * h + l \in WordAddresses
  <2>1. 128 * h + l \in Int /\ 128 * h + l >= 0 /\ 128 * h + l <= 32767
    BY <1>2, <1>8
  <2> QED  BY <2>1, InWordAddresses
<1>5. 2 * (128 * h + l) = 256 * h + 2 * l
  BY <1>2, <1>8
<1>6. HalfPc(2 * p, b) = 256 * h + 2 * l
  BY <1>3 DEF HalfPc, l
<1>7. 2 * (128 * h + l) = HalfPc(2 * p, b)
  BY <1>5, <1>6
<1> QED  BY <1>4, <1>7 DEF h, l

\* Then with its upper byte: both together are the address popped.
LEMMA UpperByte ==
  ASSUME NEW p \in WordAddresses, NEW q \in Addresses, NEW lo \in AByte, NEW b \in AByte,
         2 * p = HalfPc(q, lo)
  PROVE  /\ (p % 128) + 128 * b \in WordAddresses
         /\ 2 * ((p % 128) + 128 * b) = Even(Manual!Pair(lo, b))
<1>10. p \in Int
  BY WordAddressIs
<1>11. b \in Int /\ 0 <= b /\ b <= 255 /\ lo \in Int /\ 0 <= lo /\ lo <= 255
  BY ByteIs
<1>12. q \in Int /\ 0 <= q
  BY AddressIs
<1> DEFINE h == q \div 256
           l == lo \div 2
<1>13. h \in Int /\ h >= 0
  BY <1>12
<1>14. l \in Int /\ 0 <= l /\ l <= 127
  BY <1>11
<1>3. 2 * p = 256 * h + 2 * l
  BY DEF HalfPc
<1>4. Even(Manual!Pair(lo, b)) = 2 * ((lo + 256 * b) \div 2)
  BY DEF Even, Manual!Pair
<1>5. (lo + 256 * b) \div 2 = l + 128 * b
  BY <1>11
<1> HIDE DEF h, l
<1>6. p = 128 * h + l
  BY <1>10, <1>3, <1>13, <1>14
<1>7. p % 128 = l
  BY <1>6, <1>13, <1>14
<1>8. l + 128 * b \in WordAddresses
  <2>1. l + 128 * b \in Int /\ l + 128 * b >= 0 /\ l + 128 * b <= 32767
    BY <1>11, <1>14
  <2> QED  BY <2>1, InWordAddresses
<1> QED  BY <1>4, <1>5, <1>7, <1>8

\* Another byte is asked for.
LEMMA PullsMore ==
  ASSUME SequenceInv, NEW ready, Moving(ready), Pull(ready), done < Pulls[InDecode]
  PROVE  RegisterTypes' /\ Rest' /\ FromTo(last, last')
<1> DEFINE kind == InDecode
           k == done
           x == Going
           what == Pulled(kind, k)
           b == w_wb_data_o
           c == x.csr
           a == (SpOf(c) + k) % 65536
           a1 == (SpOf(c) + (k + 1)) % 65536
<1>1. kind \in {"POP", "RET", "RETI"} /\ Answered(ready) /\ r_instruction' = r_instruction
      /\ r_int_id' = r_int_id /\ taken' = taken
  BY PullsIs DEF Pull
<1>2. k \in 0..3 /\ cu.stage \in 3..6 /\ k = cu.stage - 3
  BY <1>1, Around DEF Answered, done, ControlInv
<1>3. cu.stage \in 3..5 /\ k \in 0..2 /\ (kind = "POP" => k = 0) /\ (kind = "RET" => k < 2)
  BY <1>1, <1>2, PullsIs
<1>4. /\ Ask((Sp + 1) % 65536, kind # "POP") /\ To(cu.stage + 1)
      /\ csr' = IF what = "flags" THEN [WithSp((Sp + 1) % 65536) EXCEPT ![0] = Kept(b)] ELSE WithSp((Sp + 1) % 65536)
      /\ gpr' = IF what = "register" THEN [gpr EXCEPT ![dst(r_instruction)] = b] ELSE gpr
      /\ r_pc' = CASE what = "lower" -> WithLower(b)
                   [] what = "upper" -> WithUpper(b)
                   [] OTHER -> r_pc
  BY DEF Pull
<1>5. what \in {"nothing", "lower", "flags"} /\ (what = "lower" <=> (kind = "RET" /\ k = 1) \/ (kind = "RETI" /\ k = 2))
      /\ (what = "flags" <=> kind = "RETI" /\ k = 1)
  BY <1>1, <1>3, PullsIs
<1>6. /\ last' = last /\ Going' = Going /\ InDecode' = InDecode /\ done' = done + 1
      /\ IdleInv' /\ FetchInv' /\ EnterInv'
      /\ cu'.wfi = cu.wfi /\ cu'.wfi \in BOOLEAN /\ cu'.stage = cu.stage + 1
      /\ FromTo(last, last')
  BY <1>1, <1>3, <1>4, GoesOn
<1>7. RegisterTypes /\ r_pc \in WordAddresses /\ csr[0] \in FlagBytes /\ gpr \in Bytes
  BY Around
<1>8. /\ x = Mach(x.gpr, c, x.pc, x.mem, x.wait_for_interrupt) /\ c \in Bytes
      /\ x.pc \in Addresses
  BY <1>7, GoingIs
<1>9. /\ gpr = x.gpr /\ VM = x.mem /\ cu.wfi = x.wait_for_interrupt
      /\ VC = [SpSet(c, a) EXCEPT ![0] = FlagsBack(x, kind, k)]
      /\ 2 * r_pc = HalfBack(x, kind, k)
      /\ a \in Addresses /\ Sp = a
      /\ cu.stage > 3 => Reads(a)
  <2> DEFINE e == a
  <2>1. e = (SpOf(Going.csr) + done) % 65536
    OBVIOUS
  <2> HIDE DEF e
  <2>2. /\ gpr = x.gpr /\ VM = x.mem /\ cu.wfi = x.wait_for_interrupt
        /\ VC = [SpSet(c, e) EXCEPT ![0] = FlagsBack(x, kind, k)]
        /\ 2 * r_pc = HalfBack(x, kind, k)
        /\ e \in Addresses /\ Sp = e
        /\ cu.stage > 3 => Reads(e)
    BY <1>1, <1>2, <2>1, PullsIs, PullState
  <2> QED  BY <2>2 DEF e
<1>10. (Sp + 1) % 65536 = a1 /\ a1 \in Addresses
  <2> DEFINE y == SpOf(c)
             n == k
  <2>1. y \in Addresses /\ n \in 0..3 /\ Sp = (y + n) % 65536 /\ a1 = (y + (n + 1)) % 65536
    BY <1>2, <1>8, <1>9, SpSetSame
  <2> HIDE DEF y, n, a1
  <2>2. y \in Int /\ n \in Int
    BY <2>1, AddressIs
  <2>3. (((y + n) % 65536) + 1) % 65536 = (y + (n + 1)) % 65536
    BY <2>2, WrapsOnce
  <2>4. y + (n + 1) \in Int
    BY <2>2
  <2> QED  BY <2>1, <2>3, <2>4, Wraps
<1>11. VM' = VM /\ r_address' = a1 /\ ~Storing' /\ VM' = mem' /\ r_data' = r_data
  BY <1>4, <1>10, Around, AsksFor
<1>12. b \in AByte /\ (k > 0 => b = Manual!Popped(x, k))
  <2>1. b \in AByte
    BY ByteArrives
  <2>2. ASSUME k > 0 PROVE b = Manual!Popped(x, k)
    <3>1. Reads(a)
      BY <1>2, <1>9, <2>2
    <3> DEFINE e == a
    <3> HIDE DEF e
    <3>2. b = Manual!Load(VM, e)
      BY <3>1, ByteComes DEF e
    <3>3. Manual!Popped(x, k) = Manual!Load(x.mem, a)
      BY <1>8, MachDropped
    <3> QED  BY <1>9, <3>2, <3>3 DEF e
  <2> HIDE DEF b, k, x
  <2> QED  BY <2>1, <2>2
<1>13. csr' \in Bytes /\ csr'[0] \in FlagBytes /\ VC' = [SpSet(VC, a1) EXCEPT ![0] = Shown']
       /\ Shown' = FlagsBack(x, kind, k + 1)
  <2> DEFINE y == WithSp(a1)
             f == Kept(b)
  <2>1. y \in Bytes /\ y[0] = csr[0]
        /\ [[y EXCEPT ![0] = f] EXCEPT ![0] = f + Cleared] = [SpSet(VC, a1) EXCEPT ![0] = f + Cleared]
        /\ [y EXCEPT ![0] = Shown] = SpSet(VC, a1)
        /\ [SpSet(VC, a1) EXCEPT ![0] = Shown] = SpSet(VC, a1)
    <3> HIDE DEF a1, f
    <3> QED  BY <1>7, <1>10, NewSp
  <2>2. VC' = [csr' EXCEPT ![0] = Shown'] /\ Shown' = csr'[0] + Cleared /\ Shown = csr[0] + Cleared
    BY DEF VC, Shown, Cleared
  <2>3. f \in FlagBytes /\ f \in AByte
    <3>1. f \in FlagBytes /\ f \in 0..143
      BY <1>12, KeptIs
    <3> HIDE DEF f
    <3> QED  BY <3>1 DEF AByte
  <2>4. CASE what = "flags"
    <3>1. csr' = [y EXCEPT ![0] = f]
      BY <1>4, <1>10, <2>4
    <3>2. csr' \in Bytes /\ csr'[0] = f
      <4> HIDE DEF y, f
      <4> QED  BY <2>1, <2>3, <3>1 DEF Bytes
    <3>3. Shown' = FlagsBack(x, kind, k + 1)
      <4>1. kind = "RETI" /\ k + 1 > 1 /\ b = Manual!Popped(x, 1)
        BY <1>5, <1>12, <2>4
      <4> QED  BY <2>2, <3>2, <4>1 DEF FlagsBack
    <3>4. VC' = [SpSet(VC, a1) EXCEPT ![0] = Shown']
      <4>1. VC' = [[y EXCEPT ![0] = f] EXCEPT ![0] = f + Cleared] /\ Shown' = f + Cleared
        BY <2>2, <3>1, <3>2
      <4> HIDE DEF y, f, a1
      <4> QED  BY <2>1, <4>1
    <3> HIDE DEF f
    <3> QED  BY <2>3, <3>2, <3>3, <3>4
  <2>5. CASE what # "flags"
    <3>1. csr' = y
      BY <1>4, <1>10, <2>5
    <3>2. csr' \in Bytes /\ csr'[0] = csr[0] /\ Shown' = Shown
      <4> HIDE DEF y
      <4> QED  BY <2>1, <2>2, <3>1
    <3>3. VC' = [SpSet(VC, a1) EXCEPT ![0] = Shown']
      <4> HIDE DEF y, a1
      <4> QED  BY <2>1, <2>2, <3>1, <3>2
    <3>4. Shown = FlagsBack(x, kind, k)
      <4>1. VC[0] = Shown
        BY <1>7, VcIs
      <4>2. SpSet(c, a) \in Bytes
        BY <1>8, <1>9, SpSetIs
      <4> DEFINE e == SpSet(c, a)
                 g == FlagsBack(x, kind, k)
      <4>3. e \in Bytes /\ VC = [e EXCEPT ![0] = g]
        BY <1>9, <4>2
      <4> HIDE DEF e, g
      <4>4. VC[0] = g
        BY <4>3 DEF Bytes
      <4> QED  BY <4>1, <4>4 DEF g
    <3>5. FlagsBack(x, kind, k) = FlagsBack(x, kind, k + 1)
      <4>1. kind # "RETI" \/ k # 1
        BY <1>5, <2>5
      <4>2. kind = "RETI" => (k > 1 <=> k + 1 > 1)
        BY <1>3, <4>1
      <4> QED  BY <4>2 DEF FlagsBack
    <3> QED  BY <1>7, <3>2, <3>3, <3>4, <3>5
  <2> QED  BY <2>4, <2>5
<1>14. r_pc' \in WordAddresses /\ 2 * r_pc' = HalfBack(x, kind, k + 1)
  <2>1. CASE what = "lower"
    <3>1. HalfBack(x, kind, k) = x.pc
      BY <1>5, <2>1 DEF HalfBack
    <3>2. HalfBack(x, kind, k + 1) = HalfPc(x.pc, b)
      BY <1>5, <1>12, <2>1 DEF HalfBack
    <3>3. r_pc' = 128 * (r_pc \div 128) + (b \div 2)
      BY <1>4, <2>1 DEF WithLower
    <3> QED  BY <1>7, <1>9, <1>12, <3>1, <3>2, <3>3, LowerByte
  <2>2. CASE what # "lower"
    <3>1. r_pc' = r_pc
      BY <1>4, <1>5, <2>2
    <3>2. HalfBack(x, kind, k) = x.pc /\ HalfBack(x, kind, k + 1) = x.pc
      BY <1>3, <1>5, <2>2 DEF HalfBack
    <3> QED  BY <1>7, <1>9, <3>1, <3>2
  <2> QED  BY <2>1, <2>2
<1>15. gpr' = gpr
  BY <1>4, <1>5
<1>16. RegisterTypes'
  <2> HIDE DEF a1
  <2> QED  BY <1>1, <1>6, <1>7, <1>10, <1>11, <1>13, <1>14, <1>15, Around, TypesKeep
<1>17. View' = PulledOff(x, kind, k + 1)
  <2> DEFINE f == FlagsBack(x, kind, k)
             f1 == FlagsBack(x, kind, k + 1)
             q1 == HalfBack(x, kind, k + 1)
  <2>1. VC' = [SpSet(c, a1) EXCEPT ![0] = f1]
    <3>1. SpSet([SpSet(c, a) EXCEPT ![0] = f], a1) = [SpSet(c, a1) EXCEPT ![0] = f]
      <4>1. c \in Bytes /\ a \in Addresses /\ a1 \in Addresses
        BY <1>8, <1>9, <1>10
      <4> HIDE DEF a, a1, f, c
      <4> QED  BY <4>1, SpSetTwice
    <3>2. VC' = [[SpSet(c, a1) EXCEPT ![0] = f] EXCEPT ![0] = f1]
      <4> HIDE DEF a, a1, f, f1, c
      <4> QED  BY <1>9, <1>13, <3>1 DEF f, f1
    <3>3. SpSet(c, a1) \in Bytes
      <4> HIDE DEF a1
      <4> QED  BY <1>8, <1>10, SpSetIs
    <3> DEFINE e == SpSet(c, a1)
    <3> HIDE DEF e, f, f1
    <3>4. [[e EXCEPT ![0] = f] EXCEPT ![0] = f1] = [e EXCEPT ![0] = f1]
      BY <3>3 DEF Bytes, e
    <3> QED  BY <3>2, <3>4 DEF e
  <2>2. PulledOff(x, kind, k + 1) = Mach(x.gpr, [SpSet(c, a1) EXCEPT ![0] = f1], q1, x.mem, x.wait_for_interrupt)
    BY <1>8, PulledOffIs
  <2>3. View' = Mach(gpr', VC', 2 * r_pc', VM', cu'.wfi)
    BY ViewNext
  <2>4. gpr' = x.gpr /\ 2 * r_pc' = q1 /\ VM' = x.mem /\ cu'.wfi = x.wait_for_interrupt
    BY <1>6, <1>9, <1>11, <1>14, <1>15
  <2> HIDE DEF f1, q1, a1
  <2> QED  BY <2>1, <2>2, <2>3, <2>4
<1>18. PullInv'
  <2>1. r_address' = (Manual!StackPointer(Going) + (done + 1)) % 65536
    <3>1. Manual!StackPointer(x) = SpOf(c)
      BY <1>8, MachStack
    <3> QED  BY <1>11, <3>1
  <2> QED  BY <1>6, <1>11, <1>17, <2>1 DEF PullInv, Reads
<1>19. SingleInv' /\ LinkInv'
  BY <1>1, <1>6 DEF SingleInv, LinkInv
<1> QED  BY <1>6, <1>16, <1>18, <1>19 DEF Rest

\* The last byte comes.
LEMMA PullsLast ==
  ASSUME SequenceInv, NEW ready, Moving(ready), Pull(ready), ~(done < Pulls[InDecode])
  PROVE  RegisterTypes' /\ Rest' /\ FromTo(last, last')
<1> DEFINE kind == InDecode
           w == r_instruction
           k == done
           x == Going
           b == w_wb_data_o
           c == x.csr
           a == (SpOf(c) + k) % 65536
           n == Manual!Popped(x, k)
<1>1. kind \in {"POP", "RET", "RETI"} /\ Answered(ready) /\ r_instruction' = r_instruction
      /\ r_int_id' = r_int_id /\ taken' = taken
  BY PullsIs DEF Pull
<1>2. k \in 0..3 /\ cu.stage \in 3..6 /\ k = cu.stage - 3
  BY <1>1, Around DEF Answered, done, ControlInv
<1>3. k = Pulls[kind] /\ k > 0 /\ cu.stage > 3
  <2>1. cu.stage > 4 => kind \in {"RET", "RETI", "BL"}
    BY Around DEF ControlInv
  <2>2. cu.stage > 5 => kind = "RETI"
    BY Around DEF ControlInv
  <2> QED  BY <1>1, <1>2, <2>1, <2>2, PullsIs
<1>4. Silent /\ To(0) /\ RegisterTypes /\ r_pc \in WordAddresses /\ csr[0] \in FlagBytes /\ gpr \in Bytes
      /\ csr \in Bytes /\ w \in Addresses
  BY Around DEF Pull
<1>5. /\ csr' = csr
      /\ gpr' = IF kind = "POP" THEN [gpr EXCEPT ![dst(w)] = b] ELSE gpr
      /\ r_pc' = IF kind = "POP" THEN r_pc ELSE WithUpper(b)
  <2> DEFINE what == Pulled(kind, k)
  <2>1. what = IF kind = "POP" THEN "register" ELSE "upper"
    BY <1>1, <1>3, PullsIs
  <2>2. /\ csr' = IF what = "flags" THEN [csr EXCEPT ![0] = Kept(b)] ELSE csr
        /\ gpr' = IF what = "register" THEN [gpr EXCEPT ![dst(w)] = b] ELSE gpr
        /\ r_pc' = CASE what = "lower" -> WithLower(b)
                     [] what = "upper" -> WithUpper(b)
                     [] OTHER -> r_pc
    BY DEF Pull
  <2> QED  BY <2>1, <2>2
<1>6. /\ x = Mach(x.gpr, c, x.pc, x.mem, x.wait_for_interrupt) /\ c \in Bytes
      /\ x.pc \in Addresses
  BY <1>4, GoingIs
<1>7. /\ gpr = x.gpr /\ VM = x.mem /\ cu.wfi = x.wait_for_interrupt
      /\ VC = [SpSet(c, a) EXCEPT ![0] = FlagsBack(x, kind, k)]
      /\ 2 * r_pc = HalfBack(x, kind, k)
      /\ a \in Addresses /\ Reads(a)
  <2> DEFINE e == a
  <2>1. e = (SpOf(Going.csr) + done) % 65536
    OBVIOUS
  <2> HIDE DEF e
  <2>2. /\ gpr = x.gpr /\ VM = x.mem /\ cu.wfi = x.wait_for_interrupt
        /\ VC = [SpSet(c, e) EXCEPT ![0] = FlagsBack(x, kind, k)]
        /\ 2 * r_pc = HalfBack(x, kind, k)
        /\ e \in Addresses /\ Reads(e)
    BY <1>1, <1>2, <1>3, <2>1, PullsIs, PullState
  <2> QED  BY <2>2 DEF e
<1>8. b = n /\ b \in AByte
  <2> DEFINE e == a
  <2>1. Reads(e)
    BY <1>7
  <2> HIDE DEF e
  <2>2. b = Manual!Load(VM, e) /\ b \in AByte
    BY <2>1, ByteComes
  <2>3. n = Manual!Load(x.mem, a)
    BY <1>6, MachDropped
  <2> QED  BY <1>7, <2>2, <2>3 DEF e
<1>9. Manual!Dropped(x, k) = Mach(x.gpr, SpSet(c, a), x.pc, x.mem, x.wait_for_interrupt)
  BY <1>6, MachDropped
<1>10. VC' = VC
  BY <1>5, VcStays
<1>11. SpSet(c, a) \in Bytes /\ SpSet(c, a)[0] = c[0]
  <2> DEFINE e == a
  <2>1. e \in Addresses
    BY <1>7
  <2> HIDE DEF e
  <2>2. SpSet(c, e) \in Bytes /\ \A i \in 0..5 : SpSet(c, e)[i] = c[i]
    BY <1>6, <2>1, SpSetIs
  <2> QED  BY <2>2 DEF e
<1>12. kind # "RETI" => VC = SpSet(c, a)
  <2>1. kind # "RETI" => FlagsBack(x, kind, k) = c[0]
    BY DEF FlagsBack
  <2> DEFINE e == SpSet(c, a)
  <2>2. e \in Bytes /\ (kind # "RETI" => VC = [e EXCEPT ![0] = e[0]])
    BY <1>7, <1>11, <2>1
  <2> HIDE DEF e
  <2>3. [e EXCEPT ![0] = e[0]] = e
    BY <2>2 DEF Bytes
  <2> QED  BY <2>2, <2>3 DEF e
<1>13. ASSUME gpr' \in Bytes, r_pc' \in WordAddresses,
              Mach(gpr', VC, 2 * r_pc', VM, cu.wfi) \in After(x, w)
       PROVE  RegisterTypes' /\ Rest' /\ FromTo(last, last')
  <2>1. csr' \in Bytes /\ csr'[0] \in FlagBytes
    BY <1>4, <1>5
  <2>2. Mach(gpr', VC', 2 * r_pc', VM, cu.wfi) \in After(Going, r_instruction)
    BY <1>10, <1>13
  <2> QED  BY <1>1, <1>2, <1>4, <1>13, <2>1, <2>2, EndsNow
<1>14. CASE kind = "POP"
  <2>1. k = 1
    BY <1>3, <1>14, PullsIs
  <2>2. gpr' = [gpr EXCEPT ![dst(w)] = b] /\ r_pc' = r_pc
    BY <1>5, <1>14
  <2>3. gpr' \in Bytes
    <3> HIDE DEF b
    <3> QED  BY <1>4, <1>8, <2>2 DEF Bytes
  <2>4. 2 * r_pc = x.pc
    BY <1>7, <1>14 DEF HalfBack
  <2>5. [Manual!Dropped(x, 1) EXCEPT !.gpr[dst(w)] = Manual!Popped(x, 1)] \in After(x, w)
    BY <1>14, AfterPop DEF InDecode
  <2>6. [Manual!Dropped(x, 1) EXCEPT !.gpr[dst(w)] = Manual!Popped(x, 1)]
          = Mach([x.gpr EXCEPT ![dst(w)] = Manual!Popped(x, 1)], SpSet(c, a), x.pc, x.mem, x.wait_for_interrupt)
    <3> DEFINE y == Manual!Dropped(x, 1)
               d == dst(w)
               v == Manual!Popped(x, 1)
               e == SpSet(c, a)
               g == x.gpr
               p == x.pc
               m == x.mem
               t == x.wait_for_interrupt
    <3>1. y = Mach(g, e, p, m, t)
      BY <1>9, <2>1
    <3> HIDE DEF y, d, v, e, g, p, m, t
    <3>2. WithGpr(y, d, v) = Mach(Updated(g, d, v), e, p, m, t)
      BY <3>1, MachGprAt
    <3> QED  BY <3>2 DEF WithGpr, Updated, y, d, v, e, g, p, m, t
  <2>7. Mach(gpr', VC, 2 * r_pc', VM, cu.wfi)
          = Mach([x.gpr EXCEPT ![dst(w)] = Manual!Popped(x, 1)], SpSet(c, a), x.pc, x.mem, x.wait_for_interrupt)
    <3>1. VC = SpSet(c, a) /\ b = Manual!Popped(x, 1)
      BY <1>8, <1>12, <1>14, <2>1
    <3> HIDE DEF b, a
    <3> QED  BY <1>7, <2>2, <2>4, <3>1
  <2> QED  BY <1>4, <1>13, <2>2, <2>3, <2>5, <2>6, <2>7
<1>15. ASSUME kind # "POP", NEW lo \in AByte, 2 * r_pc = HalfPc(x.pc, lo)
       PROVE  /\ r_pc' \in WordAddresses /\ 2 * r_pc' = Even(Manual!Pair(lo, b)) /\ gpr' = gpr /\ gpr' \in Bytes
  <2>1. r_pc' = (r_pc % 128) + 128 * b /\ gpr' = gpr
    BY <1>5, <1>15 DEF WithUpper
  <2> HIDE DEF b
  <2> QED  BY <1>4, <1>6, <1>8, <1>15, <2>1, UpperByte
<1>16. \A i \in 1..3 : Manual!Popped(x, i) \in AByte
  <2> SUFFICES ASSUME NEW i \in 1..3 PROVE Manual!Popped(x, i) \in AByte
    OBVIOUS
  <2> DEFINE y == SpOf(c)
             e == (y + i) % 65536
  <2>1. Manual!Popped(x, i) = Manual!Load(x.mem, e)
    BY <1>6, MachDropped
  <2>2. y \in Addresses
    BY <1>6, SpSetSame
  <2> HIDE DEF y
  <2>3. y + i \in Int
    <3>1. y \in Int
      BY <2>2, AddressIs
    <3> QED  BY <3>1
  <2>4. e \in Addresses
    BY <2>3, Wraps
  <2> HIDE DEF e
  <2>5. BytesAt(x.mem)
    BY <1>7, Around
  <2> QED  BY <2>1, <2>4, <2>5, LoadByte
<1>17. CASE kind = "RET"
  <2>1. k = 2
    BY <1>3, <1>17, PullsIs
  <2> DEFINE lo == Manual!Popped(x, 1)
             q == Back(x, 1)
  <2>2. 2 * r_pc = HalfPc(x.pc, lo) /\ lo \in AByte
    BY <1>7, <1>16, <1>17, <2>1 DEF HalfBack
  <2>3. r_pc' \in WordAddresses /\ 2 * r_pc' = Even(Manual!Pair(lo, b)) /\ gpr' = gpr /\ gpr' \in Bytes
    <3> HIDE DEF lo, b
    <3> QED  BY <1>15, <1>17, <2>2
  <2>4. 2 * r_pc' = q
    BY <1>8, <2>1, <2>3 DEF Back
  <2>5. [Manual!Dropped(x, 2) EXCEPT !.pc = q] \in After(x, w)
    BY <1>17, AfterRet DEF InDecode
  <2>6. [Manual!Dropped(x, 2) EXCEPT !.pc = q] = Mach(x.gpr, SpSet(c, a), q, x.mem, x.wait_for_interrupt)
    <3> DEFINE y == Manual!Dropped(x, 2)
               e == SpSet(c, a)
    <3>1. y = Mach(x.gpr, e, x.pc, x.mem, x.wait_for_interrupt)
      BY <1>9, <2>1
    <3> HIDE DEF y, e, q
    <3>2. [y EXCEPT !.pc = q] = Mach(x.gpr, e, q, x.mem, x.wait_for_interrupt)
      BY <3>1, MachPc
    <3> QED  BY <3>2 DEF y, e
  <2>7. Mach(gpr', VC, 2 * r_pc', VM, cu.wfi) = Mach(x.gpr, SpSet(c, a), q, x.mem, x.wait_for_interrupt)
    <3> HIDE DEF q
    <3> QED  BY <1>7, <1>12, <1>17, <2>3, <2>4
  <2> QED  BY <1>13, <2>3, <2>5, <2>6, <2>7
<1>18. CASE kind = "RETI"
  <2>1. k = 3
    BY <1>3, <1>18, PullsIs
  <2> DEFINE lo == Manual!Popped(x, 2)
             q == Back(x, 2)
             f == Kept(Manual!Popped(x, 1)) + Cleared
             d == Manual!Dropped(x, 3)
             e == SpSet(c, a)
             y == [d EXCEPT !.pc = q]
             z == [y EXCEPT !.csr[0] = f]
  <2>2. 2 * r_pc = HalfPc(x.pc, lo) /\ lo \in AByte
    BY <1>7, <1>16, <1>18, <2>1 DEF HalfBack
  <2>3. r_pc' \in WordAddresses /\ 2 * r_pc' = Even(Manual!Pair(lo, b)) /\ gpr' = gpr /\ gpr' \in Bytes
    <3> HIDE DEF lo, b
    <3> QED  BY <1>15, <1>18, <2>2
  <2>4. 2 * r_pc' = q
    BY <1>8, <2>1, <2>3 DEF Back
  <2>5. z \in After(x, w)
    BY <1>18, AfterReti DEF InDecode
  <2>6. d = Mach(x.gpr, e, x.pc, x.mem, x.wait_for_interrupt)
    BY <1>9, <2>1
  <2>7. VC = [e EXCEPT ![0] = f]
    <3>1. FlagsBack(x, kind, k) = f
      BY <1>18, <2>1 DEF FlagsBack
    <3> HIDE DEF f
    <3> QED  BY <1>7, <3>1
  <2>8. z = Mach(x.gpr, [e EXCEPT ![0] = f], q, x.mem, x.wait_for_interrupt)
    <3> DEFINE g == x.gpr
               m == x.mem
               t == x.wait_for_interrupt
    <3> HIDE DEF d, e, q, f, g, m, t
    <3>1. y = Mach(g, e, q, m, t)
      BY <2>6, MachPc DEF g, m, t
    <3> HIDE DEF y
    <3>2. WithCsr(y, 0, f) = Mach(g, Updated(e, 0, f), q, m, t)
      BY <3>1, MachCsrAt
    <3> QED  BY <3>2 DEF WithCsr, Updated, g, m, t
  <2>9. Mach(gpr', VC, 2 * r_pc', VM, cu.wfi) = z
    <3>1. gpr' = x.gpr /\ 2 * r_pc' = q /\ VM = x.mem /\ cu.wfi = x.wait_for_interrupt
      BY <1>7, <2>3, <2>4
    <3> HIDE DEF z, q, e, f
    <3>2. Mach(gpr', VC, 2 * r_pc', VM, cu.wfi) = Mach(x.gpr, [e EXCEPT ![0] = f], q, x.mem, x.wait_for_interrupt)
      BY <2>7, <3>1
    <3> QED  BY <2>8, <3>2
  <2> HIDE DEF z
  <2> QED  BY <1>13, <2>3, <2>5, <2>9
<1> QED  BY <1>1, <1>14, <1>17, <1>18

\* POP, RET and RETI: each byte goes where it belongs, in the order it was
\* pushed.
LEMMA DoesPull ==
  ASSUME SequenceInv, NEW ready, Moving(ready), Pull(ready)
  PROVE  RegisterTypes' /\ Rest' /\ FromTo(last, last')
BY PullsMore, PullsLast

-----------------------------------------------------------------------------
(* PUSH, SB and LB. *)

\* Where SB and LB go.
LEMMA PlaceIs ==
  ASSUME RegisterTypes, NEW x, x.gpr = gpr,
         Kind(r_instruction) = InDecode
  PROVE  /\ (Pair + Immediate(InDecode, r_instruction)) % 65536 = Place(x, r_instruction)
         /\ (Pair + Immediate(InDecode, r_instruction)) % 65536 \in Addresses
         /\ Source(x, r_instruction) = s
<1>1. r_instruction \in Addresses /\ gpr \in Bytes
  BY DEF RegisterTypes
<1>2. r_instruction \in Int
  BY <1>1, AddressIs
<1>3. PairAt(x, r_instruction) = Pair /\ Pair \in Addresses
  BY <1>1, PairOf DEF Pair
<1>4. Immediate(InDecode, r_instruction) \in Int
  BY <1>2, ImmediateInt
<1> DEFINE p == Pair
           i == Immediate(InDecode, r_instruction)
<1>5. p + i \in Int
  <2>1. p \in Addresses /\ i \in Int
    BY <1>3, <1>4
  <2> HIDE DEF p, i
  <2> QED  BY <2>1, AddressIs
<1>6. (p + i) % 65536 \in Addresses
  <2> HIDE DEF p, i
  <2> QED  BY <1>5, Wraps
<1>7. Place(x, r_instruction) = (p + i) % 65536
  BY <1>3 DEF Place
<1> QED  BY <1>6, <1>7 DEF Source, s

\* PUSH, SB and LB ask,
LEMMA SingleStarts ==
  ASSUME SequenceInv, NEW ready, Moving(ready), Single(ready), done = 0
  PROVE  RegisterTypes' /\ Rest' /\ FromTo(last, last')
<1> DEFINE kind == InDecode
           x == Going
           a == (Pair + Immediate(kind, r_instruction)) % 65536
<1>1. kind \in {"PUSH", "SB", "LB"} /\ Answered(ready) /\ r_instruction' = r_instruction
      /\ r_int_id' = r_int_id /\ taken' = taken /\ r_pc' = r_pc /\ gpr' = gpr /\ To(4)
  BY DEF Single
<1>2. cu.stage = 3 /\ cu.stage \in 3..5 /\ To(cu.stage + 1)
  <2>1. cu.stage \in 0..6
    BY Around, CuFields
  <2>2. cu.stage = 3
    BY <2>1 DEF done
  <2> QED  BY <1>1, <2>2
<1>3. /\ last' = last /\ Going' = Going /\ InDecode' = InDecode
      /\ IdleInv' /\ FetchInv' /\ EnterInv'
      /\ cu'.wfi = cu.wfi /\ cu'.wfi \in BOOLEAN /\ cu'.stage = cu.stage + 1
      /\ FromTo(last, last')
  BY <1>1, <1>2, GoesOn
<1>4. x = Mach(gpr, VC, 2 * r_pc, VM, cu.wfi)
  BY <1>2, AtStage3
<1>5. x.gpr = gpr /\ x.mem = VM
  BY <1>2, GoingParts
<1>6. RegisterTypes /\ s \in AByte
  BY Around, ByteOfGpr
<1>7. a \in Addresses
  BY <1>5, <1>6, PlaceIs DEF InDecode
<1>8. s' = s /\ Pair' = Pair
  BY <1>1 DEF s, Pair
<1>9. PullInv' /\ LinkInv'
  BY <1>1, <1>3, PullsIs DEF PullInv, LinkInv
<1>10. CASE kind = "PUSH"
  <2>1. PushByte(s, FALSE)
    <3>1. /\ request' = [req |-> TRUE, we |-> TRUE, lock |-> FALSE] /\ r_address' = Sp /\ r_data' = s
          /\ csr' = WithSp((Sp - 1) % 65536)
      BY <1>10 DEF Single, PushByte, Send
    <3> QED  BY <3>1 DEF PushByte, Send
  <2>2. /\ csr' \in Bytes /\ csr'[0] = csr[0] /\ r_address' \in Addresses /\ r_data' \in AByte
        /\ Mach(gpr, VC', 2 * r_pc, VM', cu.wfi) = Manual!Pushed(x, s)
    <3>1. /\ csr' \in Bytes /\ csr'[0] = csr[0] /\ r_address' \in Addresses /\ r_data' \in AByte
          /\ \A p, w, y : y = Mach(gpr, VC, p, VM, w) => Mach(gpr, VC', p, VM', w) = Manual!Pushed(y, s)
      <4>1. \E lock \in BOOLEAN : PushByte(s, lock)
        BY <2>1
      <4> QED  BY <1>6, <4>1, PushesByte
    <3> HIDE DEF x
    <3> QED  BY <1>4, <3>1
  <2>3. View' = Manual!Pushed(x, s)
    <3>1. View' = Mach(gpr, VC', 2 * r_pc, VM', cu.wfi)
      BY <1>1, <1>3, ViewNext
    <3> QED  BY <2>2, <3>1
  <2>4. SingleInv'
    BY <1>3, <1>8, <1>10, <2>3 DEF SingleInv
  <2>5. RegisterTypes'
    BY <1>1, <1>3, <2>2, Around, TypesKeep
  <2> QED  BY <1>3, <1>9, <2>4, <2>5 DEF Rest
<1>11. CASE kind = "SB"
  <2>1. Send(a, s, FALSE) /\ csr' = csr
    <3>1. /\ request' = [req |-> TRUE, we |-> TRUE, lock |-> FALSE] /\ r_address' = a /\ r_data' = s
          /\ csr' = csr
      BY <1>11 DEF Single, Send
    <3> QED  BY <3>1 DEF Send
  <2>2. VM' = Manual!Store(VM, a, s) /\ r_data' = s /\ r_address' = a
    <3> HIDE DEF a
    <3> QED  BY <2>1, Around, Sends
  <2>3. View' = [x EXCEPT !.mem = Manual!Store(@, a, s)]
    <3> DEFINE m == Manual!Store(VM, a, s)
    <3>1. View' = Mach(gpr, VC, 2 * r_pc, m, cu.wfi)
      BY <1>1, <1>3, <2>1, <2>2, ViewNext, VcStays
    <3>2. [x EXCEPT !.mem = Manual!Store(@, a, s)] = [x EXCEPT !.mem = m]
      <4> HIDE DEF a
      <4> QED  BY <1>5
    <3>3. [x EXCEPT !.mem = m] = Mach(gpr, VC, 2 * r_pc, m, cu.wfi)
      <4> HIDE DEF m
      <4> QED  BY <1>4, MachMem
    <3> QED  BY <3>1, <3>2, <3>3
  <2>4. SingleInv'
    BY <1>1, <1>3, <1>8, <1>11, <2>3 DEF SingleInv
  <2>5. RegisterTypes'
    <3> HIDE DEF a
    <3> QED  BY <1>1, <1>3, <1>6, <1>7, <2>1, <2>2, Around, TypesKeep
  <2> QED  BY <1>3, <1>9, <2>4, <2>5 DEF Rest
<1>12. CASE kind = "LB"
  <2>1. Ask(a, FALSE) /\ csr' = csr
    <3>1. /\ request' = [req |-> TRUE, we |-> FALSE, lock |-> FALSE] /\ r_address' = a /\ r_data' = r_data
          /\ csr' = csr
      BY <1>12 DEF Single, Ask
    <3> QED  BY <3>1 DEF Ask
  <2>2. VM' = VM /\ r_address' = a /\ ~Storing' /\ VM' = mem' /\ r_data' = r_data
    <3> HIDE DEF a
    <3> QED  BY <2>1, Around, AsksFor
  <2>3. View' = x
    <3>1. View' = Mach(gpr, VC, 2 * r_pc, VM, cu.wfi)
      BY <1>1, <1>3, <2>1, <2>2, ViewNext, VcStays
    <3> QED  BY <1>4, <3>1
  <2>4. SingleInv'
    BY <1>1, <1>3, <1>8, <1>12, <2>2, <2>3 DEF SingleInv, Reads
  <2>5. RegisterTypes'
    <3> HIDE DEF a
    <3> QED  BY <1>1, <1>3, <1>7, <2>1, <2>2, Around, TypesKeep
  <2> QED  BY <1>3, <1>9, <2>4, <2>5 DEF Rest
<1> QED  BY <1>1, <1>10, <1>11, <1>12

\* and end with the answer.
LEMMA SingleEnds ==
  ASSUME SequenceInv, NEW ready, Moving(ready), Single(ready), done # 0
  PROVE  RegisterTypes' /\ Rest' /\ FromTo(last, last')
<1> DEFINE kind == InDecode
           w == r_instruction
           x == Going
           a == (Pair + Immediate(kind, w)) % 65536
           g == x.gpr
           c == x.csr
           p == x.pc
           m == x.mem
           t == x.wait_for_interrupt
<1>1. kind \in {"PUSH", "SB", "LB"} /\ Answered(ready) /\ r_instruction' = r_instruction
      /\ r_int_id' = r_int_id /\ taken' = taken /\ r_pc' = r_pc /\ csr' = csr /\ To(0) /\ Silent
      /\ gpr' = IF kind = "LB" THEN [gpr EXCEPT ![dst(w)] = w_wb_data_o] ELSE gpr
  BY DEF Single
<1>2. cu.stage = 4 /\ cu.stage \in 3..6
  <2>1. cu.stage \in 0..6 /\ (cu.stage > 4 => kind \in {"RET", "RETI", "BL"})
    BY Around, CuFields DEF ControlInv
  <2>2. cu.stage >= 3 /\ cu.stage # 3
    BY <1>1, <2>1 DEF done, Answered
  <2> QED  BY <1>1, <2>1, <2>2
<1>3. RegisterTypes /\ SingleInv /\ s \in AByte /\ gpr \in Bytes /\ csr \in Bytes /\ csr[0] \in FlagBytes
      /\ r_pc \in WordAddresses
  BY Around, ByteOfGpr DEF SequenceInv
<1>4. x = Mach(g, c, p, m, t)
  BY <1>3, GoingIs
<1>5. View = Mach(gpr, VC, 2 * r_pc, VM, cu.wfi) /\ VC' = VC
  BY <1>1, ViewIs, VcStays
<1>6. ASSUME gpr' \in Bytes, Mach(gpr', VC, 2 * r_pc, VM, cu.wfi) \in After(x, w)
      PROVE  RegisterTypes' /\ Rest' /\ FromTo(last, last')
  BY <1>1, <1>2, <1>3, <1>5, <1>6, EndsNow
<1>7. CASE kind = "PUSH"
  <2>1. View = Manual!Pushed(x, s)
    BY <1>2, <1>3, <1>7 DEF SingleInv
  <2>2. gpr = g
    <3> DEFINE c2 == SpSet(c, (SpOf(c) - 1) % 65536)
               m2 == Manual!Store(m, SpOf(c), s)
    <3>1. Manual!Pushed(x, s) = Mach(g, c2, p, m2, t)
      <4> HIDE DEF x, g, c, p, m, t
      <4> QED  BY <1>4, MachPushed
    <3> HIDE DEF c2, m2, g, p, t
    <3>2. Mach(gpr, VC, 2 * r_pc, VM, cu.wfi) = Mach(g, c2, p, m2, t)
      BY <1>5, <2>1, <3>1
    <3> QED  BY <3>2, MachSame
  <2>3. Source(x, w) = s
    BY <2>2 DEF Source, s
  <2>4. Manual!Pushed(x, Source(x, w)) \in After(x, w)
    BY <1>7, AfterPush DEF InDecode
  <2>5. gpr' = gpr
    BY <1>1, <1>7
  <2> QED  BY <1>3, <1>5, <1>6, <2>1, <2>3, <2>4, <2>5
<1>8. CASE kind = "SB"
  <2> DEFINE v == Manual!Store(m, a, s)
  <2>1. View = [x EXCEPT !.mem = v]
    BY <1>2, <1>3, <1>8 DEF SingleInv
  <2>2. gpr = g
    <3>1. [x EXCEPT !.mem = v] = Mach(g, c, p, v, t)
      <4> HIDE DEF x, g, c, p, m, t, v
      <4> QED  BY <1>4, MachMem
    <3> HIDE DEF v, g, c, p, t
    <3>2. Mach(gpr, VC, 2 * r_pc, VM, cu.wfi) = Mach(g, c, p, v, t)
      BY <1>5, <2>1, <3>1
    <3> QED  BY <3>2, MachSame
  <2>3. Source(x, w) = s /\ Place(x, w) = a
    BY <1>3, <2>2, PlaceIs DEF InDecode
  <2>4. [x EXCEPT !.mem = Manual!Store(m, Place(x, w), Source(x, w))] \in After(x, w)
    BY <1>8, AfterSb DEF InDecode
  <2>5. gpr' = gpr
    BY <1>1, <1>8
  <2> HIDE DEF a
  <2> QED  BY <1>3, <1>5, <1>6, <2>1, <2>3, <2>4, <2>5
<1>9. CASE kind = "LB"
  <2>1. View = x /\ Reads(a)
    BY <1>2, <1>3, <1>9 DEF SingleInv
  <2>0. x = Mach(gpr, VC, 2 * r_pc, VM, cu.wfi)
    BY <1>5, <2>1
  <2>2. x.gpr = gpr /\ x.mem = VM
    BY <2>0, MachFields
  <2> DEFINE b == w_wb_data_o
             d == dst(w)
  <2>3. b = Manual!Load(VM, a) /\ b \in AByte
    <3> HIDE DEF a
    <3> QED  BY <2>1, ByteComes
  <2>4. Place(x, w) = a
    BY <1>3, <2>2, PlaceIs DEF InDecode
  <2>5. [x EXCEPT !.gpr[d] = b] \in After(x, w)
    <3>1. [x EXCEPT !.gpr[d] = Manual!Load(x.mem, Place(x, w))] \in After(x, w)
      BY <1>9, AfterLb DEF InDecode
    <3> HIDE DEF a, b
    <3> QED  BY <2>2, <2>3, <2>4, <3>1
  <2>6. gpr' = [gpr EXCEPT ![d] = b]
    BY <1>1, <1>9
  <2> HIDE DEF b, d
  <2>7. gpr' \in Bytes
    <3>1. b \in AByte /\ gpr \in Bytes
      BY <1>3, <2>3
    <3> QED  BY <2>6, <3>1 DEF Bytes
  <2>8. [x EXCEPT !.gpr[d] = b] = Mach([gpr EXCEPT ![d] = b], VC, 2 * r_pc, VM, cu.wfi)
    <3> DEFINE q == 2 * r_pc
               u == cu.wfi
               e == gpr
               f == VC
               h == VM
    <3>1. x = Mach(e, f, q, h, u)
      BY <2>0
    <3> HIDE DEF x, q, u, e, f, h
    <3>2. WithGpr(x, d, b) = Mach(Updated(e, d, b), f, q, h, u)
      BY <3>1, MachGprAt
    <3> QED  BY <3>2 DEF WithGpr, Updated, x, q, u, e, f, h
  <2> QED  BY <1>6, <2>5, <2>6, <2>7, <2>8
<1> QED  BY <1>1, <1>7, <1>8, <1>9

\* So they do what their words say.
LEMMA DoesSingle ==
  ASSUME SequenceInv, NEW ready, Moving(ready), Single(ready)
  PROVE  RegisterTypes' /\ Rest' /\ FromTo(last, last')
BY SingleStarts, SingleEnds

-----------------------------------------------------------------------------
(* BL. *)

\* Where a branch to a pair of registers goes, though the pc has moved.
LEMMA TargetPair ==
  ASSUME RegisterTypes, ~Relative(r_instruction), NEW x, x.gpr = gpr
  PROVE  2 * Target = Goal(x, r_instruction) /\ Target \in WordAddresses
<1> DEFINE y == Mach(gpr, VC, 2 * r_pc, VM, FALSE)
<1>1. y.gpr = gpr /\ y.pc = 2 * r_pc
  BY DEF Mach
<1> HIDE DEF y
<1>2. 2 * Target = Goal(y, r_instruction) /\ Target \in WordAddresses
  BY <1>1, TargetIs
<1>3. PairAt(y, r_instruction) = PairAt(x, r_instruction)
  <2>1. gpr \in Bytes /\ r_instruction \in Addresses
    BY DEF RegisterTypes
  <2> QED  BY <1>1, <2>1, PairOf
<1>4. Goal(x, r_instruction) = Even(PairAt(x, r_instruction)) /\ Goal(y, r_instruction) = Even(PairAt(y, r_instruction))
  BY DEF Goal
<1> QED  BY <1>2, <1>3, <1>4

\* The two bytes of the pc.
LEMMA PcBytes ==
  ASSUME NEW p \in WordAddresses
  PROVE  /\ p \div 128 = (2 * p) \div 256 /\ p \div 128 \in AByte
         /\ (2 * p) % 256 \in AByte
<1>1. p \in Int /\ 0 <= p /\ p <= 32767
  BY WordAddressIs
<1>2. p \div 128 = (2 * p) \div 256
  BY <1>1
<1>3. p \div 128 \in AByte
  <2> DEFINE h == p \div 128
  <2>1. h <= 255
    BY <1>1
  <2>2. h \in Int /\ h >= 0
    BY <1>1
  <2>3. h \in AByte
    <3> HIDE DEF h
    <3> QED  BY <2>1, <2>2, InBytes
  <2> QED  BY <2>3
<1>4. (2 * p) % 256 \in AByte
  <2> DEFINE l == (2 * p) % 256
  <2>1. l \in Int /\ l >= 0 /\ l <= 255
    BY <1>1
  <2> HIDE DEF l
  <2>2. l \in AByte
    BY <2>1, InBytes
  <2> QED  BY <2>2 DEF l
<1> QED  BY <1>2, <1>3, <1>4

\* BL pushes the upper byte of the pc, if it jumps.
LEMMA LinkStarts ==
  ASSUME SequenceInv, NEW ready, Moving(ready), Link(ready), cu.stage = 3
  PROVE  RegisterTypes' /\ Rest' /\ FromTo(last, last')
<1> DEFINE w == r_instruction
           x == Going
<1>1. InDecode = "BL" /\ r_instruction' = r_instruction /\ done = 0
      /\ r_int_id' = r_int_id /\ taken' = taken /\ r_pc' = r_pc /\ gpr' = gpr
  BY DEF Link, done
<1>2. RegisterTypes /\ r_pc \in WordAddresses /\ gpr \in Bytes /\ csr \in Bytes /\ csr[0] \in FlagBytes /\ w \in Addresses
  BY Around
<1>3. x = Mach(gpr, VC, 2 * r_pc, VM, cu.wfi)
  BY AtStage3
<1>4. x.csr[0] = Shown /\ x.pc = 2 * r_pc
  BY <1>2, GoingParts, VcIs
<1>5. Condition(w, x.csr[0]) <=> w_cond
  BY <1>2, <1>4, ConditionShown DEF w_cond
<1>6. CASE w_cond
  <2>1. (\E lock \in BOOLEAN : PushByte(Upper, lock)) /\ To(cu.stage + 1)
    <3>1. /\ request' = [req |-> TRUE, we |-> TRUE, lock |-> TRUE] /\ r_address' = Sp /\ r_data' = Upper
          /\ csr' = WithSp((Sp - 1) % 65536) /\ cu' = [cu EXCEPT !.stage = 4]
      BY <1>1, <1>6 DEF Link, PushByte, Send, To
    <3>2. PushByte(Upper, TRUE)
      BY <3>1 DEF PushByte, Send
    <3>3. To(cu.stage + 1)
      BY <3>1 DEF To
    <3> QED  BY <3>2, <3>3
  <2>2. /\ last' = last /\ Going' = Going /\ InDecode' = InDecode
        /\ IdleInv' /\ FetchInv' /\ EnterInv'
        /\ cu'.wfi = cu.wfi /\ cu'.wfi \in BOOLEAN /\ cu'.stage = cu.stage + 1
        /\ FromTo(last, last')
    BY <1>1, <2>1, GoesOn
  <2>3. Upper = x.pc \div 256 /\ Upper \in AByte
    BY <1>2, <1>4, PcBytes DEF Upper
  <2>4. /\ csr' \in Bytes /\ csr'[0] = csr[0] /\ r_address' \in Addresses /\ r_data' \in AByte
        /\ Mach(gpr, VC', 2 * r_pc, VM', cu.wfi) = Manual!Pushed(x, Upper)
    <3>1. /\ csr' \in Bytes /\ csr'[0] = csr[0] /\ r_address' \in Addresses /\ r_data' \in AByte
          /\ \A p, t, y : y = Mach(gpr, VC, p, VM, t) => Mach(gpr, VC', p, VM', t) = Manual!Pushed(y, Upper)
      BY <2>1, <2>3, PushesByte
    <3> HIDE DEF x
    <3> QED  BY <1>3, <3>1
  <2>5. View' = Manual!Pushed(x, x.pc \div 256)
    <3>1. View' = Mach(gpr, VC', 2 * r_pc, VM', cu.wfi)
      BY <1>1, <2>2, ViewNext
    <3> QED  BY <2>3, <2>4, <3>1
  <2>6. w_cond'
    BY <1>1, <1>6, <2>4 DEF w_cond
  <2>7. LinkInv' /\ PullInv' /\ SingleInv'
    BY <1>1, <2>2, <2>5, <2>6, PullsIs DEF LinkInv, PullInv, SingleInv
  <2>8. RegisterTypes'
    BY <1>1, <2>2, <2>4, Around, TypesKeep
  <2> QED  BY <2>2, <2>7, <2>8 DEF Rest
<1>7. CASE ~w_cond
  <2>1. /\ request' = NoRequest /\ r_address' = r_address /\ r_data' = r_data /\ csr' = csr
        /\ cu' = [cu EXCEPT !.stage = IF Relative(w) THEN 0 ELSE 4]
    BY <1>1, <1>7 DEF Link, Silent, To
  <2>2. Silent
    BY <2>1 DEF Silent
  <2>3. CASE Relative(w)
    <3>1. To(0)
      BY <2>1, <2>3 DEF To
    <3>2. Mach(gpr', VC', 2 * r_pc', VM, cu.wfi) \in After(Going, w)
      <4>1. (IF Condition(w, x.csr[0]) THEN [Linked(x) EXCEPT !.pc = Goal(x, w)] ELSE x) \in After(x, w)
        BY <1>1, AfterBl DEF InDecode
      <4>2. VC' = VC
        BY <2>1, VcStays
      <4> QED  BY <1>1, <1>3, <1>5, <1>7, <4>1, <4>2
    <3> QED  BY <1>1, <1>2, <2>1, <2>2, <3>1, <3>2, EndsAtOnce
  <2>4. CASE ~Relative(w)
    <3>1. To(cu.stage + 1)
      BY <2>1, <2>4 DEF To
    <3>2. /\ last' = last /\ Going' = Going /\ InDecode' = InDecode
          /\ IdleInv' /\ FetchInv' /\ EnterInv'
          /\ cu'.wfi = cu.wfi /\ cu'.wfi \in BOOLEAN /\ cu'.stage = cu.stage + 1
          /\ FromTo(last, last')
      BY <1>1, <3>1, GoesOn
    <3>3. ~w_cond' /\ ~request'.req /\ ~bus'.stb
      BY <1>1, <1>7, <2>1, Around DEF w_cond, NoRequest
    <3>4. LinkInv' /\ PullInv' /\ SingleInv'
      BY <1>1, <3>2, <3>3, PullsIs DEF LinkInv, PullInv, SingleInv
    <3>5. RegisterTypes'
      BY <1>1, <2>1, <3>2, Around, TypesKeep
    <3> QED  BY <3>2, <3>4, <3>5 DEF Rest
  <2> QED  BY <2>3, <2>4
<1> QED  BY <1>6, <1>7

\* A push changes the memory and the stack pointer.
LEMMA PushedIs ==
  ASSUME NEW g, NEW c \in Bytes, NEW p, NEW m, NEW t, NEW x, x = Mach(g, c, p, m, t), NEW b
  PROVE  /\ Manual!Pushed(x, b) = Mach(g, Manual!Pushed(x, b).csr, p, Manual!Pushed(x, b).mem, t)
         /\ Manual!Pushed(x, b).csr \in Bytes /\ Manual!Pushed(x, b).csr[0] = c[0]
<1> DEFINE a == (SpOf(c) - 1) % 65536
           m2 == Manual!Store(m, SpOf(c), b)
           y == Manual!Pushed(x, b)
<1>1. y = Mach(g, SpSet(c, a), p, m2, t)
  BY MachPushed
<1>2. a \in Addresses
  <2> DEFINE z == SpOf(c)
  <2>1. z \in Addresses
    BY SpSetSame
  <2>2. (z - 1) % 65536 \in Addresses
    <3> HIDE DEF z
    <3> QED  BY <2>1, Neighbours
  <2> QED  BY <2>2
<1> HIDE DEF a, m2, y
<1>3. SpSet(c, a) \in Bytes /\ SpSet(c, a)[0] = c[0]
  BY <1>2, SpSetIs
<1>4. y.csr = SpSet(c, a) /\ y.mem = m2
  BY <1>1, MachFields
<1> QED  BY <1>1, <1>3, <1>4 DEF y

\* It pushes the lower byte; to a pair of registers it jumps already.
LEMMA LinkGoesOn ==
  ASSUME SequenceInv, NEW ready, Moving(ready), Link(ready), cu.stage = 4
  PROVE  RegisterTypes' /\ Rest' /\ FromTo(last, last')
<1> DEFINE w == r_instruction
           x == Going
           y == Manual!Pushed(x, x.pc \div 256)
           q == IF Relative(w) THEN 2 * r_pc ELSE 2 * Target
<1>1. InDecode = "BL" /\ r_instruction' = r_instruction /\ done = 1
      /\ r_int_id' = r_int_id /\ taken' = taken /\ gpr' = gpr
      /\ r_pc' = IF Relative(w) THEN r_pc ELSE Target
  BY DEF Link, done
<1>2. RegisterTypes /\ r_pc \in WordAddresses /\ gpr \in Bytes /\ csr \in Bytes /\ csr[0] \in FlagBytes /\ w \in Addresses
  BY Around
<1>3. w_cond /\ View = y
  <2>1. ready
    BY DEF Link, Answered
  <2>2. bus.stb
    BY <2>1 DEF Moving
  <2> QED  BY <1>1, <2>2 DEF SequenceInv, LinkInv
<1>4. (\E lock \in BOOLEAN : PushByte(Lower, lock)) /\ To(cu.stage + 1)
  <2>1. /\ request' = [req |-> TRUE, we |-> TRUE, lock |-> TRUE] /\ r_address' = Sp /\ r_data' = Lower
        /\ csr' = WithSp((Sp - 1) % 65536) /\ cu' = [cu EXCEPT !.stage = 5]
    BY <1>1 DEF Link, PushByte, Send, To
  <2>2. PushByte(Lower, TRUE)
    BY <2>1 DEF PushByte, Send
  <2>3. To(cu.stage + 1)
    BY <2>1 DEF To
  <2> QED  BY <2>2, <2>3
<1>5. /\ last' = last /\ Going' = Going /\ InDecode' = InDecode
      /\ IdleInv' /\ FetchInv' /\ EnterInv'
      /\ cu'.wfi = cu.wfi /\ cu'.wfi \in BOOLEAN /\ cu'.stage = cu.stage + 1
      /\ FromTo(last, last')
  BY <1>1, <1>4, GoesOn
<1>6. View = Mach(gpr, VC, 2 * r_pc, VM, cu.wfi)
  BY ViewIs
<1>7. x.pc = 2 * r_pc
  <2>1. x = Mach(x.gpr, x.csr, x.pc, x.mem, x.wait_for_interrupt) /\ x.csr \in Bytes
    BY <1>2, GoingIs
  <2>2. y = Mach(x.gpr, y.csr, x.pc, y.mem, x.wait_for_interrupt)
    <3> DEFINE b == x.pc \div 256
    <3> HIDE DEF b, x
    <3> QED  BY <2>1, PushedIs DEF b
  <2>3. y.pc = x.pc
    <3> HIDE DEF y
    <3> QED  BY <2>2, MachFields
  <2>4. View.pc = 2 * r_pc
    BY <1>6, MachFields
  <2> QED  BY <1>3, <2>3, <2>4
<1>8. Lower = x.pc % 256 /\ Lower \in AByte
  BY <1>2, <1>7, PcBytes DEF Lower
<1>9. /\ csr' \in Bytes /\ csr'[0] = csr[0] /\ r_address' \in Addresses /\ r_data' \in AByte
      /\ Mach(gpr, VC', 2 * r_pc, VM', cu.wfi) = Manual!Pushed(y, Lower)
  <2>1. /\ csr' \in Bytes /\ csr'[0] = csr[0] /\ r_address' \in Addresses /\ r_data' \in AByte
        /\ \A p, t, z : z = Mach(gpr, VC, p, VM, t) => Mach(gpr, VC', p, VM', t) = Manual!Pushed(z, Lower)
    BY <1>4, <1>8, PushesByte
  <2> HIDE DEF y
  <2> QED  BY <1>3, <1>6, <2>1
<1>10. q = 2 * r_pc' /\ r_pc' \in WordAddresses
  <2>1. CASE Relative(w)
    BY <1>1, <1>2, <2>1
  <2>2. CASE ~Relative(w)
    <3>1. [gpr |-> gpr].gpr = gpr
      OBVIOUS
    <3>2. Target \in WordAddresses
      BY <1>2, <2>2, <3>1, TargetPair
    <3> QED  BY <1>1, <2>2, <3>2
  <2> QED  BY <2>1, <2>2
<1>11. View' = [Manual!Pushed(y, x.pc % 256) EXCEPT !.pc = IF Relative(w) THEN @ ELSE 2 * Target]
  <2> DEFINE z == Manual!Pushed(y, Lower)
             p == 2 * r_pc
             p1 == 2 * r_pc'
             t == cu.wfi
             e == VC'
             m == VM'
  <2>1. View' = Mach(gpr, e, p1, m, t)
    BY <1>1, <1>5, ViewNext
  <2>2. z = Mach(gpr, e, p, m, t)
    BY <1>9
  <2>3. z.pc = p
    <3> HIDE DEF z, p, e, m, t
    <3> QED  BY <2>2, MachFields
  <2>4. [z EXCEPT !.pc = q] = Mach(gpr, e, q, m, t)
    <3> DEFINE h == gpr
    <3> HIDE DEF z, q, p, e, m, t, h
    <3>1. z = Mach(h, e, p, m, t)
      BY <2>2 DEF h
    <3>2. [z EXCEPT !.pc = q] = Mach(h, e, q, m, t)
      BY <3>1, MachPc
    <3> QED  BY <3>2 DEF h
  <2>5. [z EXCEPT !.pc = IF Relative(w) THEN @ ELSE 2 * Target] = [z EXCEPT !.pc = q]
    <3> HIDE DEF z
    <3> QED  BY <2>3
  <2> QED  BY <1>8, <1>10, <2>1, <2>4, <2>5
<1>12. w_cond' /\ (~Relative(w) => Target' = Target)
  <2>1. w_cond'
    BY <1>1, <1>3, <1>9 DEF w_cond
  <2>2. ~Relative(w) => Target' = Target
    BY <1>1 DEF Target, Pair
  <2> QED  BY <2>1, <2>2
<1>13. LinkInv'
  <2>1. View' = [Manual!Pushed(Manual!Pushed(x, x.pc \div 256), x.pc % 256)
                   EXCEPT !.pc = IF Relative(r_instruction') THEN @ ELSE 2 * Target']
    BY <1>1, <1>11, <1>12
  <2> QED  BY <1>5, <1>12, <2>1 DEF LinkInv
<1>14. PullInv' /\ SingleInv'
  BY <1>1, <1>5, PullsIs DEF PullInv, SingleInv
<1>15. RegisterTypes'
  BY <1>1, <1>5, <1>9, <1>10, Around, TypesKeep
<1> QED  BY <1>5, <1>13, <1>14, <1>15 DEF Rest

\* It ends at its target; a BL that is not taken has either ended or waits for
\* ever.
LEMMA LinkEnds ==
  ASSUME SequenceInv, NEW ready, Moving(ready), Link(ready), cu.stage = 5
  PROVE  RegisterTypes' /\ Rest' /\ FromTo(last, last')
<1> DEFINE w == r_instruction
           x == Going
           y == Manual!Pushed(x, x.pc \div 256)
           z == Manual!Pushed(y, x.pc % 256)
           q == IF Relative(w) THEN z.pc ELSE 2 * Target
<1>1. /\ InDecode = "BL" /\ r_instruction' = r_instruction /\ done = 2
      /\ r_int_id' = r_int_id /\ taken' = taken /\ gpr' = gpr /\ csr' = csr
      /\ r_pc' = IF Relative(w) THEN Target ELSE r_pc
      /\ To(0) /\ Silent
  <2>1. InDecode = "BL" /\ done = 2
    BY DEF Link, done
  <2>2. /\ request' = NoRequest /\ r_address' = r_address /\ r_data' = r_data /\ csr' = csr
        /\ cu' = [cu EXCEPT !.stage = 0]
    BY <2>1 DEF Link, Silent, To
  <2>3. To(0) /\ Silent
    BY <2>2 DEF To, Silent
  <2> QED  BY <2>1, <2>2, <2>3 DEF Link
<1>2. RegisterTypes /\ r_pc \in WordAddresses /\ gpr \in Bytes /\ csr \in Bytes /\ csr[0] \in FlagBytes /\ w \in Addresses
  BY Around
<1>3. w_cond /\ View = [z EXCEPT !.pc = q]
  BY <1>1 DEF SequenceInv, LinkInv
<1>4. View = Mach(gpr, VC, 2 * r_pc, VM, cu.wfi) /\ VC' = VC
  BY <1>1, ViewIs, VcStays
<1>5. x = Mach(x.gpr, x.csr, x.pc, x.mem, x.wait_for_interrupt) /\ x.csr \in Bytes
  BY <1>2, GoingIs
<1>6. /\ z = Mach(x.gpr, z.csr, x.pc, z.mem, x.wait_for_interrupt) /\ z.csr[0] = x.csr[0]
  <2> DEFINE b == x.pc \div 256
             d == x.pc % 256
             g == x.gpr
             p == x.pc
             t == x.wait_for_interrupt
             u == Manual!Pushed(x, b)
             v == Manual!Pushed(u, d)
  <2>1. u = Mach(g, u.csr, p, u.mem, t) /\ u.csr \in Bytes /\ u.csr[0] = x.csr[0]
    <3> HIDE DEF b, x
    <3> QED  BY <1>5, PushedIs
  <2>2. v = Mach(g, v.csr, p, v.mem, t) /\ v.csr[0] = u.csr[0]
    <3> HIDE DEF u, d, g, p, t
    <3> QED  BY <2>1, PushedIs
  <2> QED  BY <2>1, <2>2
<1>7. [z EXCEPT !.pc = q] = Mach(x.gpr, z.csr, q, z.mem, x.wait_for_interrupt)
  <2> DEFINE g == x.gpr
             p == x.pc
             t == x.wait_for_interrupt
             e == z.csr
             m == z.mem
  <2> HIDE DEF z, q, g, p, t, e, m
  <2>1. z = Mach(g, e, p, m, t)
    BY <1>6 DEF g, p, t, e, m
  <2>2. [z EXCEPT !.pc = q] = Mach(g, e, q, m, t)
    BY <2>1, MachPc
  <2> QED  BY <2>2 DEF g, t, e, m
<1>8. gpr = x.gpr /\ VC = z.csr /\ 2 * r_pc = q /\ VM = z.mem /\ cu.wfi = x.wait_for_interrupt /\ z.pc = x.pc
  <2>1. z.pc = x.pc
    <3> HIDE DEF z
    <3> QED  BY <1>6, MachFields
  <2> HIDE DEF z, q, x
  <2>2. Mach(gpr, VC, 2 * r_pc, VM, cu.wfi) = Mach(x.gpr, z.csr, q, z.mem, x.wait_for_interrupt)
    BY <1>3, <1>4, <1>7
  <2> QED  BY <2>1, <2>2, MachSame
<1>9. Condition(w, x.csr[0])
  <2>1. VC[0] = Shown
    BY <1>2, VcIs
  <2>2. x.csr[0] = Shown
    <3> HIDE DEF z
    <3> QED  BY <1>6, <1>8, <2>1
  <2> QED  BY <1>2, <1>3, <2>2, ConditionShown DEF w_cond
<1>10. 2 * r_pc' = Goal(x, w) /\ r_pc' \in WordAddresses
  <2>1. CASE Relative(w)
    <3>1. x.pc = 2 * r_pc /\ x.gpr = gpr
      <4> HIDE DEF z
      <4> QED  BY <1>8, <2>1
    <3>2. 2 * Target = Goal(x, w) /\ Target \in WordAddresses
      <4> HIDE DEF x
      <4> QED  BY <1>2, <3>1, TargetIs
    <3> QED  BY <1>1, <2>1, <3>2
  <2>2. CASE ~Relative(w)
    <3>1. 2 * Target = Goal(x, w)
      <4> HIDE DEF z, x
      <4> QED  BY <1>2, <1>8, <2>2, TargetPair
    <3>2. 2 * r_pc = 2 * Target
      BY <1>8, <2>2
    <3> QED  BY <1>1, <1>2, <2>2, <3>1, <3>2
  <2> QED  BY <2>1, <2>2
<1>11. Mach(gpr', VC', 2 * r_pc', VM, cu.wfi) \in After(x, w)
  <2> DEFINE l == Goal(x, w)
  <2>1. [z EXCEPT !.pc = l] \in After(x, w)
    <3>1. (IF Condition(w, x.csr[0]) THEN [Linked(x) EXCEPT !.pc = l] ELSE x) \in After(x, w)
      BY <1>1, AfterBl DEF InDecode
    <3>2. Linked(x) = z
      BY DEF Linked
    <3> QED  BY <1>9, <3>1, <3>2
  <2>2. [z EXCEPT !.pc = l] = Mach(x.gpr, z.csr, l, z.mem, x.wait_for_interrupt)
    <3> DEFINE g == x.gpr
               p == x.pc
               t == x.wait_for_interrupt
               e == z.csr
               m == z.mem
    <3> HIDE DEF z, l, g, p, t, e, m
    <3>1. z = Mach(g, e, p, m, t)
      BY <1>6 DEF g, p, t, e, m
    <3>2. [z EXCEPT !.pc = l] = Mach(g, e, l, m, t)
      BY <3>1, MachPc
    <3> QED  BY <3>2 DEF g, t, e, m
  <2>3. gpr' = x.gpr /\ VC' = z.csr /\ 2 * r_pc' = l /\ VM = z.mem /\ cu.wfi = x.wait_for_interrupt
    <3> HIDE DEF z, l
    <3> QED  BY <1>1, <1>4, <1>8, <1>10 DEF l
  <2> HIDE DEF z, l, x
  <2> QED  BY <2>1, <2>2, <2>3
<1> QED  BY <1>1, <1>2, <1>10, <1>11, EndsNow

\* So BL links and jumps, or goes on.
LEMMA DoesLink ==
  ASSUME SequenceInv, NEW ready, Moving(ready), Link(ready)
  PROVE  RegisterTypes' /\ Rest' /\ FromTo(last, last')
<1>1. cu.stage \in 0..6 /\ (cu.stage > 5 => InDecode = "RETI")
  BY Around, CuFields DEF ControlInv
<1>2. InDecode = "BL" /\ cu.stage >= 3
  BY <1>1 DEF Link, Answered
<1>3. cu.stage = 3 \/ cu.stage = 4 \/ cu.stage = 5
  BY <1>1, <1>2
<1> QED  BY <1>3, LinkStarts, LinkGoesOn, LinkEnds

-----------------------------------------------------------------------------
(* Interrupt entry. *)

MachOn(g, c, p, m) == Mach(g, c, p, m, FALSE)
\* A machine that wakes up on its way into a handler.
LEMMA MachAwake ==
  ASSUME NEW g, NEW c, NEW p, NEW m, NEW w, NEW x, x = Mach(g, c, p, m, w), NEW n, NEW b
  PROVE  Awake(x, n, b) = MachOn(g, c, OnTheWay(p, n, b), m)
<1> DEFINE q == OnTheWay(p, n, b)
           z == [x EXCEPT !.wait_for_interrupt = FALSE]
           y == [z EXCEPT !.pc = q]
<1>1. z = Mach(g, c, p, m, FALSE)
  <2>1. z \in [gpr : {g}, csr : {c}, pc : {p}, mem : {m}, wait_for_interrupt : {FALSE},
               running : {TRUE}, debug_mode : {FALSE}]
    BY DEF Mach
  <2> HIDE DEF z
  <2> QED  BY <2>1 DEF Mach
<1>2. Awake(x, n, b) = [z EXCEPT !.pc = OnTheWay(@, n, b)]
  BY DEF Awake
<1>3. Awake(x, n, b) = y
  <2>1. z.pc = p
    BY <1>1 DEF Mach
  <2> HIDE DEF z
  <2> QED  BY <1>2, <2>1
<1>4. y = Mach(g, c, q, m, FALSE)
  <2>1. y \in [gpr : {g}, csr : {c}, pc : {q}, mem : {m}, wait_for_interrupt : {FALSE},
               running : {TRUE}, debug_mode : {FALSE}]
    <3> HIDE DEF z, q
    <3> QED  BY <1>1 DEF Mach
  <2> HIDE DEF y, q
  <2> QED  BY <2>1 DEF Mach
<1> QED  BY <1>3, <1>4 DEF MachOn

\* What an interrupt finds is a machine of the right type,
LEMMA FoundIs ==
  ASSUME RegisterTypes
  PROVE  /\ Found = Mach(Found.gpr, Found.csr, Found.pc, Found.mem, Found.wait_for_interrupt)
         /\ Found.gpr \in Bytes /\ Found.csr \in Bytes /\ Found.pc \in Addresses /\ Found.pc % 2 = 0
<1> DEFINE x == last.machine
<1>1. MachineTypes(x)
  BY DEF RegisterTypes
<1>2. /\ x = Mach(x.gpr, x.csr, x.pc, x.mem, x.wait_for_interrupt)
      /\ x.gpr \in Bytes /\ x.csr \in Bytes /\ x.pc \in Addresses /\ x.pc % 2 = 0
  BY <1>1, LastIs DEF MachineTypes
<1>3. CASE taken = last.taken
  <2>1. Found = Going
    BY <1>3 DEF Found
  <2> QED  BY <2>1, GoingIs
<1>4. CASE taken # last.taken
  <2>1. Found = x
    BY <1>4 DEF Found
  <2> QED  BY <1>2, <2>1
<1> QED  BY <1>3, <1>4

\* and stays one while its pc and its flags are saved.
LEMMA SavedAre ==
  ASSUME RegisterTypes
  PROVE  /\ \A n : Saving(n) = Mach(Found.gpr, Saving(n).csr, Found.pc, Saving(n).mem, Found.wait_for_interrupt)
         /\ Saved1.csr[0] = Found.csr[0] /\ Saved2.csr[0] = Found.csr[0]
         /\ LET x == Manual!Pushed(Saved2, Found.csr[0])
            IN  x = Mach(Found.gpr, x.csr, Found.pc, x.mem, Found.wait_for_interrupt)
<1> DEFINE f == Found
           g == f.gpr
           p == f.pc
           t == f.wait_for_interrupt
           b1 == p \div 256
           b2 == p % 256
           b3 == f.csr[0]
           u == Saved1
           v == Saved2
           w == Manual!Pushed(v, b3)
           z == Saved3
<1>1. f = Mach(g, f.csr, p, f.mem, t) /\ f.csr \in Bytes
  BY FoundIs
<1>2. u = Manual!Pushed(f, b1) /\ v = Manual!Pushed(u, b2) /\ z = [w EXCEPT !.csr[0] = Cleared]
  BY DEF Saved1, Saved2, Saved3
<1> HIDE DEF g, p, t, b1, b2, b3, f, u, v, w, z
<1>3. u = Mach(g, u.csr, p, u.mem, t) /\ u.csr \in Bytes /\ u.csr[0] = f.csr[0]
  <2> DEFINE c == f.csr
             m == f.mem
  <2>1. f = Mach(g, c, p, m, t) /\ c \in Bytes
    BY <1>1
  <2> HIDE DEF c, m
  <2>2. u = Mach(g, u.csr, p, u.mem, t) /\ u.csr \in Bytes /\ u.csr[0] = c[0]
    BY <1>2, <2>1, PushedIs
  <2> QED  BY <2>2 DEF c
<1>4. v = Mach(g, v.csr, p, v.mem, t) /\ v.csr \in Bytes /\ v.csr[0] = u.csr[0]
  <2> DEFINE c == u.csr
             m == u.mem
  <2>1. u = Mach(g, c, p, m, t) /\ c \in Bytes
    BY <1>3
  <2> HIDE DEF c, m
  <2>2. v = Mach(g, v.csr, p, v.mem, t) /\ v.csr \in Bytes /\ v.csr[0] = c[0]
    BY <1>2, <2>1, PushedIs
  <2> QED  BY <2>2 DEF c
<1>5. w = Mach(g, w.csr, p, w.mem, t)
  <2> DEFINE c == v.csr
             m == v.mem
  <2>1. v = Mach(g, c, p, m, t) /\ c \in Bytes
    BY <1>4
  <2> HIDE DEF c, m
  <2>2. Manual!Pushed(v, b3) = Mach(g, Manual!Pushed(v, b3).csr, p, Manual!Pushed(v, b3).mem, t)
    BY <2>1, PushedIs
  <2> QED  BY <2>2 DEF w
<1>6. z = Mach(g, z.csr, p, z.mem, t)
  <2> DEFINE c == w.csr
             m == w.mem
             e == [c EXCEPT ![0] = Cleared]
             k == Cleared
  <2>1. w = Mach(g, c, p, m, t)
    BY <1>5
  <2>2. z = [w EXCEPT !.csr[0] = k]
    BY <1>2
  <2> HIDE DEF c, m, k
  <2>3. z = Mach(g, [c EXCEPT ![0] = k], p, m, t)
    <3>1. WithCsr(w, 0, k) = Mach(g, Updated(c, 0, k), p, m, t)
      BY <2>1, MachCsrAt
    <3> QED  BY <2>2, <3>1 DEF WithCsr, Updated
  <2> HIDE DEF e
  <2>4. z.csr = [c EXCEPT ![0] = k] /\ z.mem = m
    BY <2>3, MachFields
  <2> QED  BY <2>3, <2>4
<1>7. ASSUME NEW n
      PROVE  Saving(n) = Mach(g, Saving(n).csr, p, Saving(n).mem, t)
  <2>1. Saving(n) = u \/ Saving(n) = v \/ Saving(n) = z
    BY DEF Saving, u, v, z
  <2> DEFINE y == Saving(n)
  <2>2. y = u \/ y = v \/ y = z
    BY <2>1
  <2> HIDE DEF y
  <2>3. y = Mach(g, y.csr, p, y.mem, t)
    BY <1>3, <1>4, <1>6, <2>2
  <2> QED  BY <2>3 DEF y
<1> QED  BY <1>3, <1>4, <1>5, <1>7 DEF g, p, t, u, v, w, b3, f

\* How far the entry of an interrupt is.
LEMMA Entering ==
  ASSUME SequenceInv, cu.int_stage > 0
  PROVE  /\ gpr = Found.gpr /\ VC = Saving(cu.int_stage).csr /\ VM = Saving(cu.int_stage).mem /\ cu.wfi = FALSE
         /\ 2 * r_pc = OnTheWay(Found.pc, cu.int_stage, VectorLow)
         /\ Saving(cu.int_stage) = Mach(gpr, VC, Found.pc, VM, Found.wait_for_interrupt)
<1> DEFINE n == cu.int_stage
           x == Saving(n)
           g == Found.gpr
           p == Found.pc
           t == Found.wait_for_interrupt
           c == x.csr
           m == x.mem
           b == VectorLow
           q == OnTheWay(p, n, b)
<1>1. x = Mach(g, c, p, m, t)
  BY SavedAre DEF SequenceInv
<1>2. View = Awake(x, n, b)
  BY DEF SequenceInv, EnterInv
<1>3. View = Mach(gpr, VC, 2 * r_pc, VM, cu.wfi)
  BY ViewIs
<1>4. Awake(x, n, b) = Mach(g, c, q, m, FALSE)
  <2>1. Awake(x, n, b) = MachOn(g, c, OnTheWay(p, n, b), m)
    <3> HIDE DEF n, x, g, p, t, c, m, b
    <3> QED  BY <1>1, MachAwake
  <2> QED  BY <2>1 DEF MachOn
<1>5. gpr = g /\ VC = c /\ 2 * r_pc = q /\ VM = m /\ cu.wfi = FALSE
  <2> HIDE DEF n, x, g, p, t, c, m, b, q
  <2>1. Mach(gpr, VC, 2 * r_pc, VM, cu.wfi) = Mach(g, c, q, m, FALSE)
    BY <1>2, <1>3, <1>4
  <2> QED  BY <2>1 DEF Mach
<1> QED  BY <1>1, <1>5

\* The clocks of an entry follow each other.
LEMMA EnterFields ==
  ASSUME ControlInv, NEW ready, EnterOn
  PROVE  /\ cu.int_stage \in 1..5 /\ cu.stage = 0 /\ cu'.stage = 0
         /\ cu.int_stage < 5 => cu'.int_stage = cu.int_stage + 1
         /\ cu.int_stage = 5 => cu'.int_stage = 0
         /\ cu'.internal = cu.internal /\ cu'.wfi = cu.wfi
<1>1. cu \in [stage : 0..6, int_stage : 0..5, internal : BOOLEAN, wfi : BOOLEAN] /\ cu.int_stage \in 1..5
      /\ cu.stage = 0
  BY DEF EnterOn, ControlInv
<1>2. cu' = [cu EXCEPT !.int_stage = (cu.int_stage + 1) % 6]
  BY DEF EnterOn
<1> QED  BY <1>1, <1>2

\* Vectors lie in memory.
LEMMA VectorIs ==
  ASSUME r_int_id \in Ids
  PROVE  Vector \in Addresses /\ Vector + 1 \in Addresses /\ Vector = 65280 + 2 * r_int_id
<1> DEFINE z == r_int_id
           v == Vector
<1>1. z \in 0..127 /\ v = 65280 + 2 * z
  BY DEF Ids, Vector
<1>2. z \in Int /\ z >= 0 /\ z <= 127
  BY <1>1
<1> HIDE DEF v, z
<1>3. v \in Int /\ v >= 0 /\ v + 1 >= 0 /\ v <= 65535 /\ v + 1 <= 65535 /\ v + 1 \in Int
  BY <1>1, <1>2
<1>4. v \in Addresses /\ v + 1 \in Addresses
  BY <1>3, InAddresses
<1> QED  BY <1>1, <1>4 DEF v, z

\* A clock of the entry that is not its last.
LEMMA EntersOn ==
  ASSUME SequenceInv, NEW ready, Moving(ready), EnterOn, cu.int_stage \in 1..4,
         csr' \in Bytes, csr'[0] \in FlagBytes, r_address' \in Addresses, r_data' \in AByte,
         r_pc' \in WordAddresses,
         Mach(gpr, VC', Found.pc, VM', Found.wait_for_interrupt) = Saving(cu.int_stage + 1),
         2 * r_pc' = OnTheWay(Found.pc, cu.int_stage + 1, VectorLow),
         cu.int_stage > 2 => r_address' = Vector + (cu.int_stage - 3) /\ ~Storing'
  PROVE  RegisterTypes' /\ Rest' /\ FromTo(last, last')
<1> DEFINE n == cu.int_stage
           x == Saving(n + 1)
           p == Found.pc
           t == Found.wait_for_interrupt
           b == VectorLow
<1>1. /\ cu.stage = 0 /\ cu'.stage = 0 /\ cu'.int_stage = n + 1 /\ n \in 1..4
      /\ cu'.internal = cu.internal /\ cu'.wfi = cu.wfi
  BY Around, EnterFields
<1>2. /\ r_instruction' = r_instruction /\ r_int_id' = r_int_id /\ gpr' = gpr /\ taken' = taken
  BY DEF EnterOn
<1>3. last' = last
  BY <1>1, Around DEF Boundary, Idle
<1>4. /\ ~cu.internal
      /\ IF taken = last.taken THEN ~last.machine.wait_for_interrupt /\ Named(r_int_id)
         ELSE taken = last.taken + 1 /\ r_int_id = DeviceId /\ last.machine.csr[0] >= 128
  BY <1>1 DEF SequenceInv, EnterInv
<1>5. cu.wfi = FALSE
  <2>1. cu.int_stage > 0
    BY <1>1
  <2> QED  BY <2>1, Entering
<1>6. /\ Found' = Found /\ Saved1' = Saved1 /\ Saved2' = Saved2 /\ Saved3' = Saved3
      /\ Vector' = Vector /\ VectorLow' = VectorLow /\ Going' = Going /\ Here' = Here
  <2>1. Going' = Going /\ Here' = Here
    BY <1>3 DEF Going, Here
  <2>2. Found' = Found
    BY <1>2, <1>3, <2>1 DEF Found
  <2>3. Saved1' = Saved1
    BY <2>2 DEF Saved1
  <2>4. Saved2' = Saved2
    BY <2>2, <2>3 DEF Saved2
  <2>5. Saved3' = Saved3
    BY <2>2, <2>4 DEF Saved3
  <2>6. Vector' = Vector
    BY <1>2 DEF Vector
  <2> QED  BY <2>1, <2>2, <2>3, <2>4, <2>5, <2>6 DEF VectorLow
<1>7. View' = Awake(x, n + 1, b)
  <2>1. View' = MachOn(gpr, VC', 2 * r_pc', VM')
    <3>1. View' = Mach(gpr, VC', 2 * r_pc', VM', cu'.wfi)
      BY <1>2, ViewNext
    <3> QED  BY <1>1, <1>5, <3>1 DEF MachOn
  <2>2. Awake(x, n + 1, b) = MachOn(gpr, VC', OnTheWay(p, n + 1, b), VM')
    <3> DEFINE g == gpr
               c == VC'
               m == VM'
               k == n + 1
    <3>1. x = Mach(g, c, p, m, t)
      OBVIOUS
    <3>2. Awake(x, k, b) = MachOn(g, c, OnTheWay(p, k, b), m)
      <4> HIDE DEF g, c, m, k, p, t, x, b
      <4> QED  BY <3>1, MachAwake
    <3> QED  BY <3>2
  <2> QED  BY <2>1, <2>2
<1>8. Saving(cu.int_stage)' = x
  BY <1>1, <1>6 DEF Saving
<1>9. EnterInv'
  <2>1. View' = Awake(Saving(cu.int_stage)', cu'.int_stage, VectorLow')
    BY <1>1, <1>6, <1>7, <1>8
  <2>2. cu'.int_stage > 3 => Reads(Vector + (cu.int_stage - 4))'
    <3> SUFFICES ASSUME cu'.int_stage > 3 PROVE r_address' = Vector' + (cu'.int_stage - 4) /\ ~Storing'
      BY DEF Reads
    <3>1. n > 2 /\ cu'.int_stage - 4 = n - 3
      BY <1>1
    <3> QED  BY <1>6, <3>1
  <2>3. IF taken' = last'.taken THEN ~last'.machine.wait_for_interrupt /\ Named(r_int_id)'
        ELSE taken' = last'.taken + 1 /\ r_int_id' = DeviceId /\ last'.machine.csr[0] >= 128
    BY <1>2, <1>3, <1>4, <1>6 DEF Named
  <2> QED  BY <1>1, <1>4, <2>1, <2>2, <2>3 DEF EnterInv
<1>10. IdleInv' /\ FetchInv' /\ PullInv' /\ SingleInv' /\ LinkInv'
  BY <1>1 DEF IdleInv, Idle, FetchInv, PullInv, SingleInv, LinkInv
<1>11. RegisterTypes'
  BY <1>1, <1>2, Around, TypesKeep
<1> QED  BY <1>3, <1>9, <1>10, <1>11 DEF Rest, FromTo

\* The second push: the lower byte of the pc.
LEMMA EnterLower ==
  ASSUME SequenceInv, NEW ready, Moving(ready), EnterOn, cu.int_stage = 1
  PROVE  RegisterTypes' /\ Rest' /\ FromTo(last, last')
<1> DEFINE x == Saved1
           p == Found.pc
           t == Found.wait_for_interrupt
           b == Lower
<1>1. x = Mach(gpr, VC, p, VM, t) /\ p = 2 * r_pc
  <2>1. x = Saving(cu.int_stage)
    BY DEF Saving
  <2>2. x = Mach(gpr, VC, p, VM, t) /\ 2 * r_pc = OnTheWay(p, cu.int_stage, VectorLow)
    <3>1. cu.int_stage > 0
      OBVIOUS
    <3> HIDE DEF x
    <3> QED  BY <2>1, <3>1, Entering
  <2> QED  BY <2>2 DEF OnTheWay
<1>2. b = p % 256 /\ b \in AByte
  BY <1>1, Around, PcBytes DEF Lower
<1>3. \E lock \in BOOLEAN : PushByte(b, lock)
  <2>1. /\ request' = [req |-> TRUE, we |-> TRUE, lock |-> TRUE] /\ r_address' = Sp /\ r_data' = Lower
        /\ csr' = WithSp((Sp - 1) % 65536)
    BY DEF EnterOn, PushByte, Send
  <2>2. PushByte(Lower, TRUE)
    BY <2>1 DEF PushByte, Send
  <2> QED  BY <2>2
<1>4. /\ csr' \in Bytes /\ csr'[0] = csr[0] /\ r_address' \in Addresses /\ r_data' \in AByte
      /\ Mach(gpr, VC', p, VM', t) = Manual!Pushed(x, b)
  <2>1. /\ csr' \in Bytes /\ csr'[0] = csr[0] /\ r_address' \in Addresses /\ r_data' \in AByte
        /\ \A q, u, y : y = Mach(gpr, VC, q, VM, u) => Mach(gpr, VC', q, VM', u) = Manual!Pushed(y, b)
    BY <1>2, <1>3, PushesByte
  <2> HIDE DEF x, p, t, b
  <2> QED  BY <1>1, <2>1
<1>5. Saving(cu.int_stage + 1) = Manual!Pushed(x, b)
  BY <1>2 DEF Saving, Saved2
<1>6. r_pc' = r_pc /\ 2 * r_pc' = OnTheWay(p, cu.int_stage + 1, VectorLow)
  BY <1>1 DEF EnterOn, OnTheWay
<1>7. r_pc' \in WordAddresses /\ csr'[0] \in FlagBytes
  BY <1>4, <1>6, Around
<1> HIDE DEF x, b
<1> QED  BY <1>4, <1>5, <1>6, <1>7, EntersOn

\* The third push: the flags, which are cleared with it.
LEMMA EnterFlags ==
  ASSUME SequenceInv, NEW ready, Moving(ready), EnterOn, cu.int_stage = 2
  PROVE  RegisterTypes' /\ Rest' /\ FromTo(last, last')
<1> DEFINE x == Saved2
           y == Manual!Pushed(x, Shown)
           p == Found.pc
           t == Found.wait_for_interrupt
           a == (Sp - 1) % 65536
<1>1. x = Mach(gpr, VC, p, VM, t) /\ p = 2 * r_pc
  <2>1. x = Saving(cu.int_stage)
    BY DEF Saving
  <2>2. x = Mach(gpr, VC, p, VM, t) /\ 2 * r_pc = OnTheWay(p, cu.int_stage, VectorLow)
    <3>1. cu.int_stage > 0
      OBVIOUS
    <3> HIDE DEF x
    <3> QED  BY <2>1, <3>1, Entering
  <2> QED  BY <2>2 DEF OnTheWay
<1>2. RegisterTypes /\ Shown \in AByte /\ VC[0] = Shown /\ SpOf(VC) = Sp /\ Sp \in Addresses /\ VC \in Bytes
  BY Around, VcIs
<1>3. a \in Addresses
  BY <1>2, Neighbours
<1>4. /\ request' = [req |-> TRUE, we |-> TRUE, lock |-> TRUE] /\ r_address' = Sp /\ r_data' = Shown
      /\ csr' = [WithSp(a) EXCEPT ![0] = 0] /\ r_pc' = r_pc
  BY DEF EnterOn, Send
<1>5. VM' = Manual!Store(VM, Sp, Shown) /\ r_data' = Shown /\ r_address' = Sp
  <2>1. mem' = VM /\ ~bus'.stb
    BY Around
  <2>2. request'.req /\ request'.we
    BY <1>4
  <2> QED  BY <1>4, <2>1, <2>2 DEF VM, Storing
<1>6. /\ csr' \in Bytes /\ csr'[0] = 0 /\ csr'[0] \in FlagBytes
      /\ VC' = [SpSet(VC, a) EXCEPT ![0] = Cleared]
  <2>1. WithSp(a) \in Bytes
    BY <1>2, <1>3, NewSp
  <2>2. csr' \in Bytes /\ csr'[0] = 0
    <3> DEFINE e == WithSp(a)
    <3>1. e \in Bytes /\ csr' = [e EXCEPT ![0] = 0]
      BY <1>4, <2>1
    <3> HIDE DEF e
    <3> QED  BY <3>1 DEF Bytes, AByte
  <2>3. 0 \in FlagBytes
    BY KeptIs DEF FlagBytes, AByte, Kept
  <2>4. VC' = [[WithSp(a) EXCEPT ![0] = 0] EXCEPT ![0] = 0 + Cleared]
    <3>1. Shown' = 0 + Cleared
      BY <2>2 DEF Shown, Cleared
    <3> HIDE DEF a
    <3> QED  BY <1>4, <3>1 DEF VC
  <2>5. [[WithSp(a) EXCEPT ![0] = 0] EXCEPT ![0] = 0 + Cleared] = [SpSet(VC, a) EXCEPT ![0] = 0 + Cleared]
    <3> HIDE DEF a
    <3> QED  BY <1>2, <1>3, NewSp
  <2>6. 0 + Cleared = Cleared
    BY MultiCycleAssumption DEF Cleared
  <2> HIDE DEF a
  <2> QED  BY <2>2, <2>3, <2>4, <2>5, <2>6
<1>7. [y EXCEPT !.csr[0] = Cleared] = Mach(gpr, VC', p, VM', t)
  <2> DEFINE g == gpr
             c == VC
             m == VM
             e == SpSet(c, a)
             m1 == VM'
             k == Cleared
             z == y
  <2>1. z = Mach(g, e, p, m1, t)
    <3>1. z = Mach(g, SpSet(c, (SpOf(c) - 1) % 65536), p, Manual!Store(m, SpOf(c), Shown), t)
      <4> DEFINE b == Shown
      <4> HIDE DEF x, g, c, m, b, p, t
      <4> QED  BY <1>1, MachPushed DEF g, c, m
    <3> QED  BY <1>2, <1>5, <3>1
  <2> HIDE DEF g, c, m, e, m1, k, z, p, t
  <2>2. Flagged(z, k) = Mach(g, FlagSet(e, k), p, m1, t)
    BY <2>1, MachFlags
  <2>3. FlagSet(e, k) = VC'
    BY <1>6 DEF FlagSet, e, c, k
  <2> QED  BY <2>2, <2>3 DEF Flagged, g, m1, k, z
<1>8. Shown = Found.csr[0]
  <2>1. x.csr = VC
    <3> HIDE DEF x, p, t
    <3> QED  BY <1>1, MachFields
  <2> QED  BY <1>2, <2>1, SavedAre
<1>9. Saving(cu.int_stage + 1) = Mach(gpr, VC', p, VM', t)
  <2>1. Saving(cu.int_stage + 1) = Saved3
    BY DEF Saving
  <2>2. Saved3 = [y EXCEPT !.csr[0] = Cleared]
    BY <1>8 DEF Saved3
  <2> QED  BY <1>7, <2>1, <2>2
<1>10. 2 * r_pc' = OnTheWay(p, cu.int_stage + 1, VectorLow)
  BY <1>1, <1>4 DEF OnTheWay
<1>11. r_pc' \in WordAddresses /\ r_address' \in Addresses /\ r_data' \in AByte
  BY <1>2, <1>4, <1>5, Around
<1> HIDE DEF x, y
<1> QED  BY <1>6, <1>9, <1>10, <1>11, EntersOn

\* The lower byte of the vector is asked for,
LEMMA EnterVector ==
  ASSUME SequenceInv, NEW ready, Moving(ready), EnterOn, cu.int_stage = 3
  PROVE  RegisterTypes' /\ Rest' /\ FromTo(last, last')
<1> DEFINE n == cu.int_stage
           p == Found.pc
           t == Found.wait_for_interrupt
<1>0. n > 0 /\ Saving(n) = Saved3 /\ Saving(n + 1) = Saved3
  BY DEF Saving
<1>1. Saved3 = Mach(gpr, VC, p, VM, t) /\ 2 * r_pc = OnTheWay(p, n, VectorLow)
  BY <1>0, Entering
<1>2. /\ request' = [req |-> TRUE, we |-> FALSE, lock |-> TRUE] /\ r_address' = Vector /\ r_data' = r_data
      /\ csr' = csr /\ r_pc' = r_pc
  BY DEF EnterOn, Ask
<1>3. VM' = VM /\ ~Storing'
  <2>1. mem' = VM /\ ~bus'.stb
    BY Around
  <2>2. ~request'.we
    BY <1>2
  <2> QED  BY <2>1, <2>2 DEF VM, Storing
<1>4. VC' = VC
  BY <1>2, VcStays
<1>5. Mach(gpr, VC', p, VM', t) = Saving(n + 1)
  BY <1>0, <1>1, <1>3, <1>4
<1>6. 2 * r_pc' = OnTheWay(p, n + 1, VectorLow)
  BY <1>1, <1>2 DEF OnTheWay
<1>7. /\ csr' \in Bytes /\ csr'[0] \in FlagBytes /\ r_address' \in Addresses /\ r_data' \in AByte
      /\ r_pc' \in WordAddresses
  BY <1>2, Around, VectorIs
<1>8. r_address' = Vector + (n - 3)
  <2>1. Vector + 0 = Vector
    <3>1. Vector \in Addresses
      BY Around, VectorIs
    <3> QED  BY <3>1, AddressIs
  <2> QED  BY <1>2, <2>1
<1> QED  BY <1>3, <1>5, <1>6, <1>7, <1>8, EntersOn

\* The byte that has come of the vector.
LEMMA VectorComes ==
  ASSUME SequenceInv, NEW ready, Moving(ready), cu.int_stage \in 4..5
  PROVE  /\ Saved3 = Mach(gpr, VC, Found.pc, VM, Found.wait_for_interrupt)
         /\ Saved3.csr = VC /\ Saved3.mem = VM /\ gpr = Found.gpr
         /\ 2 * r_pc = OnTheWay(Found.pc, cu.int_stage, VectorLow)
         /\ w_wb_data_o \in AByte /\ VectorLow \in AByte /\ Found.pc \in Addresses
         /\ w_wb_data_o = Manual!Load(Saved3.mem, Vector + (cu.int_stage - 4))
<1> DEFINE n == cu.int_stage
           a == Vector + (n - 4)
<1>0. n > 0 /\ Saving(n) = Saved3 /\ n > 3
  BY DEF Saving
<1>1. /\ Saved3 = Mach(gpr, VC, Found.pc, VM, Found.wait_for_interrupt)
      /\ Saved3.csr = VC /\ Saved3.mem = VM /\ gpr = Found.gpr
      /\ 2 * r_pc = OnTheWay(Found.pc, n, VectorLow)
  BY <1>0, Entering
<1>2. Reads(a)
  BY <1>0 DEF SequenceInv, EnterInv
<1>3. w_wb_data_o = Manual!Load(VM, a) /\ w_wb_data_o \in AByte
  <2> HIDE DEF a
  <2> QED  BY <1>2, ByteComes
<1>4. VectorLow \in AByte
  <2>1. Vector \in Addresses /\ BytesAt(VM)
    BY Around, VectorIs
  <2> QED  BY <1>1, <2>1, LoadByte DEF VectorLow
<1>5. Found.pc \in Addresses
  BY FoundIs DEF SequenceInv
<1> QED  BY <1>1, <1>3, <1>4, <1>5

\* comes, and the upper byte is asked for.
LEMMA EnterVectorLow ==
  ASSUME SequenceInv, NEW ready, Moving(ready), EnterOn, cu.int_stage = 4
  PROVE  RegisterTypes' /\ Rest' /\ FromTo(last, last')
<1> DEFINE n == cu.int_stage
           p == Found.pc
           t == Found.wait_for_interrupt
           b == w_wb_data_o
<1>0. n \in 4..5 /\ Saving(n + 1) = Saved3
  BY DEF Saving
<1>1. /\ Saved3 = Mach(gpr, VC, p, VM, t) /\ 2 * r_pc = OnTheWay(p, n, VectorLow)
      /\ b \in AByte /\ b = Manual!Load(Saved3.mem, Vector + (n - 4))
  BY <1>0, VectorComes
<1>2. /\ request' = [req |-> TRUE, we |-> FALSE, lock |-> TRUE] /\ r_address' = Vector + 1 /\ r_data' = r_data
      /\ csr' = csr /\ r_pc' = WithLower(b)
  BY DEF EnterOn, Ask
<1>3. VM' = VM /\ ~Storing'
  <2>1. mem' = VM /\ ~bus'.stb
    BY Around
  <2>2. ~request'.we
    BY <1>2
  <2> QED  BY <2>1, <2>2 DEF VM, Storing
<1>4. VC' = VC
  BY <1>2, VcStays
<1>5. Mach(gpr, VC', p, VM', t) = Saving(n + 1)
  BY <1>0, <1>1, <1>3, <1>4
<1>6. b = VectorLow
  <2>1. Vector + 0 = Vector
    <3>1. Vector \in Addresses
      BY Around, VectorIs
    <3> QED  BY <3>1, AddressIs
  <2>2. n - 4 = 0
    OBVIOUS
  <2> HIDE DEF n, b
  <2> QED  BY <1>1, <2>1, <2>2 DEF VectorLow
<1>7. 2 * r_pc' = OnTheWay(p, n + 1, VectorLow) /\ r_pc' \in WordAddresses
  <2>1. r_pc \in WordAddresses /\ 2 * r_pc = p
    BY <1>1, Around DEF OnTheWay
  <2>2. WithLower(b) \in WordAddresses /\ 2 * WithLower(b) = HalfPc(2 * r_pc, b)
    <3> HIDE DEF b
    <3> QED  BY <1>1, <2>1, LowerByte DEF WithLower
  <2>3. OnTheWay(p, n + 1, VectorLow) = HalfPc(p, VectorLow)
    BY DEF OnTheWay
  <2> QED  BY <1>2, <1>6, <2>1, <2>2, <2>3
<1>8. /\ csr' \in Bytes /\ csr'[0] \in FlagBytes /\ r_address' \in Addresses /\ r_data' \in AByte
  BY <1>2, Around, VectorIs
<1>9. r_address' = Vector + (n - 3)
  <2>1. n - 3 = 1
    OBVIOUS
  <2> HIDE DEF n
  <2> QED  BY <1>2, <2>1
<1> QED  BY <1>3, <1>5, <1>7, <1>8, <1>9, EntersOn

EnteredWith(x, q, k) == [x EXCEPT !.pc = q, !.csr[0] = k, !.wait_for_interrupt = FALSE]
\* A machine that has entered a handler.
LEMMA MachEntered ==
  ASSUME NEW g, NEW c, NEW p, NEW m, NEW w, NEW x, NEW q, NEW k, x = Mach(g, c, p, m, w)
  PROVE  EnteredWith(x, q, k) = MachOn(g, [c EXCEPT ![0] = k], q, m)
<1> DEFINE y == [x EXCEPT !.pc = q]
           e == [c EXCEPT ![0] = k]
           z == [y EXCEPT !.csr[0] = k]
           v == [z EXCEPT !.wait_for_interrupt = FALSE]
<1>1. y = Mach(g, c, q, m, w)
  BY MachPc
<1>2. z = Mach(g, e, q, m, w)
  <2> HIDE DEF y
  <2>1. Flagged(y, k) = Mach(g, FlagSet(c, k), q, m, w)
    BY <1>1, MachFlags
  <2> QED  BY <2>1 DEF Flagged, FlagSet
<1>3. v = Mach(g, e, q, m, FALSE)
  <2>1. v \in [gpr : {g}, csr : {e}, pc : {q}, mem : {m}, wait_for_interrupt : {FALSE},
               running : {TRUE}, debug_mode : {FALSE}]
    <3> HIDE DEF z, e
    <3> QED  BY <1>2 DEF Mach
  <2> HIDE DEF v, e
  <2> QED  BY <2>1 DEF Mach
<1>4. EnteredWith(x, q, k) = v
  BY DEF EnteredWith
<1> QED  BY <1>3, <1>4 DEF MachOn

\* The machine at the first instruction of the handler.
LEMMA EnteredIs ==
  ASSUME RegisterTypes, NEW id, NEW a, a = 65280 + 2 * id
  PROVE  Entered(Found, id, Cleared)
         = MachOn(Found.gpr, Saved3.csr,
                  Even(Manual!Pair(Manual!Load(Saved3.mem, a), Manual!Load(Saved3.mem, a + 1))), Saved3.mem)
<1> DEFINE x == Manual!Pushed(Saved2, Found.csr[0])
           g == Found.gpr
           c == x.csr
           p == Found.pc
           m == x.mem
           t == Found.wait_for_interrupt
           k == Cleared
           q == Even(Manual!Pair(Manual!Load(m, a), Manual!Load(m, a + 1)))
           e == [c EXCEPT ![0] = k]
<1>1. x = Mach(g, c, p, m, t)
  BY SavedAre
<1>2. Saved3.csr = e /\ Saved3.mem = m
  <2>1. Saved3 = [x EXCEPT !.csr[0] = k]
    BY DEF Saved3
  <2> DEFINE z == Saved3
  <2>2. z = Mach(g, e, p, m, t)
    <3>1. [x EXCEPT !.csr[0] = k] = Mach(g, e, p, m, t)
      <4> HIDE DEF x, g, c, p, m, t, k
      <4>1. Flagged(x, k) = Mach(g, FlagSet(c, k), p, m, t)
        BY <1>1, MachFlags
      <4> QED  BY <4>1 DEF Flagged, FlagSet
    <3> QED  BY <2>1, <3>1
  <2> HIDE DEF z, g, e, p, m, t
  <2> QED  BY <2>2, MachFields DEF z
<1>3. Entered(Found, id, Cleared) = EnteredWith(x, q, k)
  BY DEF EnteredWith, Entered, Saved2, Saved1, Even
<1>4. EnteredWith(x, q, k) = MachOn(g, [c EXCEPT ![0] = k], q, m)
  <2> HIDE DEF x, g, c, p, m, t, k, q
  <2> QED  BY <1>1, MachEntered
<1> QED  BY <1>2, <1>3, <1>4

\* The upper byte comes, and the handler is entered: isa.md's entry, and a
\* boundary.
LEMMA EnterEnds ==
  ASSUME SequenceInv, NEW ready, Moving(ready), EnterOn, cu.int_stage = 5
  PROVE  RegisterTypes' /\ Rest' /\ FromTo(last, last')
<1> DEFINE n == cu.int_stage
           p == Found.pc
           b == w_wb_data_o
           lo == VectorLow
           q == Even(Manual!Pair(lo, b))
<1>1. /\ Saved3.csr = VC /\ Saved3.mem = VM /\ gpr = Found.gpr
      /\ 2 * r_pc = HalfPc(p, lo) /\ b \in AByte /\ lo \in AByte /\ p \in Addresses
      /\ b = Manual!Load(Saved3.mem, Vector + 1)
  <2>1. n \in 4..5 /\ n - 4 = 1
    OBVIOUS
  <2>2. /\ Saved3.csr = VC /\ Saved3.mem = VM /\ gpr = Found.gpr
        /\ 2 * r_pc = OnTheWay(p, n, lo) /\ b \in AByte /\ lo \in AByte /\ p \in Addresses
        /\ b = Manual!Load(Saved3.mem, Vector + (n - 4))
    BY <2>1, VectorComes
  <2>3. OnTheWay(p, n, lo) = HalfPc(p, lo)
    BY DEF OnTheWay
  <2> HIDE DEF n, b, lo, p
  <2> QED  BY <2>1, <2>2, <2>3
<1>2. /\ Silent /\ csr' = csr /\ r_pc' = WithUpper(b)
      /\ r_instruction' = r_instruction /\ r_int_id' = r_int_id /\ gpr' = gpr /\ taken' = taken
  <2>1. request' = NoRequest /\ r_address' = r_address /\ r_data' = r_data
    BY DEF EnterOn, Silent
  <2>2. Silent
    BY <2>1 DEF Silent
  <2> QED  BY <2>2 DEF EnterOn
<1>3. cu'.stage = 0 /\ cu'.int_stage = 0 /\ ~cu.internal /\ ~cu'.internal /\ cu.wfi = FALSE /\ cu'.wfi = FALSE
  <2>1. cu'.stage = 0 /\ cu'.int_stage = 0 /\ cu'.internal = cu.internal /\ cu'.wfi = cu.wfi
    BY Around, EnterFields
  <2>2. ~cu.internal
    BY DEF SequenceInv, EnterInv
  <2>3. cu.wfi = FALSE
    <3>1. cu.int_stage > 0
      OBVIOUS
    <3> QED  BY <3>1, Entering
  <2> QED  BY <2>1, <2>2, <2>3
<1>4. VM' = VM /\ ~Storing' /\ VM' = mem' /\ r_address' = r_address /\ r_data' = r_data
  BY <1>2, Around, AsksNothing
<1>5. r_pc' \in WordAddresses /\ 2 * r_pc' = q
  <2>1. r_pc \in WordAddresses
    BY Around
  <2>2. WithUpper(b) \in WordAddresses /\ 2 * WithUpper(b) = Even(Manual!Pair(lo, b))
    <3> HIDE DEF b, lo, p
    <3> QED  BY <1>1, <2>1, UpperByte DEF WithUpper
  <2> QED  BY <1>2, <2>2
<1>6. View' = Entered(Found, r_int_id, Cleared)
  <2>1. View' = MachOn(gpr, VC, q, VM)
    <3>1. View' = Mach(gpr', VC', 2 * r_pc', VM', cu'.wfi) /\ VC' = VC
      BY <1>2, ViewNext, VcStays
    <3> QED  BY <1>2, <1>3, <1>4, <1>5, <3>1 DEF MachOn
  <2>2. Entered(Found, r_int_id, Cleared)
        = MachOn(Found.gpr, Saved3.csr,
                 Even(Manual!Pair(Manual!Load(Saved3.mem, Vector), Manual!Load(Saved3.mem, Vector + 1))), Saved3.mem)
    <3>1. RegisterTypes /\ Vector = 65280 + 2 * r_int_id
      BY Around, VectorIs
    <3> QED  BY <3>1, EnteredIs
  <2>3. lo = Manual!Load(Saved3.mem, Vector)
    BY DEF VectorLow
  <2> QED  BY <1>1, <2>1, <2>2, <2>3
<1>7. last' = [machine |-> View', taken |-> taken]
  <2>1. last' = Reached'
    BY <1>3, Around DEF Boundary, Idle
  <2>2. View' = Now'
    BY <1>4, ViewNext
  <2> QED  BY <1>2, <2>1, <2>2 DEF Reached
<1>8. Rest'
  <2>1. IdleInv'
    BY <1>2, <1>3, <1>7 DEF IdleInv, Idle
  <2>2. FetchInv' /\ PullInv' /\ SingleInv' /\ LinkInv' /\ EnterInv'
    BY <1>3 DEF FetchInv, PullInv, SingleInv, LinkInv, EnterInv
  <2> QED  BY <2>1, <2>2 DEF Rest
<1>9. RegisterTypes'
  <2>1. cu'.wfi \in BOOLEAN /\ csr' \in Bytes /\ csr'[0] \in FlagBytes
    BY <1>2, Around
  <2> QED  BY <1>2, <1>4, <1>5, <2>1, Around, TypesKeep
<1>10. FromTo(last, last')
  <2>1. CASE taken = last.taken
    <3>1. /\ ~last.machine.wait_for_interrupt /\ Named(r_int_id) /\ Found = Going
      BY <2>1 DEF SequenceInv, EnterInv, Found
    <3>2. r_int_id \in 0..127 /\ RegisterTypes
      BY Around DEF Ids
    <3>3. Entered(Going, r_int_id, Cleared) \in After(Going, Here)
      <4>1. CASE Kind(Here) = "ILLEGAL"
        BY <3>2, <4>1, AfterIllegal
      <4>2. CASE Kind(Here) = "SWI" /\ r_int_id = last.machine.gpr[src(Here)] % 128
        <5>1. Going.gpr = last.machine.gpr
          BY <3>2, GoingIs
        <5>2. r_int_id = Source(Going, Here) % 128
          BY <4>2, <5>1 DEF Source
        <5>3. Entered(Going, Source(Going, Here) % 128, Cleared) \in After(Going, Here)
          BY <4>2, AfterSwi
        <5> QED  BY <5>2, <5>3
      <4> QED  BY <3>1, <4>1, <4>2 DEF Named
    <3>4. last'.machine \in After(Past(last.machine), WordAt(last.machine)) /\ last'.taken = last.taken
      BY <1>6, <1>7, <2>1, <3>1, <3>3 DEF Going, Here
    <3> QED  BY <3>1, <3>4 DEF FromTo
  <2>2. CASE taken # last.taken
    <3>1. taken = last.taken + 1 /\ r_int_id = DeviceId /\ last.machine.csr[0] >= 128 /\ Found = last.machine
      BY <2>2 DEF SequenceInv, EnterInv, Found
    <3>2. last.taken < raised
      <4>1. taken \in Nat /\ raised \in Nat /\ taken <= raised
        BY DEF SequenceInv, RequestInv
      <4>2. last.taken \in Nat
        BY Around DEF RegisterTypes
      <4> QED  BY <3>1, <4>1, <4>2
    <3>3. last'.machine = Entered(last.machine, DeviceId, Cleared) /\ last'.taken = last.taken + 1
      BY <1>6, <1>7, <3>1
    <3> QED  BY <3>1, <3>2, <3>3 DEF FromTo
  <2> QED  BY <2>1, <2>2
<1> QED  BY <1>8, <1>9, <1>10

\* Every clock of an entry brings it on.
LEMMA DoesEnterOn ==
  ASSUME SequenceInv, NEW ready, Moving(ready), EnterOn
  PROVE  RegisterTypes' /\ Rest' /\ FromTo(last, last')
<1>1. cu.int_stage \in 1..5
  BY Around, EnterFields
<1>2. cu.int_stage = 1 \/ cu.int_stage = 2 \/ cu.int_stage = 3 \/ cu.int_stage = 4 \/ cu.int_stage = 5
  BY <1>1
<1> QED  BY <1>2, EnterLower, EnterFlags, EnterVector, EnterVectorLow, EnterEnds

\* An entry begins,
LEMMA EnterBegins ==
  ASSUME ControlInv, Enter
  PROVE  cu'.stage = 0 /\ cu'.int_stage = 1 /\ ~cu'.internal /\ cu'.wfi = FALSE
<1>1. cu \in [stage : 0..6, int_stage : 0..5, internal : BOOLEAN, wfi : BOOLEAN] /\ cu.stage = 0
  BY DEF Enter, ControlInv, Idle
<1>2. cu' = [cu EXCEPT !.int_stage = 1, !.wfi = FALSE, !.internal = FALSE]
  BY DEF Enter
<1> QED  BY <1>1, <1>2

\* with the first push, between two instructions or behind a software
\* interrupt.
LEMMA DoesEnter ==
  ASSUME SequenceInv, NEW ready, Moving(ready), Enter
  PROVE  RegisterTypes' /\ Rest' /\ FromTo(last, last')
<1> DEFINE x == View
           p == 2 * r_pc
           b == Upper
<1>0. Idle /\ IdleInv /\ RequestInv /\ w_interrupt
  BY DEF SequenceInv, Enter
<1>1. cu'.stage = 0 /\ cu'.int_stage = 1 /\ ~cu'.internal /\ cu'.wfi = FALSE
  BY Around, EnterBegins
<1>2. /\ r_pc' = r_pc /\ r_instruction' = r_instruction /\ gpr' = gpr
      /\ r_int_id' = IF cu.internal THEN r_int_id ELSE DeviceId
      /\ taken' = taken + (IF cu.internal THEN 0 ELSE 1)
  BY DEF Enter
<1>3. last' = last /\ taken \in Nat
  BY <1>1, Around DEF Boundary, Idle
<1>4. x = Mach(gpr, VC, p, VM, cu.wfi) /\ x.pc = p /\ x.csr = VC
  BY ViewIs, MachFields
<1>5. b = p \div 256 /\ b \in AByte
  BY Around, PcBytes DEF Upper
<1>6. /\ csr' \in Bytes /\ csr'[0] = csr[0] /\ r_address' \in Addresses /\ r_data' \in AByte
      /\ Mach(gpr, VC', p, VM', cu.wfi) = Manual!Pushed(x, b)
  <2>1. \E lock \in BOOLEAN : PushByte(b, lock)
    <3>1. /\ request' = [req |-> TRUE, we |-> TRUE, lock |-> TRUE] /\ r_address' = Sp /\ r_data' = Upper
          /\ csr' = WithSp((Sp - 1) % 65536)
      BY DEF Enter, PushByte, Send
    <3>2. PushByte(Upper, TRUE)
      BY <3>1 DEF PushByte, Send
    <3> QED  BY <3>2
  <2>2. /\ csr' \in Bytes /\ csr'[0] = csr[0] /\ r_address' \in Addresses /\ r_data' \in AByte
        /\ \A q, u, y : y = Mach(gpr, VC, q, VM, u) => Mach(gpr, VC', q, VM', u) = Manual!Pushed(y, b)
    BY <1>5, <2>1, PushesByte
  <2> HIDE DEF x, p, b
  <2> QED  BY <1>4, <2>2
<1>7. /\ Found' = x
      /\ IF taken' = last'.taken THEN ~last'.machine.wait_for_interrupt /\ Named(r_int_id)'
         ELSE taken' = last'.taken + 1 /\ r_int_id' = DeviceId /\ last'.machine.csr[0] >= 128
      /\ taken' \in Nat /\ r_int_id' \in Ids
  <2>1. CASE cu.internal
    <3>1. View = Going /\ ~last.machine.wait_for_interrupt /\ last.taken = taken /\ Named(r_int_id)
      BY <1>0, <2>1 DEF IdleInv
    <3>2. taken' = taken /\ r_int_id' = r_int_id
      BY <1>2, <1>3, <2>1
    <3>3. Going' = Going /\ Here' = Here
      BY <1>3 DEF Going, Here
    <3> QED  BY <1>3, <3>1, <3>2, <3>3, Around DEF Found, Named
  <2>2. CASE ~cu.internal
    <3>1. last.machine = View /\ last.taken = taken
      BY <1>0, <2>2 DEF IdleInv
    <3>2. taken' = taken + 1 /\ r_int_id' = DeviceId /\ taken' # last'.taken /\ taken' \in Nat
      BY <1>2, <1>3, <2>2, <3>1
    <3>3. csr[0] >= 128
      BY <1>0, <2>2 DEF w_interrupt
    <3>4. last.machine.csr[0] >= 128
      <4>1. last.machine.csr[0] = csr[0] + 16 * Reserved
        BY <1>4, <3>1, Around, VcIs DEF Shown
      <4>2. Reserved \in Nat /\ csr[0] \in AByte
        BY MultiCycleAssumption, Around DEF Bytes
      <4>3. csr[0] \in Int
        BY <4>2 DEF AByte
      <4> QED  BY <3>3, <4>1, <4>2, <4>3
    <3>5. DeviceId \in Ids
      BY MultiCycleAssumption DEF Ids
    <3> QED  BY <1>3, <3>1, <3>2, <3>4, <3>5 DEF Found
  <2> QED  BY <2>1, <2>2
<1>8. EnterInv'
  <2>1. Saving(cu.int_stage)' = Manual!Pushed(x, b)
    <3>1. Saved1' = Manual!Pushed(Found', Found'.pc \div 256)
      BY DEF Saved1
    <3>2. Saving(cu.int_stage)' = Saved1'
      BY <1>1 DEF Saving
    <3> HIDE DEF x
    <3> QED  BY <1>4, <1>5, <1>7, <3>1, <3>2
  <2>2. View' = MachOn(gpr, VC', p, VM')
    <3>1. View' = Mach(gpr', VC', 2 * r_pc', VM', cu'.wfi)
      BY ViewNext
    <3> QED  BY <1>1, <1>2, <3>1 DEF MachOn
  <2>3. Awake(Manual!Pushed(x, b), 1, VectorLow') = MachOn(gpr, VC', p, VM')
    <3> DEFINE y == Manual!Pushed(x, b)
               g == gpr
               c == VC'
               m == VM'
               k == 1
               t == cu.wfi
               v == VectorLow'
    <3>1. y = Mach(g, c, p, m, t)
      BY <1>6
    <3>2. Awake(y, k, v) = MachOn(g, c, OnTheWay(p, k, v), m)
      <4> HIDE DEF y, g, c, m, k, t, v, p
      <4> QED  BY <3>1, MachAwake
    <3>3. OnTheWay(p, k, v) = p
      BY DEF OnTheWay
    <3> QED  BY <3>2, <3>3
  <2>4. View' = Awake(Saving(cu.int_stage)', cu'.int_stage, VectorLow')
    BY <1>1, <2>1, <2>2, <2>3
  <2>5. ~(cu'.int_stage > 3)
    BY <1>1
  <2> QED  BY <1>1, <1>7, <2>4, <2>5 DEF EnterInv
<1>9. IdleInv' /\ FetchInv' /\ PullInv' /\ SingleInv' /\ LinkInv'
  BY <1>1 DEF IdleInv, Idle, FetchInv, PullInv, SingleInv, LinkInv
<1>10. RegisterTypes'
  <2>1. cu'.wfi \in BOOLEAN
    BY <1>1
  <2>2. csr'[0] \in FlagBytes /\ r_pc' \in WordAddresses /\ r_instruction' \in Addresses /\ gpr' \in Bytes
    BY <1>2, <1>6, Around
  <2> QED  BY <1>6, <1>7, <2>1, <2>2, Around, TypesKeep
<1> QED  BY <1>3, <1>8, <1>9, <1>10 DEF Rest, FromTo

-----------------------------------------------------------------------------
(* A clock that waits, a device that asks, and a step of neither. *)

\* Where registers stay and no store begins or ends, all stays as it was.
LEMMA NothingDone ==
  ASSUME SequenceInv, UNCHANGED registers, UNCHANGED <<r_address, r_data, last>>, View' = View,
         Storing' <=> Storing, BytesAt(mem'), ~request.req /\ ~bus.stb => ~request'.req /\ ~bus'.stb
  PROVE  RegisterTypes' /\ Rest' /\ FromTo(last, last')
<1>1. /\ r_pc' = r_pc /\ r_instruction' = r_instruction /\ r_int_id' = r_int_id /\ gpr' = gpr /\ csr' = csr
      /\ cu' = cu /\ taken' = taken /\ r_address' = r_address /\ r_data' = r_data /\ last' = last
  BY DEF registers
<1>2. /\ Going' = Going /\ Here' = Here /\ InDecode' = InDecode /\ done' = done /\ w_cond' = w_cond
      /\ Pair' = Pair /\ Target' = Target /\ s' = s /\ Vector' = Vector
  <2>1. Going' = Going /\ Here' = Here /\ InDecode' = InDecode /\ done' = done
    BY <1>1 DEF Going, Here, InDecode, done
  <2>2. w_cond' = w_cond /\ Pair' = Pair /\ s' = s /\ Vector' = Vector
    BY <1>1 DEF w_cond, Pair, s, Vector
  <2>3. Target' = Target
    BY <1>1, <2>2 DEF Target
  <2> QED  BY <2>1, <2>2, <2>3
<1>3. /\ Found' = Found /\ Saved1' = Saved1 /\ Saved2' = Saved2 /\ Saved3' = Saved3
      /\ VectorLow' = VectorLow /\ Saving(cu.int_stage)' = Saving(cu.int_stage)
  <2>1. Found' = Found
    BY <1>1, <1>2 DEF Found
  <2>2. Saved1' = Saved1
    BY <2>1 DEF Saved1
  <2>3. Saved2' = Saved2
    BY <2>1, <2>2 DEF Saved2
  <2>4. Saved3' = Saved3
    BY <2>1, <2>3 DEF Saved3
  <2> QED  BY <1>1, <1>2, <2>1, <2>2, <2>3, <2>4 DEF VectorLow, Saving
<1>4. RegisterTypes'
  BY <1>1 DEF SequenceInv, RegisterTypes, BytesAt
<1>5. IdleInv' /\ FetchInv'
  <2>1. IdleInv'
    BY <1>1, <1>2 DEF SequenceInv, IdleInv, Idle, Named
  <2>2. FetchInv'
    BY <1>1, <1>2 DEF SequenceInv, FetchInv, Reads
  <2> QED  BY <2>1, <2>2
<1>6. PullInv' /\ SingleInv'
  <2>1. PullInv'
    BY <1>1, <1>2 DEF SequenceInv, PullInv, Reads
  <2>2. SingleInv'
    BY <1>1, <1>2 DEF SequenceInv, SingleInv, Reads
  <2> QED  BY <2>1, <2>2
<1>7. LinkInv'
  BY <1>1, <1>2 DEF SequenceInv, LinkInv
<1>8. EnterInv'
  BY <1>1, <1>2, <1>3 DEF SequenceInv, EnterInv, Reads, Named
<1> QED  BY <1>1, <1>4, <1>5, <1>6, <1>7, <1>8 DEF Rest, FromTo

\* A clock that waits is such a step,
LEMMA DoesWait ==
  ASSUME SequenceInv, NEW ready \in BOOLEAN, ready => bus.stb, Wait(ready),
         bus' = NextBus(ready), mem' = NextMem(ready), last' = IF Boundary' THEN Reached' ELSE last
  PROVE  RegisterTypes' /\ Rest' /\ FromTo(last, last')
<1>1. BusInv /\ ControlInv /\ RegisterTypes /\ IdleInv
  BY DEF SequenceInv, BusInv
<1>2. ~ready
  BY <1>1 DEF Wait, Idle, BusInv, OneTransfer, Waiting
<1>3. VM' = VM /\ (Storing' <=> Storing) /\ mem' = mem
  BY <1>1, <1>2, WaitMemory
<1>4. UNCHANGED registers /\ UNCHANGED <<r_address, r_data>> /\ request' = NoRequest
  BY DEF Wait, Silent
<1>5. r_pc' = r_pc /\ gpr' = gpr /\ csr' = csr /\ cu' = cu /\ taken' = taken
  BY <1>4 DEF registers
<1>6. View' = View
  BY <1>3, <1>5, ViewStays
<1>7. last' = last
  <2>1. CASE Boundary
    <3>1. Now' = Now
      <4>1. Now' = Mach(gpr, VC, 2 * r_pc, mem, cu.wfi)
        BY <1>3, <1>5, ViewNext, VcStays
      <4> QED  BY <4>1, ViewIs
    <3>2. last = [machine |-> View, taken |-> taken] /\ View = Now
      BY <1>1, <2>1, IdleView DEF Boundary, IdleInv
    <3>3. Boundary'
      BY <1>5, <2>1 DEF Boundary, Idle
    <3> QED  BY <1>5, <3>1, <3>2, <3>3 DEF Reached
  <2>2. CASE ~Boundary
    <3>1. ~Boundary'
      BY <1>5, <2>2 DEF Boundary, Idle
    <3> QED  BY <3>1
  <2> QED  BY <2>1, <2>2
<1>8. ~request.req /\ ~bus.stb => ~request'.req /\ ~bus'.stb
  <2>1. ~request'.req
    BY <1>4 DEF NoRequest
  <2> QED  BY <1>1, <2>1, BusCases
<1>9. BytesAt(mem')
  BY <1>1, <1>3, VmBytes
<1> QED  BY <1>3, <1>4, <1>6, <1>7, <1>8, <1>9, NothingDone

\* and so is a device that asks.
LEMMA DoesRaise ==
  ASSUME SequenceInv, UNCHANGED <<registers, r_address, r_data, mem, request, bus, last>>
  PROVE  RegisterTypes' /\ Rest' /\ FromTo(last, last')
<1>1. UNCHANGED registers /\ UNCHANGED <<r_address, r_data, last>> /\ mem' = mem /\ request' = request /\ bus' = bus
  OBVIOUS
<1>2. r_pc' = r_pc /\ gpr' = gpr /\ csr' = csr /\ cu' = cu
  BY <1>1 DEF registers
<1>3. VM' = VM /\ (Storing' <=> Storing)
  BY <1>1 DEF VM, Storing
<1>4. View' = View
  BY <1>2, <1>3, ViewStays
<1>5. BytesAt(mem')
  BY <1>1, VmBytes DEF SequenceInv
<1> QED  BY <1>1, <1>3, <1>4, <1>5, NothingDone

-----------------------------------------------------------------------------
(* The clock, and the invariant. *)

\* Every clock brings the machine on as its stage says, and only to one
\* boundary.
LEMMA ClockDoes ==
  ASSUME SequenceInv, NEW answer \in BOOLEAN, Clock(answer)
  PROVE  RegisterTypes' /\ Rest' /\ FromTo(last, last')
<1> DEFINE ready == answer /\ bus.stb
<1>1. ready \in BOOLEAN /\ (ready => bus.stb) /\ ControlInv
  BY DEF SequenceInv, BusInv, ControlInv
<1>2. /\ bus' = NextBus(ready) /\ mem' = NextMem(ready)
      /\ last' = IF Boundary' THEN Reached' ELSE last
      /\ \/ FetchLow \/ Enter
         \/ Calculate \/ MoveFromCsr \/ MoveToCsr \/ Branch \/ Control
         \/ ready /\ (FetchHigh \/ Fetched)
         \/ ready /\ EnterOn
         \/ Pull(ready) \/ Single(ready) \/ Link(ready) \/ Wait(ready)
  BY DEF Clock, Reached
<1> HIDE DEF ready
<1>3. Moves(ready) => Moving(ready)
  BY <1>1, <1>2 DEF Moving
<1>4. CASE FetchLow \/ Enter
  BY <1>1, <1>3, <1>4, MovesIdle, DoesFetchLow, DoesEnter
<1>5. CASE Calculate \/ MoveFromCsr \/ MoveToCsr \/ Branch \/ Control
  BY <1>1, <1>3, <1>5, MovesOnce, DoesCalculate, DoesMoveFromCsr, DoesMoveToCsr, DoesBranch, DoesControl
<1>6. CASE ready /\ (FetchHigh \/ Fetched)
  BY <1>1, <1>3, <1>6, MovesFetch, DoesFetchHigh, DoesFetched
<1>7. CASE ready /\ EnterOn
  BY <1>1, <1>3, <1>7, MovesEnterOn, DoesEnterOn
<1>8. CASE Pull(ready)
  BY <1>1, <1>3, <1>8, MovesPull, DoesPull
<1>9. CASE Single(ready)
  BY <1>1, <1>3, <1>9, MovesSingle, DoesSingle
<1>10. CASE Link(ready)
  BY <1>1, <1>3, <1>10, MovesLink, DoesLink
<1>11. CASE Wait(ready)
  BY <1>1, <1>2, <1>11, DoesWait
<1> QED  BY <1>2, <1>4, <1>5, <1>6, <1>7, <1>8, <1>9, <1>10, <1>11

\* What is taken was asked for.
LEMMA ClockTakes ==
  ASSUME BusInv, RequestInv, NEW answer \in BOOLEAN, Clock(answer)
  PROVE  RequestInv'
<1> DEFINE ready == answer /\ bus.stb
<1>1. /\ taken \in Nat /\ raised \in Nat /\ taken + (IF line /\ ~ack THEN 1 ELSE 0) <= raised
      /\ line \in BOOLEAN /\ ack \in BOOLEAN /\ (ack => cu.int_stage = 1)
      /\ (cu.stage = 0 \/ cu.int_stage = 0)
  BY DEF RequestInv, BusInv, ControlInv
<1>2. line' = (line /\ ~ack) /\ raised' = raised
  BY DEF Clock
<1>3. CASE Enter
  <2>1. ~ack /\ (cu.internal \/ line)
    BY <1>1, <1>3 DEF Enter, Idle, w_interrupt
  <2>2. cu'.int_stage = 1
    BY <1>3, EnterBegins DEF BusInv
  <2>3. CASE cu.internal
    <3>1. ack' = ack /\ taken' = taken
      BY <1>1, <1>3, <2>3 DEF Enter
    <3> QED  BY <1>1, <1>2, <2>1, <3>1 DEF RequestInv
  <2>4. CASE ~cu.internal
    <3>1. ack' = TRUE /\ taken' = taken + 1 /\ line
      BY <1>1, <1>3, <2>1, <2>4 DEF Enter
    <3> QED  BY <1>1, <1>2, <2>1, <2>2, <3>1 DEF RequestInv
  <2> QED  BY <2>3, <2>4
<1>4. CASE EnterOn
  <2>1. ack' = (ack /\ cu.int_stage # 1) /\ taken' = taken
    BY <1>4 DEF EnterOn
  <2>2. ~ack' /\ ack' \in BOOLEAN
    BY <1>1, <2>1
  <2> QED  BY <1>1, <1>2, <2>1, <2>2 DEF RequestInv
<1>5. CASE UNCHANGED registers
  <2>1. ack' = ack /\ taken' = taken /\ cu' = cu
    BY <1>5 DEF registers
  <2> QED  BY <1>1, <1>2, <2>1 DEF RequestInv
<1>6. CASE ack' = ack /\ taken' = taken /\ ~ack
  BY <1>1, <1>2, <1>6 DEF RequestInv
<1>7. \/ FetchLow \/ Calculate \/ MoveFromCsr \/ MoveToCsr \/ Branch \/ Control
      \/ FetchHigh \/ Fetched \/ Pull(ready) \/ Single(ready) \/ Link(ready)
      => ack' = ack /\ taken' = taken /\ ~ack
  <2>1. FetchLow => ack' = ack /\ taken' = taken /\ cu.int_stage = 0
    BY DEF FetchLow, Idle
  <2>2. Calculate \/ MoveFromCsr \/ MoveToCsr \/ Branch \/ Control
        => ack' = ack /\ taken' = taken /\ cu.stage = 3
    BY DEF Calculate, MoveFromCsr, MoveToCsr, Branch, Control, InStage3
  <2>3. FetchHigh \/ Fetched => ack' = ack /\ taken' = taken /\ (cu.stage = 1 \/ cu.stage = 2)
    BY DEF FetchHigh, Fetched
  <2>4. Pull(ready) \/ Single(ready) \/ Link(ready)
        => ack' = ack /\ taken' = taken /\ (cu.stage = 3 \/ cu.stage > 3)
    <3>1. Pull(ready) => ack' = ack /\ taken' = taken /\ Answered(ready)
      BY DEF Pull
    <3>2. Single(ready) => ack' = ack /\ taken' = taken /\ Answered(ready)
      BY DEF Single
    <3>3. Link(ready) => ack' = ack /\ taken' = taken /\ Answered(ready)
      BY DEF Link
    <3>4. Answered(ready) => cu.stage = 3 \/ cu.stage > 3
      BY DEF Answered
    <3> QED  BY <3>1, <3>2, <3>3, <3>4
  <2>5. cu.stage > 3 => cu.stage # 0
    BY DEF BusInv, ControlInv
  <2> QED  BY <1>1, <2>1, <2>2, <2>3, <2>4, <2>5
<1>8. Wait(ready) => UNCHANGED registers
  BY DEF Wait
<1>9. \/ FetchLow \/ Calculate \/ MoveFromCsr \/ MoveToCsr \/ Branch \/ Control
      \/ FetchHigh \/ Fetched \/ Pull(ready) \/ Single(ready) \/ Link(ready)
      \/ Enter \/ EnterOn \/ Wait(ready)
  BY DEF Clock
<1> HIDE DEF ready
<1> QED  BY <1>3, <1>4, <1>5, <1>6, <1>7, <1>8, <1>9

\* A device that asks may be served once more.
LEMMA RaiseAsks ==
  ASSUME RequestInv, Raise
  PROVE  RequestInv'
<1>1. ~line /\ line' = TRUE /\ raised' = raised + 1 /\ taken' = taken /\ ack' = ack /\ cu' = cu
  BY DEF Raise, registers
<1> QED  BY <1>1 DEF RequestInv

\* Every step keeps the invariant, and moves the boundary by one word or one
\* interrupt or not at all.
LEMMA NextSequence ==
  ASSUME SequenceInv, [Next]_vars
  PROVE  SequenceInv' /\ FromTo(last, last')
<1>1. BusInv'
  BY NextBusInv DEF SequenceInv
<1>2. ASSUME NEW answer \in BOOLEAN, Clock(answer) PROVE SequenceInv' /\ FromTo(last, last')
  <2>1. RegisterTypes' /\ Rest' /\ FromTo(last, last')
    BY <1>2, ClockDoes
  <2>2. RequestInv'
    BY <1>2, ClockTakes DEF SequenceInv
  <2> QED  BY <1>1, <2>1, <2>2 DEF SequenceInv, Rest
<1>3. CASE Raise
  <2>1. RegisterTypes' /\ Rest' /\ FromTo(last, last')
    BY <1>3, DoesRaise DEF Raise
  <2>2. RequestInv'
    BY <1>3, RaiseAsks DEF SequenceInv
  <2> QED  BY <1>1, <2>1, <2>2 DEF SequenceInv, Rest
<1>4. CASE UNCHANGED vars
  <2>1. RegisterTypes' /\ Rest' /\ FromTo(last, last')
    BY <1>4, DoesRaise DEF vars
  <2>2. RequestInv'
    BY <1>4 DEF SequenceInv, RequestInv, vars, registers
  <2> QED  BY <1>1, <2>1, <2>2 DEF SequenceInv, Rest
<1> QED  BY <1>2, <1>3, <1>4 DEF Next

\* At reset the machine is at a boundary.
LEMMA InitSequence ==
  ASSUME Init
  PROVE  SequenceInv
<1>1. PICK m \in Machines : gpr = m.gpr /\ csr = m.csr /\ mem = m.mem
  BY DEF Init
<1>2. /\ r_pc = 0 /\ r_instruction = 0 /\ r_address = 0 /\ r_data = 0 /\ r_int_id = DeviceId
      /\ cu.stage = 0 /\ cu.int_stage = 0 /\ ~cu.internal /\ cu.wfi = FALSE
      /\ ~request.req /\ ~bus.stb
      /\ line = FALSE /\ ack = FALSE /\ raised = 0 /\ taken = 0
      /\ last = [machine |-> Now, taken |-> 0]
  BY DEF Init, Off, NoRequest, Closed
<1>3. gpr \in Bytes /\ csr \in Bytes /\ csr[0] \in FlagBytes /\ BytesAt(mem)
  <2>1. /\ gpr \in [0..7 -> 0..255] /\ csr \in [0..7 -> 0..255] /\ csr[0] = Kept(csr[0])
        /\ \A a \in DOMAIN mem : mem[a] \in 0..255
    BY <1>1, MachinesAssumption
  <2> DEFINE f == csr[0]
  <2>2. gpr \in Bytes /\ csr \in Bytes /\ BytesAt(mem)
    BY <2>1 DEF Bytes, AByte, BytesAt
  <2>3. f \in AByte /\ f = Kept(f)
    BY <2>1, <2>2 DEF Bytes
  <2>4. csr[0] \in FlagBytes
    <3> HIDE DEF f
    <3>1. f \in FlagBytes
      BY <2>3 DEF FlagBytes
    <3> QED  BY <3>1 DEF f
  <2> QED  BY SMTT(30), <2>2, <2>4
<1>4. VM = mem /\ View = Now /\ ~Storing
  <2>1. VM = mem /\ ~Storing
    BY <1>2 DEF VM, Storing
  <2> QED  BY <2>1, ViewIs
<1>5. RegisterTypes
  <2>1. r_pc \in WordAddresses /\ r_instruction \in Addresses /\ r_int_id \in Ids
        /\ r_address \in Addresses /\ r_data \in AByte
    <3>1. 0 \in Addresses
      BY InAddresses
    <3> QED  BY <1>2, <3>1, MultiCycleAssumption DEF WordAddresses, Ids, AByte
  <2>2. VC \in Bytes /\ VC[0] \in ShownFlags
    <3>1. Reserved \in 0..7
      BY MultiCycleAssumption
    <3>2. Shown = csr[0] + 16 * Reserved
      BY DEF Shown
    <3>3. Shown \in ShownFlags
      BY <1>3, <3>2 DEF ShownFlags
    <3>4. Shown \in AByte
      BY <1>3, <3>1, <3>2, FlagByteIs DEF AByte
    <3> QED  BY <1>3, <3>3, <3>4 DEF VC, Bytes
  <2>3. MachineTypes(Now)
    <3>1. Now = Mach(gpr, VC, 2 * r_pc, mem, cu.wfi) /\ cu.wfi \in BOOLEAN
      BY <1>2, ViewIs
    <3> QED  BY <1>3, <2>1, <2>2, <3>1, MachineOf
  <2> QED  BY <1>2, <1>3, <2>1, <2>3 DEF RegisterTypes, BytesAt
<1>6. RequestInv
  <2>1. ~line /\ ~ack /\ line \in BOOLEAN /\ ack \in BOOLEAN
    BY <1>2
  <2>2. taken = 0 /\ raised = 0
    BY <1>2
  <2>3. taken + (IF line /\ ~ack THEN 1 ELSE 0) <= raised
    BY <2>1, <2>2
  <2> QED  BY <2>1, <2>2, <2>3 DEF RequestInv
<1>7. IdleInv /\ FetchInv /\ PullInv /\ SingleInv /\ LinkInv /\ EnterInv
  BY <1>2, <1>4 DEF IdleInv, FetchInv, PullInv, SingleInv, LinkInv, EnterInv
<1> QED  BY <1>5, <1>6, <1>7, InitBusInv DEF SequenceInv

\* In every state of the core, whatever the program and whatever its memory
\* holds, what the registers, the memory and the store under way come to is as
\* far between the last instruction boundary and the next as the stage says.
THEOREM SequenceInvariant == Spec => []SequenceInv
<1>1. Init => SequenceInv
  BY InitSequence
<1>2. SequenceInv /\ [Next]_vars => SequenceInv'
  BY NextSequence
<1> QED  BY <1>1, <1>2, PTL DEF Spec

\* The boundary WordsAreWhole speaks of is the last one.
LEMMA WholeIs ==
  ASSUME SequenceInv
  PROVE  Whole = last.machine /\ Served = last.taken
<1>1. CASE Boundary
  <2>1. last = [machine |-> View, taken |-> taken] /\ View = Now
    BY <1>1, IdleView DEF SequenceInv, Boundary, IdleInv
  <2> QED  BY <1>1, <2>1 DEF Whole, Served
<1>2. CASE ~Boundary
  BY <1>2 DEF Whole, Served
<1> QED  BY <1>1, <1>2

\* From one boundary to the next the core executes one whole word of its
\* memory, or enters the handler of one interrupt that the device asked for:
\* for every word, every length of the bus's answers and every moment at which
\* an interrupt comes.
THEOREM WholeWords == Spec => WordsAreWhole
<1>1. SequenceInv /\ SequenceInv' /\ [Next]_vars => [WordDone \/ InterruptDone]_<<Whole, Served>>
  <2> SUFFICES ASSUME SequenceInv, SequenceInv', [Next]_vars
               PROVE  [WordDone \/ InterruptDone]_<<Whole, Served>>
    OBVIOUS
  <2>1. FromTo(last, last')
    BY NextSequence
  <2>2. Whole = last.machine /\ Served = last.taken
    BY WholeIs
  <2>3. Whole' = last'.machine /\ Served' = last'.taken
    <3>1. CASE Boundary'
      <4>1. IdleInv' /\ BusInv'
        BY DEF SequenceInv
      <4>2. ~Storing'
        BY <3>1, <4>1 DEF BusInv, OneTransfer, Waiting, Boundary, Idle, Storing
      <4>3. View' = Now'
        <5>1. VM' = mem'
          BY <4>2 DEF VM
        <5> QED  BY <5>1, ViewNext
      <4>4. last' = [machine |-> View', taken |-> taken']
        BY <3>1, <4>1 DEF IdleInv, Boundary
      <4> QED  BY <3>1, <4>3, <4>4 DEF Whole, Served
    <3>2. CASE ~Boundary'
      BY <3>2 DEF Whole, Served
    <3> QED  BY <3>1, <3>2
  <2>4. CASE last' = last
    BY <2>2, <2>3, <2>4
  <2>5. CASE /\ ~last.machine.wait_for_interrupt
             /\ last'.machine \in After(Past(last.machine), WordAt(last.machine))
             /\ last'.taken = last.taken
    BY <2>2, <2>3, <2>5 DEF WordDone
  <2>6. CASE /\ last.machine.csr[0] >= 128 /\ last.taken < raised
             /\ last'.machine = Entered(last.machine, DeviceId, Cleared)
             /\ last'.taken = last.taken + 1
    BY <2>2, <2>3, <2>6 DEF InterruptDone
  <2> QED  BY <2>1, <2>4, <2>5, <2>6 DEF FromTo
<1> QED  BY <1>1, SequenceInvariant, PTL DEF Spec, WordsAreWhole
=============================================================================
