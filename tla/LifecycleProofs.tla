---------------------------- MODULE LifecycleProofs ----------------------------
(***************************************************************************)
(* Proofs about Lifecycle, for any number of typed lines and any longest   *)
(* "s n".  The heart is OwnInv: as long as a machine started with -d has   *)
(* not been let run, main stays off the terminal, and the instructions the *)
(* operator has allowed are the step counter and the one under way, but    *)
(* for what runs when the input has come to its end.                       *)
(***************************************************************************)
EXTENDS Lifecycle, SequenceTheorems, TLAPS

\* Types, with the bound that makes them inductive: no line is counted twice.
TypeInv == TypeOK /\ received + Len(stdin) <= typed

\* What holds until the machine is first let run.
OwnInv ==
  ~freed =>
    /\ debug /\ ~raw /\ received = 0
    /\ mpc \in {"setup", "loop", "compare", "gate", "join", "exited"}
    /\ mpc = "setup" => cpc = "absent"
    /\ cpc \in {"absent", "top"} => granted = length
    /\ cpc \in {"prompt", "blocked"} => granted = 0 /\ length = 0
    /\ cpc = "execute" => \/ granted = length + 1
                          \/ ended /\ granted = 0 /\ length = 0

\* A command is a line, and what it leaves in the step counter is in range.
LEMMA CommandLines ==
  /\ Text \in Lines /\ End \in Lines /\ Commands \subseteq Lines
  /\ \A line \in Lines : /\ StepsLeft(line) \in 0 .. MaxSteps \cup {length}
                         /\ Allowed(line) \in 1 .. MaxSteps \cup {granted}
<1>1. \A line \in Commands :
        line.kind = "s" => line.count \in 0 .. MaxSteps
  BY DEF Commands, Line
<1>2. Text.kind = "text" /\ End.kind = "end"
  BY DEF Text, End, Line
<1>. QED
  BY <1>1, <1>2, LifecycleAssumption DEF Lines, StepsLeft, Allowed

\* Taking and adding a line keep a queue of lines one.
LEMMA Queue ==
  ASSUME NEW queue \in Seq(Lines)
  PROVE  /\ queue # <<>> => /\ Head(queue) \in Lines
                            /\ Tail(queue) \in Seq(Lines)
                            /\ Len(Tail(queue)) = Len(queue) - 1
         /\ Len(queue) \in Nat
         /\ <<>> \in Seq(Lines) /\ Len(<<>>) = 0
         /\ \A line \in Lines : /\ Append(queue, line) \in Seq(Lines)
                                /\ Len(Append(queue, line)) = Len(queue) + 1
                                /\ <<line>> \in Seq(Lines) /\ <<line>> # <<>>
<1>. HIDE DEF Lines
<1>. QED
  OBVIOUS

\* What a flush and a read of the stream leave of the queue is no longer than
\* it was, and the stream takes lines.
LEMMA Reads ==
  ASSUME stdin \in Seq(Lines)
  PROVE  /\ Flushed \in Seq(Lines) /\ Len(Flushed) \in 0 .. Len(stdin)
         /\ stdin # <<>> => /\ Taken \in Seq(Lines) /\ Taken # <<>>
                            /\ Left \in Seq(Lines) /\ Len(Left) \in 0 .. Len(stdin)
<1>1. Len(stdin) \in Nat /\ <<>> \in Seq(Lines) /\ Len(<<>>) = 0
  BY Queue
<1>2. Flushed \in Seq(Lines) /\ Len(Flushed) \in 0 .. Len(stdin)
  BY <1>1 DEF Flushed
<1>3. ASSUME stdin # <<>>
      PROVE  /\ Taken \in Seq(Lines) /\ Taken # <<>>
             /\ Left \in Seq(Lines) /\ Len(Left) \in 0 .. Len(stdin)
  <2>1. /\ Head(stdin) \in Lines /\ Tail(stdin) \in Seq(Lines)
        /\ Len(Tail(stdin)) = Len(stdin) - 1
    BY <1>3, Queue
  <2>2. <<Head(stdin)>> \in Seq(Lines) /\ <<Head(stdin)>> # <<>>
    BY <2>1, Queue
  <2>3. Len(Tail(stdin)) \in Nat
    BY <2>1, Queue
  <2>. QED
    BY <1>1, <1>3, <2>1, <2>2, <2>3 DEF Taken, Left
<1>. QED
  BY <1>2, <1>3

LEMMA TypeInit == Init => TypeInv
<1>1. <<>> \in Seq(Lines) /\ Len(<<>>) = 0
  OBVIOUS
<1>2. ASSUME Init PROVE debug \in BOOLEAN /\ freed \in BOOLEAN
  BY <1>2, Zenon DEF Init
<1>3. ASSUME Init PROVE /\ running \in BOOLEAN /\ raw \in BOOLEAN /\ armed \in BOOLEAN
                        /\ tty \in BOOLEAN /\ closed \in BOOLEAN /\ ended \in BOOLEAN
  BY <1>3, Zenon DEF Init
<1>4. ASSUME Init PROVE /\ length = 0 /\ granted = 0 /\ typed = 0 /\ received = 0
                        /\ stdin = <<>> /\ buffer = <<>>
                        /\ mpc = "setup" /\ cpc = "absent"
  BY <1>4, Zenon DEF Init
<1>. QED
  BY <1>1, <1>2, <1>3, <1>4, LifecycleAssumption DEF TypeInv, TypeOK

\* Every step of either thread, of the operator or of a signal keeps the types.
LEMMA TypeStep == TypeInv /\ [Next]_vars => TypeInv'
<1>. SUFFICES ASSUME TypeInv, [Next]_vars PROVE TypeInv'
  OBVIOUS
<1>. stdin \in Seq(Lines) /\ Len(stdin) \in Nat
  BY DEF TypeInv, TypeOK
<1>. USE LifecycleAssumption DEF TypeInv, TypeOK, mainVars, cpuVars, inputVars
<1>1. CASE Launch
  BY <1>1 DEF Launch
<1>2. CASE MainTurn
  BY <1>2 DEF MainTurn
<1>3. CASE CompareModes
  BY <1>3 DEF CompareModes
<1>4. CASE SwitchTerminal
  <2>1. stdin' \in Seq(Lines) /\ Len(stdin') \in 0 .. Len(stdin)
    BY <1>4, Reads DEF SwitchTerminal
  <2>2. raw' \in BOOLEAN /\ mpc' = "gate"
    BY <1>4, Zenon DEF SwitchTerminal
  <2>3. UNCHANGED <<running, debug, inputVars, received, cpuVars>>
    BY <1>4 DEF SwitchTerminal
  <2>. QED
    BY <2>1, <2>2, <2>3
<1>5. CASE Gate
  BY <1>5 DEF Gate
<1>6. CASE MainRead
  <2>1. stdin' \in Seq(Lines) /\ received' \in Nat
        /\ received' + Len(stdin') <= typed /\ Len(stdin') \in Nat
    <3>1. CASE stdin # <<>> /\ stdin' = Tail(stdin) /\ received' \in {received, received + 1}
      BY <3>1, Queue
    <3>2. CASE UNCHANGED <<stdin, received>>
      BY <3>2
    <3>. QED
      BY <1>6, <3>1, <3>2 DEF MainRead
  <2>2. mpc' \in {"read", "loop"} /\ UNCHANGED <<running, debug, raw, inputVars, cpuVars>>
    BY <1>6 DEF MainRead
  <2>. QED
    BY <2>1, <2>2
<1>7. CASE Join
  <2>1. stdin' \in Seq(Lines) /\ Len(stdin') \in 0 .. Len(stdin)
    BY <1>7, Reads DEF Join
  <2>2. raw' \in BOOLEAN /\ mpc' = "exited"
    BY <1>7, Zenon DEF Join
  <2>3. UNCHANGED <<running, debug, inputVars, received, cpuVars>>
    BY <1>7 DEF Join
  <2>. QED
    BY <2>1, <2>2, <2>3
<1>8. CASE CpuTurn
  <2>1. debug' \in BOOLEAN
    BY <1>8 DEF CpuTurn
  <2>2. cpc' \in {"prompt", "execute", "stopped"}
    BY <1>8, Zenon DEF CpuTurn
  <2>3. length' = length \/ (length > 0 /\ length' = length - 1)
    BY <1>8, Zenon DEF CpuTurn
  <2>4. UNCHANGED <<running, mainVars, inputVars, stdin, received, armed, buffer, ended,
                  granted, freed>>
    BY <1>8, Zenon DEF CpuTurn
  <2>. QED
    BY <2>1, <2>2, <2>3, <2>4
<1>9. CASE PromptRead
  <2>1. stdin' \in Seq(Lines) /\ Len(stdin') \in 0 .. Len(stdin)
    <3>1. CASE stdin # <<>> /\ stdin' = Tail(stdin)
      <4>1. Tail(stdin) \in Seq(Lines) /\ Len(Tail(stdin)) = Len(stdin) - 1
        BY <3>1, Queue
      <4>2. Len(Tail(stdin)) \in Nat
        BY <4>1, Queue
      <4>. QED
        BY <3>1, <4>1, <4>2
    <3>2. CASE UNCHANGED stdin
      BY <3>2
    <3>. QED
      BY <1>9, <3>1, <3>2 DEF PromptRead
  <2>2. cpc' \in {"execute", "blocked"}
    BY <1>9 DEF PromptRead
  <2>3. ended' \in BOOLEAN
    BY <1>9, Zenon DEF PromptRead
  <2>4. UNCHANGED <<running, debug, length, mainVars, inputVars, received,
                    armed, buffer, granted, freed>>
    BY <1>9 DEF PromptRead
  <2>. QED
    BY <2>1, <2>2, <2>3, <2>4
<1>10. CASE Command
  <2>. DEFINE ahead == IF buffer # <<>> THEN buffer ELSE Taken
  <2>1. ahead \in Seq(Lines) /\ ahead # <<>>
    BY <1>10, Reads DEF Command
  <2>2. Head(ahead) \in Lines /\ Tail(ahead) \in Seq(Lines)
    BY <2>1, Queue
  <2>3. stdin' \in Seq(Lines) /\ Len(stdin') \in 0 .. Len(stdin)
    BY <1>10, Reads DEF Command
  <2>4. length' = StepsLeft(Head(ahead)) /\ granted' = Allowed(Head(ahead))
        /\ buffer' = Tail(ahead) /\ running' = RunsOn(Head(ahead))
    BY <1>10, Zenon DEF Command
  <2>5. length' \in 0 .. MaxSteps /\ granted' \in 0 .. MaxSteps
    <3>. HIDE DEF ahead, Lines
    <3>1. /\ StepsLeft(Head(ahead)) \in 0 .. MaxSteps \cup {length}
          /\ Allowed(Head(ahead)) \in 1 .. MaxSteps \cup {granted}
      BY <2>2, CommandLines
    <3>. QED
      BY <2>4, <3>1
  <2>6. running' \in BOOLEAN
    BY <2>4, Zenon DEF RunsOn
  <2>7. debug' \in BOOLEAN /\ freed' \in BOOLEAN
    BY <1>10, Zenon DEF Command
  <2>8. cpc' \in {"execute", "prompt"} /\ armed' \in BOOLEAN
        /\ UNCHANGED <<mainVars, inputVars, received, ended>>
    BY <1>10 DEF Command
  <2>. HIDE DEF ahead
  <2>. QED
    BY <2>2, <2>3, <2>4, <2>5, <2>6, <2>7, <2>8
<1>11. CASE Execute
  <2>1. running' \in BOOLEAN /\ debug' \in BOOLEAN
    BY <1>11, Zenon DEF Execute
  <2>. QED
    BY <1>11, <2>1 DEF Execute
<1>12. CASE Type
  <2>1. stdin' \in Seq(Lines) /\ Len(stdin') = Len(stdin) + 1
    BY <1>12, Queue, CommandLines DEF Type
  <2>2. typed < MaxTyped /\ typed' = typed + 1
        /\ UNCHANGED <<running, debug, mainVars, tty, closed, cpuVars, received>>
    BY <1>12, Zenon DEF Type
  <2>. QED
    BY <2>1, <2>2
<1>13. CASE Close
  BY <1>13 DEF Close
<1>14. CASE Signal
  <2>1. /\ running' \in BOOLEAN
        /\ UNCHANGED <<debug, mainVars, cpuVars, inputVars, stdin, received>>
    BY <1>14, Zenon DEF Signal
  <2>. QED
    BY <2>1
<1>15. CASE UNCHANGED vars
  BY <1>15 DEF vars
<1>. QED
  BY <1>1, <1>2, <1>3, <1>4, <1>5, <1>6, <1>7, <1>8, <1>9, <1>10, <1>11,
     <1>12, <1>13, <1>14, <1>15 DEF Next, MainStep, CpuStep

LEMMA OwnInit == Init => OwnInv
BY DEF Init, OwnInv

\* The same steps keep the debugger in possession of the terminal until "c".
LEMMA OwnStep == TypeInv /\ OwnInv /\ [Next]_vars => OwnInv'
<1>. SUFFICES ASSUME TypeInv, OwnInv, [Next]_vars PROVE OwnInv'
  OBVIOUS
<1>. length \in Nat /\ granted \in Nat
  BY LifecycleAssumption DEF TypeInv, TypeOK
<1>. USE DEF OwnInv, mainVars, cpuVars, inputVars
<1>1. CASE MainStep
  <2>1. CASE Launch
    BY <1>1, <2>1 DEF Launch
  <2>2. CASE MainTurn
    BY <1>1, <2>2 DEF MainTurn
  <2>3. CASE CompareModes
    BY <1>1, <2>3 DEF CompareModes
  <2>4. CASE SwitchTerminal
    BY <1>1, <2>4 DEF SwitchTerminal
  <2>5. CASE Gate
    BY <1>1, <2>5 DEF Gate
  <2>6. CASE MainRead
    BY <1>1, <2>6 DEF MainRead
  <2>7. CASE Join
    BY <1>1, <2>7 DEF Join
  <2>. QED
    BY <1>1, <2>1, <2>2, <2>3, <2>4, <2>5, <2>6, <2>7 DEF MainStep
<1>2. CASE CpuTurn
  <2>. SUFFICES ASSUME ~freed PROVE OwnInv'
    BY <1>2 DEF CpuTurn
  <2>1. debug /\ granted = length /\ mpc # "setup"
    BY <1>2 DEF CpuTurn
  <2>2. debug'
    BY <1>2, <2>1 DEF CpuTurn
  <2>3. UNCHANGED <<mainVars, received, granted, ended, freed>>
    BY <1>2 DEF CpuTurn
  <2>4. CASE ~running
    BY <1>2, <2>1, <2>2, <2>3, <2>4 DEF CpuTurn
  <2>5. CASE running /\ length = 0
    <3>1. cpc' = "prompt" /\ length' = 0
      BY <1>2, <2>2, <2>5 DEF CpuTurn
    <3>. QED
      BY <2>1, <2>2, <2>3, <2>5, <3>1
  <2>6. CASE running /\ length # 0
    <3>1. cpc' = "execute" /\ length' = length - 1
      BY <1>2, <2>2, <2>6 DEF CpuTurn
    <3>. QED
      BY <2>1, <2>2, <2>3, <2>6, <3>1
  <2>. QED
    BY <2>4, <2>5, <2>6
<1>3. CASE PromptRead
  <2>1. AtPrompt /\ (cpc' = "blocked" \/ (cpc' = "execute" /\ (ended' \/ raw)))
    BY <1>3 DEF PromptRead
  <2>2. UNCHANGED <<debug, length, mainVars, received, granted, freed>>
    BY <1>3 DEF PromptRead
  <2>. QED
    BY <2>1, <2>2 DEF AtPrompt
<1>4. CASE Command
  <2>. DEFINE ahead == IF buffer # <<>> THEN buffer ELSE Taken
              line == Head(ahead)
  <2>1. ahead \in Seq(Lines) /\ ahead # <<>>
    <3>1. stdin \in Seq(Lines) /\ buffer \in Seq(Lines)
      BY DEF TypeInv, TypeOK
    <3>. QED
      BY <1>4, <3>1, Reads DEF Command
  <2>2. line \in Lines
    BY <2>1, Queue
  <2>3. /\ AtPrompt /\ length' = StepsLeft(line) /\ granted' = Allowed(line)
        /\ cpc' = IF line.kind \in {"s", "c", "q"} THEN "execute" ELSE "prompt"
        /\ debug' = (debug /\ line.kind # "c") /\ freed' = (freed \/ line.kind = "c")
        /\ UNCHANGED <<mainVars, received>>
    BY <1>4, Zenon DEF Command
  <2>. HIDE DEF line
  <2>. SUFFICES ASSUME ~freed, line.kind # "c" PROVE OwnInv'
    BY <2>3
  <2>4. granted = 0 /\ length = 0 /\ debug /\ debug'
    BY <2>3 DEF AtPrompt
  <2>5. CASE line.kind = "s"
    <3>1. StepsLeft(line) \in Nat
      BY <2>2, <2>4, CommandLines, LifecycleAssumption
    <3>2. Allowed(line) = StepsLeft(line) + 1
      BY <2>5 DEF Allowed
    <3>. QED
      BY <2>3, <2>4, <2>5, <3>1, <3>2 DEF AtPrompt
  <2>6. CASE line.kind = "q"
    BY <2>3, <2>4, <2>6 DEF StepsLeft, Allowed, AtPrompt
  <2>7. CASE line.kind \notin {"s", "c", "q"}
    BY <2>3, <2>4, <2>7 DEF StepsLeft, Allowed, AtPrompt
  <2>. QED
    BY <2>5, <2>6, <2>7
<1>5. CASE Execute
  <2>1. ~freed => debug'
    BY <1>5 DEF Execute
  <2>. QED
    BY <1>5, <2>1 DEF Execute
<1>6. CASE Type \/ Close \/ Signal
  BY <1>6 DEF Type, Close, Signal
<1>7. CASE UNCHANGED vars
  BY <1>7 DEF vars
<1>. QED
  BY <1>1, <1>2, <1>3, <1>4, <1>5, <1>6, <1>7 DEF Next, CpuStep

\* The variables keep their types whatever is typed and whenever a signal
\* comes: the debugger's step counter stays between 0 and the longest "s n".
THEOREM LifecycleTypeCorrect == Spec => []TypeOK
<1>1. Spec => []TypeInv
  BY TypeInit, TypeStep, PTL DEF Spec
<1>2. TypeInv => TypeOK
  BY DEF TypeInv
<1>. QED
  BY <1>1, <1>2, PTL

LEMMA LifecycleInvariant == Spec => [](TypeInv /\ OwnInv)
<1>1. Init => TypeInv /\ OwnInv
  BY TypeInit, OwnInit
<1>2. (TypeInv /\ OwnInv) /\ [Next]_vars => (TypeInv /\ OwnInv)'
  BY TypeStep, OwnStep
<1>. QED
  BY <1>1, <1>2, PTL DEF Spec

\* Until a machine started with -d is let run, main neither hands a line of
\* standard input to the guest nor enters read() (handle_uart_events).
THEOREM DebuggerKeepsInput == Spec => []DebuggerOwnsInput
<1>1. OwnInv => DebuggerOwnsInput
  BY DEF OwnInv, DebuggerOwnsInput
<1>. QED
  BY <1>1, LifecycleInvariant, PTL

\* And every instruction it executes is one that a command of the debugger's
\* prompt has allowed, "s n" allowing n for every n (debug_prompt_s), unless
\* fgets has met the end of the input (debug_prompt takes that for "go on").
THEOREM StepsAreCommanded == Spec => CommandedUntilFreed
<1>1. TypeInv /\ OwnInv /\ [Next]_vars
        => [(Execute /\ debug /\ ~freed) => granted > 0 \/ ended]_vars
  <2>. SUFFICES ASSUME TypeInv, OwnInv, Execute, ~freed, ~ended PROVE granted > 0
    OBVIOUS
  <2>1. granted = length + 1
    BY DEF OwnInv, Execute
  <2>. QED
    BY <2>1, LifecycleAssumption DEF TypeInv, TypeOK
<1>. QED
  BY <1>1, LifecycleInvariant, PTL DEF Spec, CommandedUntilFreed

\* Once the threads run, no step of either takes a stop back: q, SWI 0, a
\* signal and a closed window are final.
THEOREM StopHolds == Spec => StopIsFinal
<1>1. [Next]_vars => [(mpc # "setup" /\ ~running) => ~running']_vars
  BY DEF Next, vars, MainStep, CpuStep, Launch, MainTurn, CompareModes,
         SwitchTerminal, Gate, MainRead, Join, CpuTurn, PromptRead, Command,
         RunsOn, Execute, Type, Close, Signal, inputVars
<1>. QED
  BY <1>1, PTL DEF Spec, StopIsFinal

=============================================================================
