------------------------------ MODULE Lifecycle ------------------------------
(***************************************************************************)
(* The two threads of the emulator from start to exit: main (main.c) with  *)
(* handle_uart_events (io.c), the loop of cpu_thread_worker with the       *)
(* debugger's prompt (debugger.c), the signal handler, and an operator who *)
(* shares one standard input between the guest program and the debugger.   *)
(*                                                                         *)
(* The threads share running and debug_mode without a lock.  Standard      *)
(* input is a queue of lines, from a terminal or redirected; main switches *)
(* it between raw and non-blocking for the guest and cooked and blocking   *)
(* for the debugger, once per turn of its loop, some time after debug_mode *)
(* has changed.  The debugger reads it through a stdio stream, main with   *)
(* read(); either may meet its end.                                        *)
(***************************************************************************)
EXTENDS Naturals, Sequences

CONSTANTS
  MaxTyped,     \* bound: lines the operator types
  MaxSteps      \* bound: the n of the debugger's "s n"

ASSUME LifecycleAssumption == MaxTyped \in Nat /\ MaxSteps \in Nat \ {0}

VARIABLES
  running,     \* vm.h: volatile bool running
  debug,       \* vm.h: bool debug_mode
  mpc,         \* where main stands
  raw,         \* is_raw; standard input is also O_NONBLOCK exactly then
  cpc,         \* where the CPU thread stands
  length,      \* the debugger's static step counter
  tty,         \* standard input is a terminal, or else redirected
  closed,      \* a redirected input has come to its end
  stdin,       \* lines typed and not yet read
  buffer,      \* lines the debugger's stream has read ahead
  ended,       \* the stream has met the end of the input, and remembers it
  typed,       \* how many lines have been typed
  received,    \* how many lines went to the guest's UART ring
  armed,       \* bp_count > 0
  granted,     \* instructions the operator has allowed (not in the program)
  freed        \* the machine has run outside the debugger (not in the program)

mainVars == <<mpc, raw>>
inputVars == <<tty, closed, typed>>
cpuVars == <<cpc, length, armed, buffer, ended, granted, freed>>
vars == <<running, debug, mpc, raw, cpc, length, armed, tty, closed, stdin,
          buffer, ended, typed, received, granted, freed>>

\* End is Ctrl-D on a cooked terminal: one read() returns 0.
Line(kind, n) == [kind |-> kind, count |-> n]
Text == Line("text", 0)
End == Line("end", 0)
Commands == {Line("s", n) : n \in 0 .. MaxSteps}
              \cup {Line("c", 0), Line("q", 0), Line("b", 0)}
Lines == Commands \cup {Text, End}

Init ==
  /\ running = FALSE
  /\ debug \in BOOLEAN                 \* -d
  /\ mpc = "setup" /\ raw = FALSE
  /\ cpc = "absent" /\ length = 0 /\ armed = FALSE
  /\ tty \in BOOLEAN /\ closed = FALSE
  /\ stdin = <<>> /\ typed = 0 /\ received = 0
  /\ buffer = <<>> /\ ended = FALSE
  /\ granted = 0 /\ freed = ~debug

-----------------------------------------------------------------------------
(* The main thread. *)

\* running = true, whatever a signal has set since the handler was installed,
\* and the CPU thread is created.
Launch ==
  /\ mpc = "setup"
  /\ running' = TRUE
  /\ cpc' = "top"
  /\ mpc' = "loop"
  /\ UNCHANGED <<debug, raw, length, inputVars, stdin, received,
                 armed, buffer, ended, granted, freed>>

\* Seeded bugs, each to show that a property notices; none is in the code.
EndlessMainTurn ==
  /\ mpc = "loop" /\ mpc' = "compare"
  /\ UNCHANGED <<running, debug, raw, inputVars, stdin, received, cpuVars>>
NeverCookedModes ==
  /\ mpc = "compare"
  /\ mpc' = IF ~debug /\ ~raw THEN "to_raw" ELSE "gate"
  /\ UNCHANGED <<running, debug, raw, inputVars, stdin, received, cpuVars>>
AlwaysRawModes ==
  /\ mpc = "compare"
  /\ mpc' = IF raw THEN "gate" ELSE "to_raw"
  /\ UNCHANGED <<running, debug, raw, inputVars, stdin, received, cpuVars>>
OpenGate ==
  /\ mpc = "gate" /\ mpc' = "read"
  /\ UNCHANGED <<running, debug, raw, inputVars, stdin, received, cpuVars>>

\* while (viM.running)
MainTurn ==
  /\ mpc = "loop"
  /\ mpc' = IF running THEN "compare" ELSE "join"
  /\ UNCHANGED <<running, debug, raw, inputVars, stdin, received, cpuVars>>

\* handle_uart_events compares debug_mode with is_raw.
CompareModes ==
  /\ mpc = "compare"
  /\ mpc' = IF debug /\ raw THEN "to_cooked"
            ELSE IF ~debug /\ ~raw THEN "to_raw" ELSE "gate"
  /\ UNCHANGED <<running, debug, raw, inputVars, stdin, received, cpuVars>>

\* What the terminal discards when its mode is set with TCSAFLUSH: all that was
\* typed and not read.  On a redirected input the call fails.
Flushed == IF tty THEN <<>> ELSE stdin

\* Both switches flush.
SwitchTerminal ==
  /\ mpc \in {"to_cooked", "to_raw"}
  /\ raw' = (mpc = "to_raw")
  /\ stdin' = Flushed
  /\ mpc' = "gate"
  /\ UNCHANGED <<running, debug, inputVars, received, cpuVars>>

\* if (viM->debug_mode) return: a second load, and the CPU thread may have
\* changed debug_mode since the first.
Gate ==
  /\ mpc = "gate"
  /\ mpc' = IF debug THEN "loop" ELSE "read"
  /\ UNCHANGED <<running, debug, raw, inputVars, stdin, received, cpuVars>>

\* while (read(STDIN_FILENO, &character, 1) > 0): a read at the end of the input
\* returns 0; one of an empty input fails when it is non-blocking and waits
\* otherwise.
MainRead ==
  /\ mpc = "read"
  /\ \/ /\ stdin # <<>> /\ Head(stdin) # End
        /\ received' = received + 1
        /\ stdin' = Tail(stdin)
        /\ UNCHANGED mpc
     \/ /\ stdin # <<>> /\ Head(stdin) = End
        /\ mpc' = "loop"
        /\ stdin' = Tail(stdin)
        /\ UNCHANGED received
     \/ /\ stdin = <<>> /\ (raw \/ closed)
        /\ mpc' = "loop"
        /\ UNCHANGED <<stdin, received>>
  /\ UNCHANGED <<running, debug, raw, inputVars, cpuVars>>

\* SDL_WaitThread returns; atexit restores the terminal.
Join ==
  /\ mpc = "join" /\ cpc = "stopped"
  /\ mpc' = "exited"
  /\ raw' = FALSE
  /\ stdin' = Flushed
  /\ UNCHANGED <<running, debug, inputVars, received, cpuVars>>

MainStep == Launch \/ MainTurn \/ CompareModes \/ SwitchTerminal \/ Gate \/ MainRead \/ Join

-----------------------------------------------------------------------------
(* The CPU thread. *)

\* while (viM->running), the breakpoint scan (any pc may match) and the entry
\* of debug_prompt: a step counter still running skips the prompt.
CpuTurn ==
  /\ cpc = "top"
  /\ IF running
       THEN /\ debug' \in (IF armed THEN {debug, TRUE} ELSE {debug})
            /\ cpc' = IF debug' /\ length = 0 THEN "prompt" ELSE "execute"
            /\ length' = IF debug' /\ length > 0 THEN length - 1 ELSE length
       ELSE /\ cpc' = "stopped"
            /\ UNCHANGED <<debug, length>>
  /\ UNCHANGED <<running, mainVars, inputVars, stdin, received,
                 armed, buffer, ended, granted, freed>>

AtPrompt == cpc \in {"prompt", "blocked"}

\* fgets finds no line: it returns NULL, which the debugger takes for "go on",
\* at the end of the input, then and at every later prompt, and from an empty
\* input that is non-blocking; else it waits.
PromptRead ==
  /\ AtPrompt /\ buffer = <<>>
  /\ \/ /\ ended
        /\ cpc' = "execute"
        /\ UNCHANGED <<stdin, ended>>
     \/ /\ ~ended /\ stdin # <<>> /\ Head(stdin) = End
        /\ cpc' = "execute" /\ ended' = TRUE
        /\ stdin' = Tail(stdin)
     \/ /\ ~ended /\ stdin = <<>> /\ closed
        /\ cpc' = "execute" /\ ended' = TRUE
        /\ UNCHANGED stdin
     \/ /\ ~ended /\ stdin = <<>> /\ ~closed /\ cpc = "prompt"
        /\ cpc' = IF raw THEN "execute" ELSE "blocked"
        /\ UNCHANGED <<stdin, ended>>
  /\ UNCHANGED <<running, debug, length, mainVars, inputVars, received,
                 armed, buffer, granted, freed>>

\* What one read() of the stream takes: a line from a cooked terminal, else
\* everything there is.
Taken == IF tty /\ ~raw THEN <<Head(stdin)>> ELSE stdin
Left == IF tty /\ ~raw THEN Tail(stdin) ELSE <<>>

\* What "s n" leaves in the step counter, and the one store "q" makes.
StepsLeft(line) ==
  IF line.kind # "s" THEN length
  ELSE IF line.count < 2 THEN 0 ELSE line.count - 1
Allowed(line) ==
  IF line.kind = "s" THEN StepsLeft(line) + 1
  ELSE IF line.kind \in {"c", "q"} THEN 1 ELSE granted
RevivingRunsOn(line) == line.kind # "q"
RunsOn(line) == running /\ line.kind # "q"

\* fgets returns a line, of those read ahead or of a new read(); "b" sets,
\* deletes or clears breakpoints, and stands for the commands that leave these
\* variables alone as well.
Command ==
  /\ AtPrompt
  /\ \/ /\ buffer # <<>>
        /\ UNCHANGED stdin
     \/ /\ buffer = <<>> /\ ~ended /\ stdin # <<>> /\ Head(stdin) # End
        /\ stdin' = Left
  /\ LET ahead == IF buffer # <<>> THEN buffer ELSE Taken
         line == Head(ahead)
     IN
       /\ buffer' = Tail(ahead)
       /\ cpc' = IF line.kind \in {"s", "c", "q"} THEN "execute" ELSE "prompt"
       /\ length' = StepsLeft(line)
       /\ debug' = (debug /\ line.kind # "c")
       /\ running' = RunsOn(line)
       /\ granted' = Allowed(line)
       /\ armed' \in (IF line.kind = "b" THEN BOOLEAN ELSE {armed})
       /\ freed' = (freed \/ line.kind = "c")
  /\ UNCHANGED <<mainVars, inputVars, received, ended>>

\* decode_execute: SWI 1 turns the debugger on, SWI 0 and an illegal
\* instruction stop the machine.
Execute ==
  /\ cpc = "execute"
  /\ cpc' = "top"
  /\ \/ UNCHANGED <<running, debug>>
     \/ debug' = TRUE /\ UNCHANGED running
     \/ running' = FALSE /\ UNCHANGED debug
  /\ granted' = IF granted > 0 THEN granted - 1 ELSE 0
  /\ UNCHANGED <<length, mainVars, inputVars, stdin, received,
                 armed, buffer, ended, freed>>

CpuStep == CpuTurn \/ PromptRead \/ Command \/ Execute

-----------------------------------------------------------------------------
(* The operator and the operating system. *)

\* The operator answers a prompt he sees, types to the guest otherwise, and may
\* type Ctrl-D while the terminal is cooked; a redirected input does not look.
Type ==
  /\ typed < MaxTyped /\ mpc # "exited" /\ ~closed
  /\ \E line \in (IF ~tty THEN Commands \cup {Text}
                 ELSE (IF AtPrompt THEN Commands ELSE {Text})
                        \cup (IF raw THEN {} ELSE {End})) :
       stdin' = Append(stdin, line)
  /\ typed' = typed + 1
  /\ UNCHANGED <<running, debug, mainVars, tty, closed, cpuVars, received>>

\* A redirected input comes to its end: there will be no further line.
Close ==
  /\ ~tty /\ ~closed /\ mpc # "exited"
  /\ closed' = TRUE
  /\ UNCHANGED <<running, debug, mainVars, tty, stdin, typed, cpuVars, received>>

\* SIGINT or SIGTERM at any time; closing the window has the same effect.
Signal ==
  /\ mpc # "exited" /\ running
  /\ running' = FALSE
  /\ UNCHANGED <<debug, mainVars, cpuVars, inputVars, stdin, received>>

Next == MainStep \/ CpuStep \/ Type \/ Close \/ Signal
Spec == Init /\ [][Next]_vars

\* Both threads are scheduled; the operator and the signals owe nothing.
FairSpec == Spec /\ WF_vars(MainStep) /\ WF_vars(CpuStep)

-----------------------------------------------------------------------------
(* Properties. *)

\* The variables keep their types: the step counter never becomes negative,
\* and main hands out no more lines than were typed.
TypeOK ==
  /\ running \in BOOLEAN /\ debug \in BOOLEAN
  /\ raw \in BOOLEAN /\ armed \in BOOLEAN /\ freed \in BOOLEAN
  /\ mpc \in {"setup", "loop", "compare", "to_cooked", "to_raw", "gate", "read",
              "join", "exited"}
  /\ cpc \in {"absent", "top", "prompt", "blocked", "execute", "stopped"}
  /\ length \in 0 .. MaxSteps /\ granted \in 0 .. MaxSteps
  /\ tty \in BOOLEAN /\ closed \in BOOLEAN /\ ended \in BOOLEAN
  /\ stdin \in Seq(Lines) /\ buffer \in Seq(Lines)
  /\ typed \in 0 .. MaxTyped /\ received \in 0 .. typed
  /\ Len(stdin) <= typed

\* The debugger announces "--- Debugger Paused ---": from there on, every
\* instruction is one a command has allowed, as long as there is an input to
\* take commands from: at its end the prompt is left as if answered.
Commanded == [][(Execute /\ debug) => granted > 0 \/ ended]_vars

\* It is so for a machine started with -d until it is first let run: main keeps
\* the input blocking, so that only the end of the input gets an instruction past
\* the prompt uncommanded, and until then "s n" executes exactly n instructions.
CommandedUntilFreed == [][(Execute /\ debug /\ ~freed) => granted > 0 \/ ended]_vars

\* Until then standard input belongs to the debugger alone: main hands no line
\* of it to the guest and never waits for one.
DebuggerOwnsInput == ~freed => received = 0 /\ mpc # "read"

\* A stop cannot be revoked once the threads run.
StopIsFinal == [][(mpc # "setup" /\ ~running) => ~running']_vars

\* A stop brings main to its exit, unless a thread waits for a line that nobody
\* types: the CPU thread at its prompt, or main in a read that has become
\* blocking, because "c" came between its two loads of debug_mode.  Nothing
\* waits for an input that has come to its end.
MainBlocked == mpc = "read" /\ ~raw
StopCompletes ==
  (mpc # "setup" /\ ~running)
    ~> (mpc = "exited" \/ (~closed /\ (cpc = "blocked" \/ MainBlocked)))

\* The terminal follows the debugger: a prompt does not stay raw for ever.
PromptGetsTerminal == (AtPrompt /\ raw) ~> (~raw \/ ~debug \/ ~running)
=============================================================================
