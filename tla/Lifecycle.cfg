CONSTANTS
  MaxTyped = 3
  MaxSteps = 2
SPECIFICATION FairSpec
INVARIANTS DebuggerOwnsInput
PROPERTIES CommandedUntilFreed StopIsFinal StopCompletes PromptGetsTerminal
CHECK_DEADLOCK FALSE
