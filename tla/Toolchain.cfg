SPECIFICATION MCSpec
CONSTANTS
  Unknown = Unknown
  Root = "m"
  MaxDepth = 3
  MaxLines = 6
  MaxTurns = 12
  Machines <- MCMachines
INVARIANT ListingsAreTrue
INVARIANT IncludesFlatten
PROPERTY DoesWhatIsWritten
CHECK_DEADLOCK FALSE
