CONSTANTS
  N = 4
  Data = {a, b}
  NoDatum = none
SPECIFICATION Spec
INVARIANTS NoSlotRace StatusMatchesData
PROPERTIES ImplementsFifo ImplementsCount
