SPECIFICATION Spec
CONSTANTS
  BankSize = 4
  WindowCount = 4
  RomBanks = 6
  Field = 4
  MaxLength = 4
  Items <- MCItems
INVARIANTS LabelsWhereCodeIs BranchesReach BytesWhereTheCpuLooks VerdictIsExact
CHECK_DEADLOCK FALSE
