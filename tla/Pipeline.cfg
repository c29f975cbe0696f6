SPECIFICATION Spec
CONSTANTS
    Unknown = Unknown
    Undriven = 165
    Programs <- MCPrograms
    Machines <- MCMachines
    DeviceId = 4
    MaxInterrupts = 2
CONSTRAINT Unspoilt
INVARIANTS
    InOrder
    OperandsCurrent
    CommittedState
    GetsOn
