SPECIFICATION FairSpec
CONSTANTS
    Unknown = Unknown
    Lines <- MCLines
    Machines <- MCMachines
    DeviceId = 4
    Reserved = 5
    MaxInterrupts = 1
INVARIANTS
    Undivided
PROPERTIES
    RunsInSequence
    WordsAreWhole
    Handshake
    GetsOn
