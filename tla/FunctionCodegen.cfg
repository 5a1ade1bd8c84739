CONSTANTS
    Slot <- MCSlot
    WordBits = 2
    MaxDup = 16
    MaxStackRegs = 3
    Programs <- SupportedPrograms
    Keys <- MCKeys
    Storages <- MCStorages
SPECIFICATION MCSpec
INVARIANTS
    TypeOK
    StackDiscipline
    NoStaleLoad
    NeverFaults
PROPERTIES
    CallerUntouched
    RunsAsLowered
CHECK_DEADLOCK FALSE
