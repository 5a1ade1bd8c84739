CONSTANTS
    Slot <- WideSlot
    WordBits = 2
    MaxDup = 16
    MaxStackRegs = 15
    Programs <- LateReads
    Keys <- MCKeys
    Storages <- MCStorages
SPECIFICATION MCSpec
INVARIANT
    OperandsInReach
CHECK_DEADLOCK FALSE
