CONSTANTS
    Slot <- MCSlot
    WordBits = 2
    MaxDup = 16
    MaxStackRegs = 15
    Programs <- ElseOnly
    Keys <- MCKeys
    Storages <- MCStorages
SPECIFICATION MCSpec
INVARIANT
    NoStaleLoad
CHECK_DEADLOCK FALSE
