CONSTANTS
    Slot <- MCSlot
    WordBits = 2
    MaxDup = 16
    MaxStackRegs = 15
    Programs <- VoidMain
    Keys <- MCKeys
    Storages <- MCStorages
SPECIFICATION MCSpec
INVARIANT
    NeverFaults
CHECK_DEADLOCK FALSE
