CONSTANTS
    Slot <- MCSlot
    WordBits = 2
    MaxDup = 16
    MaxStackRegs = 15
    Programs <- Negating
    Keys <- MCKeys
    Storages <- MCStorages
SPECIFICATION MCSpec
INVARIANT
    NegationNegates
CHECK_DEADLOCK FALSE
