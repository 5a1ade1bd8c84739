CONSTANTS
    Slot <- MCSlot
    MaxStackRegs = 2
    Inputs <- MCInputs
SPECIFICATION Spec
INVARIANTS
    TypeOK
    NoSharedColor
    OnlyUnderPressure
    LiveSlotsApart
    LayoutsFit
CHECK_DEADLOCK FALSE
