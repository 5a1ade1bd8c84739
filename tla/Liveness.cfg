CONSTANTS
    Slot <- MCSlot
    Cfgs <- MCCfgs
SPECIFICATION Spec
INVARIANTS
    TypeOK
    Settled
    LeastSolution
    LiveOnSomePath
    IntervalsCoverLiveness
PROPERTIES
    Monotone
    Terminates
CHECK_DEADLOCK FALSE
