CONSTANTS
    Trial <- MCTrial
    Programs <- MCPrograms
    Input <- MCInput
    MaxIterations = 7
    Fuel = 6
SPECIFICATION Spec
INVARIANTS
    TypeOK
    ContextsHold
    BrokenOnlyWhereBlind
    RoundsBounded
PROPERTIES
    SettledOnce
    Ends
CHECK_DEADLOCK FALSE
