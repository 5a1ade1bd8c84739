CONSTANTS
    WordBits = 2
    Void <- MCVoid
    Programs <- MCShipped
    StateVariable <- MCState
    Input <- MCInput
    Depth = 3
    Fuel = 20
SPECIFICATION Spec
INVARIANT
    SameTraces
CHECK_DEADLOCK FALSE
