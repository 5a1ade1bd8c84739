CONSTANTS
    WordBits = 2
    Void <- MCVoid
    Programs <- MCPrograms
    StateVariable <- MCState
    Input <- MCInput
    Depth = 3
    Fuel = 20
SPECIFICATION Spec
INVARIANTS
    TypeOK
    CandidatesClimb
    IdomIsDominance
    FrontiersAtDominanceEnds
    LoopsTurn
    NeverUndefined
    SsaHolds
    KeptMeaning
    LoweredDefined
PROPERTIES
    DominanceEnds
CHECK_DEADLOCK FALSE
