CONSTANTS
    Location <- MCLocation
    Mutable <- MCMutable
    Contracts <- MCContracts
SPECIFICATION Spec
INVARIANTS
    TypeOK
    Disciplined
    OpenAcrossCalls
    EffectsFirstButForLoops
    RefusedForCause
PROPERTIES
    Terminates
CHECK_DEADLOCK FALSE
