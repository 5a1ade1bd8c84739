CONSTANTS
    Location <- MCLocation
    Mutable <- MCMutable
    Contracts <- StoreThenCallInLoop
SPECIFICATION Spec
INVARIANTS
    EffectsFirst
CHECK_DEADLOCK FALSE
