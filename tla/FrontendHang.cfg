SPECIFICATION Spec
CONSTANTS
    Sources <- Attributed
INVARIANTS
    NeverHangs
CHECK_DEADLOCK FALSE
