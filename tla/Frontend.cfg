SPECIFICATION Spec
CONSTANTS
    Sources <- MCSources
INVARIANTS
    ScansBack
    ReadsBack
    AcceptedIsRead
    DocsAttached
    NeverHangs
CHECK_DEADLOCK FALSE
