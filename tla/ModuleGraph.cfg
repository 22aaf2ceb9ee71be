SPECIFICATION FairSpec
CONSTANTS
  a = a
  b = b
  c = c
  Modules <- MCModules
  NONE = NONE
  LATE_EDGES = FALSE
INVARIANTS
  EdgesMirrored
  DirtyPropagated
  OrderIndexed
PROPERTY
  CallsEnd
