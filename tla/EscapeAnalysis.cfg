SPECIFICATION Spec
CONSTANTS
  p = p
  q = q
  x = x
  y = y
  Pointers <- MCPointers
  Locals <- MCLocals
  MAX_LENGTH = 5
  MAX_ADDR = 5
  COPY_DECLS = FALSE
  REASSIGN = FALSE
CHECK_DEADLOCK FALSE
SYMMETRY Symmetry
INVARIANTS
  NoDanglingReturn
  PromotedIsReturned
