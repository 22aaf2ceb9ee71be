SPECIFICATION Spec
CONSTANTS
  LAST = 5
  HEADER = 1
  SIZES = {1}
  Locals <- OneLocal
  Statics <- OneStatic
  GENERATED = TRUE
  MAX_ROOTS = 0
  INITIAL_THRESHOLD = 2
  l1 = l1
  g1 = g1
INVARIANT
  UsableResolve
CHECK_DEADLOCK FALSE
