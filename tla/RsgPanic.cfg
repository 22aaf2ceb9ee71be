SPECIFICATION Spec
CONSTANTS
  m1 = m1
  m2 = m2
  Msgs <- MCMsgs
  DEFERS = 2
  MAX_DEPTH = 4
  DEFER_LOOPS = FALSE
  DEFER_PANICS = FALSE
  DEFER_CATCHES = FALSE
  DEFER_RETURNS = FALSE
CHECK_DEADLOCK FALSE
SYMMETRY Symmetry
INVARIANTS
  FramesMatchCalls
  CauseIsReported
PROPERTIES
  DefersRunLifo
  PanicGoesOn
