SPECIFICATION FairSpec
CONSTANTS
  NONE = NONE
  u1 = u1
  u2 = u2
  valid = valid
  invalid = invalid
  broken = broken
  Uris <- MCUris
  Texts <- MCTexts
  Content <- MCContent
  Lines <- MCLines
  StdDecls <- MCStdDecls
  BuiltinTypes = {"i32"}
  IN_CAPACITY = 2
  OUT_CAPACITY = 1
  MAX_SENT = 4
CHECK_DEADLOCK FALSE
INVARIANTS
  NothingLost
  DocumentsCurrent
  DiagnosticsCurrent
  AnswersMatch
PROPERTIES
  EveryRequestAnswered
  ServerEnds
