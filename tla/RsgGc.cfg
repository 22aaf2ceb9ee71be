SPECIFICATION FairSpec
CONSTANTS
  LAST = 5
  HEADER = 1
  SIZES = {0, 1, 2}
  Locals <- OneLocal
  Statics <- OneStatic
  GENERATED = FALSE
  MAX_ROOTS = 2
  INITIAL_THRESHOLD = 2
  l1 = l1
  g1 = g1
INVARIANTS
  NoDangling
  SortedIndex
  MarkedIsReachable
  NoStaleMark
  RoomAfterCollect
PROPERTIES
  ImplementsHeap
  CollectEnds
CHECK_DEADLOCK FALSE
