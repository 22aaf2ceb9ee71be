SPECIFICATION FairSpec
CONSTANTS
  k1 = k1
  k2 = k2
  k3 = k3
  k4 = k4
  v1 = v1
  v2 = v2
  Keys <- MCKeys
  Values <- MCValue1
  Hash <- MCSpread
  NULL = NULL
  NONE = NONE
  EMPTY = EMPTY
  TOMBSTONE = TOMBSTONE
  OPS = {"insert", "lookup", "remove"}
  INITIAL_CAPACITY = 4
  MAX_CAPACITY = 8
PROPERTY
  CallsReturn
