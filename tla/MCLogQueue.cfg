SPECIFICATION FairSpec
CONSTANTS
  l1 = l1
  l2 = l2
  l3 = l3
  l4 = l4
  empty = empty
  Lines <- MCLines
  Empty = empty
INVARIANTS
  Drained
  NoSleepOverWork
PROPERTIES
  LinesWritten
  DestructorEnds
CHECK_DEADLOCK FALSE
