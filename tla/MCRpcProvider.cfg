SPECIFICATION FairSpec
CONSTANTS
  N = 3
  LenSize = 2
  Header <- MCHeader
  End <- MCEnd
INVARIANTS
  InStep
  NothingPastReject
  NothingLeftBehind
PROPERTIES
  Served
CHECK_DEADLOCK FALSE
