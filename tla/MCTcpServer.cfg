SPECIFICATION FairSpec
CONSTANTS
  base = base
  io1 = io1
  io2 = io2
  c1 = c1
  c2 = c2
  acceptor = acceptor
  Base = base
  Pool <- MCPool
  Conns <- MCConns
  Acceptor = acceptor
  MaxCloses = 2
INVARIANTS
  TypeOK
  NoDanglingChannel
  NobodyForgotten
  Balanced
PROPERTIES
  ClosedIsDestroyed
  DestructorReturns
CHECK_DEADLOCK FALSE
