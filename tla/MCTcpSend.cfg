SPECIFICATION SendSpec
CONSTANTS
  base = base
  io1 = io1
  c1 = c1
  acceptor = acceptor
  t1 = t1
  Base = base
  Pool <- MCPool
  Conns = {c1}
  Acceptor = acceptor
  MaxCloses = 1
  Senders = {t1}
INVARIANT SendFindsConnection
CHECK_DEADLOCK FALSE
