SPECIFICATION Spec
CONSTANTS
  u1 = u1
  u2 = u2
  s1 = s1
  s2 = s2
  c1 = c1
  c2 = c2
  c3 = c3
  m1 = m1
  m2 = m2
  none = none
  Users = {u1, u2}
  Servers = {s1, s2}
  Conns = {c1, c2, c3}
  Msgs = {m1, m2}
  UserOf <- MCUserOf
  ServerOf <- MCServerOf
  To <- MCTo
  From <- MCFrom
  Stored = {m2}
  NoConn <- none
SYMMETRY MCSymmetry
INVARIANTS
  NoDeadEntry
  NobodyLeftOnline
CHECK_DEADLOCK FALSE
