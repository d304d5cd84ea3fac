SPECIFICATION LinkSpec
CONSTANTS
  c1 = c1
  u1 = u1
  u2 = u2
  Worker = Worker
  i1 = i1
  i2 = i2
  s1 = s1
  s2 = s2
  a = a
  b = b
  Conns = {c1}
  Linkers = {u1}
  Unlinkers = {u2}
  Callers = {u1, u2, Worker}
  Accounts = {a, b}
  Settings <- MCSettings
  NoConn = NoConn
  None = None
  MaxOrphans = 1
  MaxAttempt = 0
INVARIANT UnlinkDropsConnection
