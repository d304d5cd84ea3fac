SPECIFICATION SerialFairSpec
CONSTANTS
  c1 = c1
  c2 = c2
  p1 = p1
  p2 = p2
  Worker = Worker
  Conns = {c1, c2}
  Callers = {Worker}
  NoConn = NoConn
  MaxOrphans = 1
  MaxAttempt = 0
  Params = {p1, p2}
  NoParams = NoParams
  MaxNotifiers = 1
INVARIANTS
  SerialInv
  EventsInv
PROPERTIES
  QuietAfterStop
  Progress
