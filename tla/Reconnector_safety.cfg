SPECIFICATION FairSpec
CONSTANTS
  c1 = c1
  c2 = c2
  k1 = k1
  k2 = k2
  Conns = {c1, c2}
  Callers = {k1, k2}
  NoConn = NoConn
  MaxOrphans = 1
  MaxAttempt = 1
INVARIANTS
  TypeOK
  OneLiveConnection
  ClosedOnce
  PublishedIsLive
  StopLeavesNothing
  OnlyOwnFailure
  BackoffStartsOver
PROPERTIES
  ImplementsLifecycle
  StopReturns
  AbandonedDialIsClosed
  Recovers
