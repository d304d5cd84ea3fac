SPECIFICATION FairSpec
CONSTANTS
  sinkInput = sinkInput
  masterSink = masterSink
  Streams = {1}
  Kinds <- MCKinds
  KindOf <- MCKindOf
  Masters <- MCMasters
  Devices = {7, 9}
  Hidden = {}
  Conns = {1, 2}
  NoDevice = 8
  NoConn = NoConn
  None = None
  MaxWork = 1
  MaxWire = 1
CHECK_DEADLOCK FALSE
INVARIANTS
  PulseInv
  FollowsServer
  ReleaseLeavesNothing
PROPERTIES
  WorkerIsAnswered
