SPECIFICATION FairSpec
CONSTANTS
  A = A
  B = B
  r1 = r1
  k1 = k1
  Profiles = {A, B}
  Rests = {r1}
  OddRest = OddRest
  DefaultProfile = A
  DefaultRest = r1
  Consumers = {k1}
  None = None
  Missing = Missing
  Broken = Broken
INVARIANTS
  ConfigInv
  ConsumersCatchUp
  FileIsLoaded
PROPERTIES
  RunningConfigIsKept
  ChangesArrive
