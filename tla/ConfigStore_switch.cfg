SPECIFICATION Spec
CONSTANTS
  A = A
  B = B
  r1 = r1
  r2 = r2
  k1 = k1
  Profiles = {A, B}
  Rests = {r1, r2}
  OddRest = OddRest
  DefaultProfile = A
  DefaultRest = r1
  Consumers = {k1}
  None = None
  Missing = Missing
  Broken = Broken
PROPERTY SwitchKeepsHandEdits
