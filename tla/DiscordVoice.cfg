SPECIFICATION FairSpec
CONSTANTS
  a = a
  r1 = r1
  None = None
  NoRoom = NoRoom
  Nothing = Nothing
  Default = Default
  Rooms = {r1}
  Users = {a}
  Own = {}
  Start = 0
  Values = {0, 1}
  MaxEvents = 1
  MaxConns = 2
  MaxChanges = 2
CHECK_DEADLOCK FALSE
INVARIANTS
  VoiceInv
PROPERTIES
  RosterSettles
  SlidersReach
