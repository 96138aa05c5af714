SPECIFICATION Spec
CONSTANTS
  a = a
  b = b
  Devices = {a, b}
  NoDevice = NoDevice
  Reports = 2
  MaxChanges = 4
INVARIANTS
  NothingMissed
PROPERTIES
  FollowsOrMixed
