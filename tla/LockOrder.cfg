SPECIFICATION Spec
CONSTANTS
  c1 = c1
  c2 = c2
  CallIds = {c1, c2}
  NoCall = NoCall
  PlayerIds = {0, 1, 2}
  NoPlayer = NoPlayer
SYMMETRY Symmetry
CHECK_DEADLOCK FALSE
INVARIANT NoLockCycle
