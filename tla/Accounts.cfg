SPECIFICATION Spec
CONSTANTS
  MaxAcc = 2
  u1 = u1
  u2 = u2
  Users = {u1, u2}
  None = None
  MaxEvents = 2
  MaxStarts = 2
SYMMETRY MCSymmetry
INVARIANTS
  AccountsAreShown
  StatusIsTrue
  ConfigIsOfAccount
  DuplicateOnlyWithoutPort
  NoneRevived
CHECK_DEADLOCK FALSE
